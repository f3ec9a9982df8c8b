----------------------------- MODULE MCOperations -----------------------------
\* The instance of Operations that TLC checks.
EXTENDS Operations

CONSTANTS
    m1, m2, o1,       \* runs of the production pipeline, a run of the option pipeline
    x, y,             \* two underlyings
    signal, failing,  \* a signal, and a pipeline run that has a failure row
    n1, n2,           \* two callers of the alert service
    console           \* a channel

MCSymbols == <<x, y>>
MCChannels == <<console>>
MCKind == (signal :> "SIGNAL") @@ (failing :> "PIPELINE_HEALTH")

\* A master with two options, of which one expires early; a later one that spoils the
\* row of the first, repeats the second and gives the symbol of the first away; one
\* under an old name of the underlying where that symbol has a new security id.
Equity(u) == [instrument |-> "EQUITY", underlying |-> u, id |-> "e", trading |-> u, expiry |-> 0, lot |-> 1, strike |-> 0, side |-> "none"]
Option(u, id, trading, expiry, lot) ==
    [instrument |-> "OPTSTK", underlying |-> u, id |-> id, trading |-> trading, expiry |-> expiry, lot |-> lot, strike |-> 1, side |-> "CE"]
MCMaster == {<<Equity("u"), Option("u", "1", "t1", 1, 1), Option("u", "2", "t2", 2, 1)>>,
             <<Equity("u"), Option("u", "2", "t2", 2, 1), Option("u", "2", "t1", 2, 1), Option("u", "1", "t1", 2, 0)>>,
             <<Option("v", "3", "t1", 2, 1)>>}
MCAlias == [v |-> "u", u |-> "u"]
================================================================================
