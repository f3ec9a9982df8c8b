----------------------------- MODULE OptionPipeline -----------------------------
\* The option data pipeline (services/option_data_pipeline.py): collect the chain of
\* every symbol with retries, then analyse what was collected. One call of
\* OptionChainCollector.collect is one row of option_chain_runs.
EXTENDS PipelineRun

CONSTANTS
    Options,       \* the runs of this pipeline
    Symbols,       \* sequence of underlyings
    MaxAttempts    \* attempts per symbol

Symbol == {Symbols[k] : k \in DOMAIN Symbols}

\* The stage keeps each symbol it is given once, in their order (dict.fromkeys).
ASSUME SymbolsDiffer == /\ Symbols \in Seq(Symbol)
                        /\ \A j, k \in DOMAIN Symbols : Symbols[j] = Symbols[k] => j = k
ASSUME AttemptsArePositive == MaxAttempts \in Nat \ {0}

VARIABLES
    chain,         \* option_chain_runs by run, symbol and attempt
    tried,         \* attempts made for a symbol
    call,          \* what the current call for a symbol does
    result,        \* context["option_collection_results"]: the attempt that returned
    analytics      \* option_chain_analytics: the chain runs analysed

optionVars == <<chain, tried, call, result, analytics>>

OptionStages == <<"Option Chain Collection", "Option Analytics">>
ChainRun == Options \X Symbol \X (1..MaxAttempts)
NoQuotes == {}
NoChain == [status |-> "none", dated |-> FALSE, error |-> FALSE, quotes |-> NoQuotes]

\* A response is the set of what its strikes have for a side: nothing, a value that
\* is no number or negative, a quote without a price, a quote with one.
Response == SUBSET {"missing", "refused", "unpriced", "priced"}
Normalizes(response) == response # {} /\ response \subseteq {"unpriced", "priced"}

OptionInit ==
    /\ chain = [c \in ChainRun |-> NoChain]
    /\ tried = [r \in Options |-> [s \in Symbol |-> 0]]
    /\ call = [r \in Options |-> "ready"]
    /\ result = [r \in Options |-> [s \in Symbol |-> 0]]
    /\ analytics = {}

InOptionStage(r, k) == phase[r] = "stage" /\ at[r] = k /\ step[r] <= Len(Symbols)
Current(r) == Symbols[step[r]]
Doing(r, c) == InOptionStage(r, 1) /\ call[r] = c
Call(r, c) == call' = [call EXCEPT ![r] = c]
ThisChain(r) == <<r, Current(r), tried[r][Current(r)]>>
StaysInStage == UNCHANGED <<phase, at, row, metrics, ended>>
NextSymbol(r) == step' = [step EXCEPT ![r] = @ + 1]

\* Identity and expiry are resolved and the run row inserted, RUNNING. Any of it may
\* raise, the insert after its commit too.
StartChain(r) ==
    /\ Doing(r, "ready")
    /\ tried' = [tried EXCEPT ![r][Current(r)] = @ + 1]
    /\ \/ /\ chain' = [chain EXCEPT ![<<r, Current(r), tried[r][Current(r)] + 1>>] = [NoChain EXCEPT !.status = "RUNNING"]]
          /\ Call(r, "started") \/ Call(r, "error")
       \/ UNCHANGED chain /\ Call(r, "error")
    /\ StaysInStage /\ UNCHANGED <<step, failures, faults, result, analytics>>

\* The quotes and the status COMPLETED, in one transaction.
CompleteChainWithQuotes(c, quotes) ==
    chain' = [chain EXCEPT ![c] = [status |-> "COMPLETED", dated |-> TRUE, error |-> FALSE, quotes |-> quotes]]

\* The broker answers, the chain is normalised and stored, the call returns.
CollectReturns(r) ==
    /\ Doing(r, "started")
    /\ \E response \in Response :
          Normalizes(response) /\ CompleteChainWithQuotes(ThisChain(r), response)
    /\ result' = [result EXCEPT ![r][Current(r)] = tried[r][Current(r)]]
    /\ Call(r, "ready") /\ NextSymbol(r)
    /\ StaysInStage /\ UNCHANGED <<failures, faults, tried, analytics>>

\* The broker fails, the response is refused, or the transaction raises, committed or not.
CollectRaises(r) ==
    /\ Doing(r, "started")
    /\ \/ UNCHANGED <<chain, faults>>
       \/ /\ faults < MaxFaults
          /\ faults' = faults + 1
          /\ CompleteChainWithQuotes(ThisChain(r), {"priced"})
    /\ Call(r, "excepted")
    /\ StaysInStage /\ UNCHANGED <<step, failures, tried, result, analytics>>

\* fail_run, whatever the row says by then; it may raise in turn.
FailChain(r) ==
    /\ Doing(r, "excepted")
    /\ \/ /\ chain' = [chain EXCEPT ![ThisChain(r)] = [status |-> "FAILED", dated |-> TRUE, error |-> TRUE, quotes |-> @.quotes]]
          /\ UNCHANGED faults
       \/ /\ faults < MaxFaults
          /\ faults' = faults + 1
          /\ UNCHANGED chain
    /\ Call(r, "error")
    /\ StaysInStage /\ UNCHANGED <<step, failures, tried, result, analytics>>

\* The stage tries again while the error is retryable and attempts are left.
RetrySymbol(r) ==
    /\ Doing(r, "error")
    /\ tried[r][Current(r)] < MaxAttempts
    /\ Call(r, "ready")
    /\ StaysInStage /\ UNCHANGED <<step, failures, faults, chain, tried, result, analytics>>

SymbolFailure(r) == InsertFailure(r, OptionStages[at[r]], Current(r))

\* The call for the current symbol has raised, in the stage the run is in.
SymbolRaised(r) == InOptionStage(r, at[r]) /\ call[r] = "error"

\* Mutant: a failure row that cannot be inserted is logged and forgotten.
GiveUpSymbolLogging(r) ==
    /\ SymbolRaised(r)
    /\ SymbolFailure(r) \/ UNCHANGED failures
    /\ Call(r, "ready") /\ NextSymbol(r)
    /\ StaysInStage /\ UNCHANGED <<faults, chain, tried, result, analytics>>

\* The failure of the symbol is recorded: of a collection that is not retryable or was
\* the last attempt, of an analysis at once.
GiveUpSymbol(r) ==
    /\ SymbolRaised(r)
    /\ SymbolFailure(r)
    /\ Call(r, "ready") /\ NextSymbol(r)
    /\ StaysInStage /\ UNCHANGED <<faults, chain, tried, result, analytics>>

\* Mutant: the prices at the money are not required.
AnalysableUnpriced(c) == chain[c].status = "COMPLETED"

\* The prices of a call and a put at the money are required of a completed run.
Analysable(c) == chain[c].status = "COMPLETED" /\ "priced" \in chain[c].quotes

\* The attempt that collected the current symbol.
Collection(r) == <<r, Current(r), result[r][Current(r)]>>

\* calculate_and_persist is called for a collected symbol.
Analysing(r) == InOptionStage(r, 2) /\ call[r] = "ready" /\ result[r][Current(r)] # 0

\* The upsert of one row per source run.
UpsertAnalytics(r) == Analysable(Collection(r)) /\ analytics' = analytics \union {Collection(r)}

AnalyzeSymbol(r) ==
    /\ Analysing(r)
    /\ UpsertAnalytics(r)
    /\ NextSymbol(r)
    /\ StaysInStage /\ UNCHANGED <<failures, faults, chain, tried, call, result>>

\* It raises: the chain is refused, is stale, has no spot price, or the upsert fails,
\* committed or not.
AnalysisRaises(r) ==
    /\ Analysing(r)
    /\ \/ UNCHANGED <<analytics, faults>>
       \/ /\ faults < MaxFaults
          /\ faults' = faults + 1
          /\ UpsertAnalytics(r)
    /\ Call(r, "error")
    /\ StaysInStage /\ UNCHANGED <<step, failures, chain, tried, result>>

NothingToAnalyze(r) ==
    /\ InOptionStage(r, 2)
    /\ result[r][Current(r)] = 0
    /\ NextSymbol(r)
    /\ StaysInStage /\ UNCHANGED <<failures, faults>> /\ UNCHANGED optionVars

OptionStageEnds(r) ==
    /\ phase[r] = "stage" /\ step[r] > Len(Symbols)
    /\ StageReturns(r, OptionStages)
    /\ UNCHANGED <<row, failures, ended>> /\ UNCHANGED optionVars

\* The insert of a symbol's failure raises: that error leaves the stage.
FailureInsertRaises(r) ==
    /\ SymbolRaised(r)
    /\ CallFails(r)
    /\ UNCHANGED <<at, step, row, failures, metrics, ended>> /\ UNCHANGED optionVars

\* The failure names the symbol the context still points at.
FailedSymbol(r) == IF step[r] <= Len(Symbols) THEN Current(r) ELSE NoSymbol

OptionStep(r) ==
    \/ StartChain(r) \/ CollectReturns(r) \/ CollectRaises(r) \/ FailChain(r)
    \/ RetrySymbol(r) \/ GiveUpSymbol(r) \/ AnalyzeSymbol(r) \/ AnalysisRaises(r) \/ NothingToAnalyze(r)
    \/ OptionStageEnds(r) \/ FailureInsertRaises(r)
    \/ /\ \/ StartPipeline(r) \/ StartRaises(r) \/ StageRaises(r, OptionStages)
          \/ RecordFailure(r, OptionStages, FailedSymbol(r)) \/ FailRun(r) \/ CompleteRun(r) \/ CrashRun(r)
       /\ UNCHANGED optionVars

-------------------------------------------------------------------------------
OptionTypeOK ==
    /\ \A c \in ChainRun : /\ chain[c].status \in {"none", "RUNNING", "COMPLETED", "FAILED"}
                           /\ chain[c].quotes \subseteq {"unpriced", "priced"}
                           /\ chain[c].dated \in BOOLEAN /\ chain[c].error \in BOOLEAN
    /\ tried \in [Options -> [Symbol -> 0..MaxAttempts]]
    /\ call \in [Options -> {"ready", "started", "excepted", "error"}]
    /\ result \in [Options -> [Symbol -> 0..MaxAttempts]]
    /\ analytics \subseteq ChainRun

Failed(r, stage, s) == [stage |-> OptionStages[stage], symbol |-> s] \in failures[r]

\* A run reports COMPLETED although symbols failed, so every symbol must be accounted
\* for: it was collected or has a failure row of the first stage, never both; a
\* collected one was analysed or has a failure row of the second, and both only when
\* some call raised after its commit.
SymbolsAccounted ==
    \A r \in Options : row[r].status = "COMPLETED" =>
        \A s \in Symbol :
            LET analysed == <<r, s, result[r][s]>> \in analytics
            IN  /\ (result[r][s] # 0) # Failed(r, 1, s)
                /\ result[r][s] # 0 => analysed \/ Failed(r, 2, s)
                /\ analysed /\ Failed(r, 2, s) => faults # 0

\* What the release audit operational_state asks of option_chain_runs: a chain that is
\* over is dated, and has an error message when and only when it failed.
ChainsAreClosed ==
    \A c \in ChainRun :
        /\ chain[c].status \in {"COMPLETED", "FAILED"} => chain[c].dated
        /\ chain[c].status = "COMPLETED" => ~ chain[c].error
        /\ chain[c].status = "FAILED" => chain[c].error

\* What the release audit asks of option analytics: the source run is COMPLETED, its
\* quotes are stored and priced. A retry or a late fail_run must not take that away.
AnalyticsRestOnCompleteChains ==
    \A c \in analytics : chain[c].status = "COMPLETED" /\ "priced" \in chain[c].quotes
=================================================================================
