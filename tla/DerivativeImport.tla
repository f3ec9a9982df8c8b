---------------------------- MODULE DerivativeImport ----------------------------
\* The universe and its contracts: scripts/import_instruments.py replaces the table of
\* instruments; the importer of the security master upserts derivative contracts and
\* deactivates all others. Both are run by hand, each call commits a transaction of
\* its own, and nothing keeps two runs apart.
EXTENDS Integers, Sequences, FiniteSets, FiniteSetsExt

CONSTANTS
    Master,           \* security masters, each a sequence of rows
    Alias,            \* symbol_aliases: of every underlying its symbol
    AsOf,             \* dates an import may be made for
    Importer,         \* runs of the importer
    Refresher,        \* runs of import_instruments.py
    MaxFailures,      \* max_persisted_failures
    MaxInterruptions  \* bound: calls that raise, and crashes

VARIABLES
    universe,         \* instruments: the symbols
    contracts,        \* derivative_contracts by security id
    importRuns,       \* derivative_import_runs
    importFailures,   \* number of derivative_import_failures of the run
    importing,        \* by importer: where it stands and what it holds
    refreshing,       \* by refresher: where it stands and the symbols it holds
    since,            \* history: imports that wrote contracts after this one's upsert
    interruptions     \* raised calls and crashes so far

derivativeVars == <<universe, contracts, importRuns, importFailures, importing, refreshing, since, interruptions>>

MasterRows == UNION {{m[n] : n \in DOMAIN m} : m \in Master}
Id == {r.id : r \in MasterRows}

ASSUME MastersAreSequences == \A m \in Master : m \in Seq(MasterRows)

Unlisted == [active |-> FALSE, trading |-> "none"]
NoImport == [at |-> "new", parsed |-> <<>>, rejected |-> 0, upserted |-> 0, deactivated |-> 0]

Interrupted == interruptions < MaxInterruptions /\ interruptions' = interruptions + 1

-------------------------------------------------------------------------------
\* Underlyings of the derivatives of a master, under the names it gives them.
Underlyings(m) == {m[n].underlying : n \in {k \in DOMAIN m : m[k].instrument # "EQUITY"}}

\* Those whose cash equity is listed too, with a security id; test symbols are not in
\* the masters here.
BuildFnoEquityInstruments(m) ==
    {m[n].underlying : n \in {k \in DOMAIN m : m[k].instrument = "EQUITY" /\ m[k].id # ""}} \intersect Underlyings(m)

\* An empty list raises before anything is deleted.
BeginRefresh(f) ==
    /\ refreshing[f].at = "new"
    /\ \E m \in Master :
          refreshing' = [refreshing EXCEPT ![f] =
              [at |-> IF BuildFnoEquityInstruments(m) = {} THEN "over" ELSE "delete", listed |-> BuildFnoEquityInstruments(m)]]
    /\ UNCHANGED <<universe, contracts, importRuns, importFailures, importing, since, interruptions>>

DeleteAll(f) ==
    /\ refreshing[f].at = "delete"
    /\ universe' = {}
    /\ refreshing' = [refreshing EXCEPT ![f].at = "insert"]
    /\ UNCHANGED <<contracts, importRuns, importFailures, importing, since, interruptions>>

InsertInstruments(f) ==
    /\ refreshing[f].at = "insert"
    /\ universe' = universe \union refreshing[f].listed
    /\ refreshing' = [refreshing EXCEPT ![f].at = "over"]
    /\ UNCHANGED <<contracts, importRuns, importFailures, importing, since, interruptions>>

\* The process dies or a call raises: the table may stay empty.
RefreshEnds(f) ==
    /\ refreshing[f].at \in {"delete", "insert"}
    /\ Interrupted
    /\ refreshing' = [refreshing EXCEPT ![f].at = "over"]
    /\ UNCHANGED <<universe, contracts, importRuns, importFailures, importing, since>>

-------------------------------------------------------------------------------
\* Stock futures and options that have not expired on the date of the import.
Candidate(r, supported, asOf) ==
    r.instrument \in {"FUTSTK", "OPTSTK"} /\ Alias[r.underlying] \in supported /\ r.expiry >= asOf

\* What _build_contract and normalized demand of a row: whole lots (0 stands for a
\* number they refuse), and of an option a strike and a side.
Buildable(r) ==
    r.lot > 0 /\ (r.instrument = "OPTSTK" => r.strike >= 0 /\ r.side \in {"CE", "PE"})

\* Accepted rows in their order; of an identity the first one, the others are rejected.
Accepted(m, supported, asOf) ==
    {n \in DOMAIN m : /\ Candidate(m[n], supported, asOf) /\ Buildable(m[n])
                      /\ \A k \in 1..(n - 1) : m[k].id = m[n].id =>
                            ~ (Candidate(m[k], supported, asOf) /\ Buildable(m[k]))}

Contract(r) == [id |-> r.id, trading |-> r.trading, underlying |-> Alias[r.underlying], expiry |-> r.expiry]

Parse(m, supported, asOf) ==
    LET accepted == Accepted(m, supported, asOf)
        nth(k) == CHOOSE n \in accepted : Cardinality({x \in accepted : x <= n}) = k
    IN  [contracts |-> [k \in 1..Cardinality(accepted) |-> Contract(m[nth(k)])],
         rejected |-> Cardinality({n \in DOMAIN m : Candidate(m[n], supported, asOf)}) - Cardinality(accepted)]

Row(c) == [active |-> TRUE, trading |-> c.trading, underlying |-> c.underlying, expiry |-> c.expiry]
Ids(parsed) == {parsed[n].id : n \in DOMAIN parsed}
Of(parsed, id) == parsed[CHOOSE n \in DOMAIN parsed : parsed[n].id = id]

\* idx_derivative_contracts_trading_symbol_unique: different contracts of a list differ
\* in their symbols.
SymbolsAreUnique(parsed) ==
    \A j, k \in DOMAIN parsed : parsed[j].trading = parsed[k].trading => parsed[j].id = parsed[k].id

\* Instruments and contracts are there from earlier, some of these deactivated since.
DerivativeInit ==
    /\ universe = {Alias[r.underlying] : r \in {x \in MasterRows : x.instrument # "EQUITY"}}
    /\ \E m \in Master \union {<<>>}, missing \in SUBSET Id :
          LET past == Parse(m, universe, 0).contracts
          IN  /\ SymbolsAreUnique(past)
              /\ contracts = [id \in Id |-> IF id \notin Ids(past) THEN Unlisted
                                             ELSE [Row(Of(past, id)) EXCEPT !.active = id \notin missing]]
    /\ importRuns = [i \in Importer |-> [status |-> "none", dated |-> FALSE, upserted |-> 0, deactivated |-> 0]]
    /\ importFailures = [i \in Importer |-> 0]
    /\ importing = [i \in Importer |-> NoImport]
    /\ refreshing = [f \in Refresher |-> [at |-> "new", listed |-> {}]]
    /\ since = [i \in Importer |-> {}]
    /\ interruptions = 0

-------------------------------------------------------------------------------
Stage(i, at) == importing' = [importing EXCEPT ![i].at = at]
ImportAt(i, at) == importing[i].at = at

\* The universe is read, the file is parsed, before a run is recorded: without
\* instruments or contracts, and in a dry run, nothing is written.
BeginImport(i) ==
    /\ ImportAt(i, "new")
    /\ \E m \in Master, asOf \in AsOf, dry \in BOOLEAN :
          LET parsed == Parse(m, universe, asOf)
              go == universe # {} /\ parsed.contracts # <<>> /\ ~ dry
          IN  importing' = [importing EXCEPT ![i] = [NoImport EXCEPT
                  !.at = IF go THEN "start" ELSE "over",
                  !.parsed = IF go THEN parsed.contracts ELSE <<>>,
                  !.rejected = IF go THEN parsed.rejected ELSE 0]]
    /\ UNCHANGED <<universe, contracts, importRuns, importFailures, refreshing, since, interruptions>>

StartImportRun(i) ==
    /\ ImportAt(i, "start")
    /\ importRuns' = [importRuns EXCEPT ![i].status = "RUNNING"]
    /\ \/ Stage(i, "failures") /\ UNCHANGED interruptions
       \/ Stage(i, "over") /\ Interrupted
    /\ UNCHANGED <<universe, contracts, importFailures, refreshing, since>>

\* The step is over, or it is committed and the call raises all the same.
Proceeds(i, next) ==
    \/ importing' = [importing EXCEPT ![i] = next] /\ UNCHANGED interruptions
    \/ Stage(i, "failing") /\ Interrupted

InsertImportFailures(i) ==
    /\ ImportAt(i, "failures")
    /\ importFailures' = [importFailures EXCEPT ![i] = Min({importing[i].rejected, MaxFailures})]
    /\ Proceeds(i, [importing[i] EXCEPT !.at = "upsert"])
    /\ UNCHANGED <<universe, contracts, importRuns, refreshing, since>>

\* Row by row, another contract holds the trading symbol: the unique index raises.
SymbolTaken(parsed) ==
    \E n \in DOMAIN parsed : \E id \in Id \ {parsed[n].id} :
        \/ \E k \in 1..(n - 1) : parsed[k].id = id /\ parsed[k].trading = parsed[n].trading
        \/ (\A k \in 1..(n - 1) : parsed[k].id # id) /\ contracts[id].trading = parsed[n].trading

\* Other imports see that this one wrote.
Wrote(i, itself) ==
    since' = [j \in Importer |-> IF j = i THEN (IF itself THEN {} ELSE since[i]) ELSE since[j] \union {i}]

\* Mutant: a contract that is there keeps its is_active.
BulkUpsertKeepingState(i) ==
    /\ ImportAt(i, "upsert") /\ ~ SymbolTaken(importing[i].parsed)
    /\ contracts' = [id \in Id |-> IF id \in Ids(importing[i].parsed)
                                   THEN [Row(Of(importing[i].parsed, id)) EXCEPT !.active = contracts[id] = Unlisted \/ contracts[id].active]
                                   ELSE contracts[id]]
    /\ Wrote(i, TRUE)
    /\ Proceeds(i, [importing[i] EXCEPT !.at = "deactivate", !.upserted = Len(importing[i].parsed)])
    /\ UNCHANGED <<universe, importRuns, importFailures, refreshing>>

BulkUpsert(i) ==
    /\ ImportAt(i, "upsert") /\ ~ SymbolTaken(importing[i].parsed)
    /\ contracts' = [id \in Id |-> IF id \in Ids(importing[i].parsed) THEN Row(Of(importing[i].parsed, id)) ELSE contracts[id]]
    /\ Wrote(i, TRUE)
    /\ Proceeds(i, [importing[i] EXCEPT !.at = "deactivate", !.upserted = Len(importing[i].parsed)])
    /\ UNCHANGED <<universe, importRuns, importFailures, refreshing>>

UpsertRefused(i) ==
    /\ ImportAt(i, "upsert") /\ SymbolTaken(importing[i].parsed)
    /\ Stage(i, "failing")
    /\ UNCHANGED <<universe, contracts, importRuns, importFailures, refreshing, since, interruptions>>

DeactivateMissing(i) ==
    /\ ImportAt(i, "deactivate")
    /\ LET missing == {id \in Id : contracts[id].active /\ id \notin Ids(importing[i].parsed)}
       IN  /\ contracts' = [id \in Id |-> IF id \in missing THEN [contracts[id] EXCEPT !.active = FALSE] ELSE contracts[id]]
           /\ Wrote(i, FALSE)
           /\ Proceeds(i, [importing[i] EXCEPT !.at = "complete", !.deactivated = Cardinality(missing)])
    /\ UNCHANGED <<universe, importRuns, importFailures, refreshing>>

\* Both verdicts date the row and store the counts the process holds.
FinishRun(i, status) ==
    importRuns' = [importRuns EXCEPT ![i] = [status |-> status, dated |-> TRUE,
        upserted |-> importing[i].upserted, deactivated |-> importing[i].deactivated]]

CompleteImportRun(i) ==
    /\ ImportAt(i, "complete")
    /\ FinishRun(i, "COMPLETED")
    /\ Proceeds(i, [importing[i] EXCEPT !.at = "over"])
    /\ UNCHANGED <<universe, contracts, importFailures, refreshing, since>>

\* A call raises before its commit.
ImportCallRaises(i) ==
    /\ importing[i].at \in {"failures", "upsert", "deactivate", "complete"}
    /\ Interrupted
    /\ Stage(i, "failing")
    /\ UNCHANGED <<universe, contracts, importRuns, importFailures, refreshing, since>>

FailImportRun(i) ==
    /\ ImportAt(i, "failing")
    /\ FinishRun(i, "FAILED")
    /\ Stage(i, "over")
    /\ UNCHANGED <<universe, contracts, importFailures, refreshing, since, interruptions>>

\* The process dies, or a call outside the try statement raises.
ImportCrashes(i) ==
    /\ importing[i].at \notin {"new", "over"}
    /\ Interrupted
    /\ Stage(i, "over")
    /\ UNCHANGED <<universe, contracts, importRuns, importFailures, refreshing, since>>

DerivativeStep ==
    \/ \E f \in Refresher : BeginRefresh(f) \/ DeleteAll(f) \/ InsertInstruments(f) \/ RefreshEnds(f)
    \/ \E i \in Importer :
          \/ BeginImport(i) \/ StartImportRun(i) \/ InsertImportFailures(i) \/ BulkUpsert(i) \/ UpsertRefused(i)
          \/ DeactivateMissing(i) \/ CompleteImportRun(i) \/ ImportCallRaises(i) \/ FailImportRun(i) \/ ImportCrashes(i)

-------------------------------------------------------------------------------
Active == {id \in Id : contracts[id].active}

\* What the contract table owes to the imports, whatever is interrupted and however
\* two imports overlap. A COMPLETED run that no other one followed or overlapped left
\* exactly the contracts of its file; a contract that every file lists is never lost;
\* after one, none is active that no file lists; and no two of them share a trading symbol.
ContractsFollowImports ==
    /\ \A i \in Importer :
          /\ importRuns[i].status = "COMPLETED" /\ since[i] = {} =>
                /\ Active = Ids(importing[i].parsed)
                /\ \A id \in Active : contracts[id] = Row(Of(importing[i].parsed, id))
          /\ importRuns[i].status = "COMPLETED" =>
                \A id \in Ids(importing[i].parsed) \ Active : \E j \in since[i] : id \notin Ids(importing[j].parsed)
    /\ (\E i \in Importer : importRuns[i].status = "COMPLETED") =>
          \A id \in Active : \E i \in Importer : id \in Ids(importing[i].parsed)
    /\ \A id, other \in {d \in Id : contracts[d] # Unlisted} : contracts[id].trading = contracts[other].trading => id = other
================================================================================
