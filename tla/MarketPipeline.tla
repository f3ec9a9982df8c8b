----------------------------- MODULE MarketPipeline -----------------------------
\* The production pipeline (services/production_pipeline.py): collect quotes, take
\* a snapshot of the latest batch, derive features. The lock of the scheduler does
\* not cover run_pipeline.py, so that two runs may share the tables.
EXTENDS PipelineRun

CONSTANTS
    Market,         \* the runs of this pipeline
    RequestBatches, \* the instruments need this many requests
    BatchQuotes     \* numbers of usable quotes a request may return

VARIABLES
    stamps,         \* request batches by collected_at, as [by, quotes]
    saved,          \* those of them whose quotes are committed
    inserted,       \* context["quotes_inserted"] of the run
    batch,          \* the batch list_latest_batch gave the run
    snapshots,      \* scanner_snapshots of the run: the batch they copy
    features        \* market_features of the run: the batch they derive from

marketVars == <<stamps, saved, inserted, batch, snapshots, features>>

MarketStages == <<"Database", "Collector", "Snapshot Engine", "Feature Engine",
                  "Ranking Engine", "Risk Engine", "Signal Engine">>
NoBatch == 0

MarketInit ==
    /\ stamps = <<>>
    /\ saved = {}
    /\ inserted = [r \in Market |-> 0]
    /\ batch = [r \in Market |-> NoBatch]
    /\ snapshots = [r \in Market |-> NoBatch]
    /\ features = [r \in Market |-> NoBatch]

InStage(r, name) == phase[r] = "stage" /\ MarketStages[at[r]] = name
AtStep(r, name, n) == InStage(r, name) /\ step[r] = n
Step(r) == step' = [step EXCEPT ![r] = @ + 1] /\ UNCHANGED <<phase, at, failures, metrics, faults>>
MarketStageEnds(r) == StageReturns(r, MarketStages) /\ UNCHANGED failures
RaiseHere(r) == Unwind(r) /\ UNCHANGED <<at, step, row, failures, metrics, faults, ended>>

\* The requests of a run that brought usable quotes, and the number of these.
Quoted(r) == {k \in DOMAIN stamps : stamps[k].by = r /\ stamps[k].quotes > 0}
Total(r) == LET upTo[k \in 0..Len(stamps)] ==
                  IF k = 0 THEN 0 ELSE upTo[k - 1] + IF k \in Quoted(r) THEN stamps[k].quotes ELSE 0
            IN  upTo[Len(stamps)]

\* The database answers, its tables are there; the last three stages only set a flag.
PassThrough(r) ==
    /\ \E name \in {"Database", "Ranking Engine", "Risk Engine", "Signal Engine"} : InStage(r, name)
    /\ MarketStageEnds(r)
    /\ UNCHANGED <<row, ended>> /\ UNCHANGED marketVars

\* One request: its quotes carry the clock reading taken when they are parsed.
FetchBatch(r) ==
    /\ InStage(r, "Collector") /\ step[r] <= RequestBatches
    /\ \E n \in BatchQuotes : stamps' = Append(stamps, [by |-> r, quotes |-> n])
    /\ Step(r)
    /\ UNCHANGED <<row, ended, saved, inserted, batch, snapshots, features>>

\* All quotes of the run in one transaction, each with the stamp of its request.
SaveQuotes(r) ==
    /\ AtStep(r, "Collector", RequestBatches + 1)
    /\ Quoted(r) # {}
    /\ saved' = saved \union Quoted(r)
    /\ inserted' = [inserted EXCEPT ![r] = Total(r)]
    /\ MarketStageEnds(r)
    /\ UNCHANGED <<row, ended, stamps, batch, snapshots, features>>

NothingCollected(r) ==
    /\ AtStep(r, "Collector", RequestBatches + 1)
    /\ Quoted(r) = {}
    /\ RaiseHere(r) /\ UNCHANGED marketVars

\* Mutant: the smallest timestamp.
OldestBatch(tables) == CHOOSE k \in tables : \A l \in tables : l >= k

\* The rows with the largest timestamp of the table, whoever collected them. The
\* two SELECTs are one step: a batch that is visible does not change any more.
LatestBatch(tables) == CHOOSE k \in tables : \A l \in tables : l <= k

\* Mutant: the number of snapshots is not compared with the quotes inserted.
ReadLatestBatchUnchecked(r) ==
    /\ AtStep(r, "Snapshot Engine", 1)
    /\ batch' = [batch EXCEPT ![r] = LatestBatch(saved)]
    /\ Step(r)
    /\ UNCHANGED <<row, ended, stamps, saved, inserted, snapshots, features>>

ReadLatestBatch(r) ==
    /\ AtStep(r, "Snapshot Engine", 1)
    /\ stamps[LatestBatch(saved)].quotes = inserted[r]
    /\ batch' = [batch EXCEPT ![r] = LatestBatch(saved)]
    /\ Step(r)
    /\ UNCHANGED <<row, ended, stamps, saved, inserted, snapshots, features>>

BatchDisagrees(r) ==
    /\ AtStep(r, "Snapshot Engine", 1)
    /\ stamps[LatestBatch(saved)].quotes # inserted[r]
    /\ RaiseHere(r) /\ UNCHANGED marketVars

\* SnapshotRepository.start_run: an upsert that leaves completed_at alone.
StartSnapshots(r) ==
    /\ AtStep(r, "Snapshot Engine", 2)
    /\ WriteStatus(r, "RUNNING", FALSE)
    /\ Step(r) /\ UNCHANGED marketVars

InsertSnapshots(r) ==
    /\ AtStep(r, "Snapshot Engine", 3)
    /\ snapshots' = [snapshots EXCEPT ![r] = batch[r]]
    /\ Step(r)
    /\ UNCHANGED <<row, ended, stamps, saved, inserted, batch, features>>

\* The stored count is checked before the run is marked.
SnapshotsPersisted(r) == snapshots[r] = batch[r]

CompleteSnapshots(r) ==
    /\ AtStep(r, "Snapshot Engine", 4)
    /\ SnapshotsPersisted(r)
    /\ WriteStatus(r, "SNAPSHOT_COMPLETE", TRUE)
    /\ MarketStageEnds(r) /\ UNCHANGED marketVars

\* The snapshots of the run itself; what earlier runs saw of a symbol is data here.
FeatureInputs(r) == snapshots[r]

\* One row per snapshot of the run, in one transaction.
UpsertFeatures(r) == features' = [features EXCEPT ![r] = FeatureInputs(r)]

InsertFeatures(r) ==
    /\ AtStep(r, "Feature Engine", 1)
    /\ FeatureInputs(r) # NoBatch
    /\ UpsertFeatures(r) /\ Step(r)
    /\ UNCHANGED <<row, ended, stamps, saved, inserted, batch, snapshots>>

FeaturesPersisted(r) == features[r] = snapshots[r]

CompleteFeatures(r) ==
    /\ AtStep(r, "Feature Engine", 2)
    /\ FeaturesPersisted(r)
    /\ WriteStatus(r, "FEATURE_COMPLETE", TRUE)
    /\ MarketStageEnds(r) /\ UNCHANGED marketVars

\* A broker request or a statement fails. A status write may be committed all the same.
MarketCallFails(r) ==
    /\ CallFails(r)
    /\ \/ UNCHANGED <<row, ended>>
       \/ AtStep(r, "Snapshot Engine", 4) /\ WriteStatus(r, "SNAPSHOT_COMPLETE", TRUE)
       \/ AtStep(r, "Feature Engine", 2) /\ WriteStatus(r, "FEATURE_COMPLETE", TRUE)
    /\ UNCHANGED <<at, step, failures, metrics>> /\ UNCHANGED marketVars

MarketStep(r) ==
    \/ PassThrough(r) \/ FetchBatch(r) \/ SaveQuotes(r) \/ NothingCollected(r)
    \/ ReadLatestBatch(r) \/ BatchDisagrees(r) \/ StartSnapshots(r) \/ InsertSnapshots(r)
    \/ CompleteSnapshots(r) \/ InsertFeatures(r) \/ CompleteFeatures(r) \/ MarketCallFails(r)
    \/ /\ \/ StartPipeline(r) \/ StartRaises(r) \/ StageRaises(r, MarketStages)
          \/ RecordFailure(r, MarketStages, NoSymbol) \/ FailRun(r) \/ CompleteRun(r) \/ CrashRun(r)
       /\ UNCHANGED marketVars

-------------------------------------------------------------------------------
MarketTypeOK ==
    /\ stamps \in Seq([by : Market, quotes : Nat])
    /\ saved \subseteq DOMAIN stamps
    /\ inserted \in [Market -> Nat]
    /\ batch \in [Market -> Nat]
    /\ snapshots \in [Market -> Nat]
    /\ features \in [Market -> Nat]

\* A COMPLETED production run has one snapshot per quote it inserted, and features
\* of exactly those snapshots, although it shares the quote table with other runs.
CompletedRunIsWhole ==
    \A r \in Market : row[r].status = "COMPLETED" =>
        /\ snapshots[r] \in saved
        /\ stamps[snapshots[r]].quotes = inserted[r]
        /\ features[r] = snapshots[r]

\* The latest batch may be another run's, but never one older than what the run
\* itself collected: features are not computed from stale quotes.
NoStaleSnapshot ==
    \A r \in Market : snapshots[r] # NoBatch =>
        \A k \in saved : stamps[k].by = r => k <= snapshots[r]
=================================================================================
