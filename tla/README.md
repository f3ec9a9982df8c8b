# TLA+ verification of dhan_trading

This directory holds TLA+ modules that model the parts of the platform whose
correctness depends on the order in which several actors do things, TLC
configurations that check them on small instances, and proofs that TLAPS checks
for every value of the constants. Every definition is translated from the code,
not from its documentation; `PROJECT.json` gives, for every definition, the
lines it stands for.

Contents: [the system](#the-system), [the plan](#the-plan),
[the models](#the-models), [the runs](#the-runs), [the proofs](#the-proofs),
[findings](#findings), [what is not modelled](#what-is-not-modelled).

## The system

The platform is a set of Python command-line programs around one PostgreSQL
database, with a read-only API, a dashboard and a React frontend. There is no
server process with threads of its own (the one thread of the services is the
scheduler's heartbeat). Concurrency comes from several programs, or several
instances of one, that meet in the database. A repository method opens one
connection, executes its statements and commits; leaving the `with` block by an
exception rolls back. The isolation level is READ COMMITTED. A step of a model
is one transaction. Where a program reads in one, decides, and writes in another,
the models differ:

- In the lock, the queue, paper trading, the operational modules, the outcomes,
  opportunities and event links of the first generation, and the decisions of the
  governance, the read is a step of its own, what it found is state (`checkedAt`,
  `batch`, `job`, `todo`, `work`, `linking`, `deciding`, ...), and
  others commit before the write. A read of rows that only the program itself
  writes is part of the step that uses them.
- A run of a stage in `OptionLineage`, `PointInTime`, `Calibration` and
  `LiveValidation`, a vector or a similarity run of `EvidenceStore`, and a
  registration, evaluation or proposal of `ModelGovernance` are one step with all
  they read. What they read is, as far as the models follow it, inserted and,
  apart from rows of analytics and changes, never changed, so that an earlier read
  sees less of the same. What two overlapping runs of one such program could leave
  beyond what they leave one after the other is not modelled.

| Component | State | Operations | What is hard about it | Modules |
|---|---|---|---|---|
| Scheduler run lock (`services/scheduler*.py`) | one row of `scheduler_locks`; per call an owner token and a heartbeat thread | `run_once`, heartbeat, acquire, release | expiry against the wall clock, late heartbeats, join timeout, crashes | `SchedulerLock`, `TimelyScheduler` |
| Continuous collection queue (`services/continuous_collection_*.py`) | work items, attempts, gaps, repair jobs | schedule, claim, import, finish, gap detection, repair scheduling | claims that outlive their lease, exceptions between import and finish, retries, two transactions for one repair | `CollectionQueue`, `PromptQueue`, `ReplayQueue`, `CollectionGaps`, `RetryPolicy` |
| Paper trading (`services/paper_trading_*.py`) | orders, fills, positions, events | open, mark, close | read, decide and write in separate transactions | `PaperTrading` |
| Pipelines (`services/pipeline.py`, `production_pipeline.py`, `option_data_pipeline.py`) | run rows, stage metrics, failures; quotes, snapshots, features; chains, analytics | start, stages, finish | errors while errors are recorded, partial success, shared tables without a lock | `PipelineRun`, `MarketPipeline`, `OptionPipeline` |
| Alerts (`services/alert_*.py`) | alert events, delivery attempts | candidates, ensure, start, deliver, finish | delivery is not transactional with its record | `AlertDelivery` |
| Instruments and contracts (`scripts/import_*.py`, `services/derivative_*.py`) | universe, contracts, import runs | refresh, import | several commits per import, overlapping imports | `DerivativeImport` |
| Migration runner | `schema_migrations` | run | stale list of what is applied | `SchemaMigrations` |
| Option research chain (analytics, changes, ranking, selection, risk, signals, backtest, replay) | one table per stage, rows that cite rows | each stage as of a time | stages rerun in any order over rows others cite | `OptionLineage`, `OptionEngines` |
| First-generation evidence (features, outcomes, similarity, opportunities) and news | vectors, outcomes, runs with matches, opportunities, event links | materialize, link, import | reruns over what was cited; hindsight | `EvidenceStore`, `EventContext` |
| Historical data foundation and second-generation evidence | payloads as revisions of records; immutable evidence | import, materialize as of a time | late, contradicting and repeated payloads; reruns of immutable rows | `HistoricalData`, `PointInTime` |
| Calibration, recommendation policy, live validation | calibration runs, evaluations, snapshots, outcomes, drift, suspensions | materialize, evaluate, snapshot, record | leakage between periods, late bars | `Calibration`, `LiveValidation` |
| Research governance | experiments, reports, proposals, approvals, decisions, assignments | register, evaluate, propose, approve, decide | decisions race with approvals, `ON CONFLICT DO NOTHING` | `ModelGovernance` |
| Look-ups (calendar, expiries, provider symbols) | none | functions | boundaries, zones, validity periods | `ReferenceData` |
| Backfill queue, read API, dashboard, copilot, frontend, V1 scanners | | | | none, see [below](#what-is-not-modelled) |

How they interact. `scripts/scheduler.py` wraps the production pipeline in the
run lock, `scripts/run_pipeline.py` runs it without one. The collection queue
hands payload bytes to the historical data foundation in a transaction of its
own and then records the attempt. Gap repairs schedule work into the queue. Each
research stage reads the rows of the one before and writes rows that cite them.
Recommendation policy and governance ask the release readiness check for a
verdict; what that check audits of the stored rows is stated here as invariants
of the modules whose tables it reads. Alerts read signals, risk decisions and
failures that other programs wrote.

What makes each correct, in short: the lock gives exclusion and never blocks for
ever; the queue gives every item its attempts and keeps its tables consistent; a
paper position is opened and closed once and its P&L is that of its fills; a run
reported COMPLETED is whole and stays so; nothing is sent without a record of
it; every row of research cites rows that were known at its time and still say
what they said; a model is promoted only by those who may.

## The plan

Done: the run lock, the queue and paper trading with their proofs; the
operational programs (`Operations` and the modules it composes) and the research
side (`Research` and its modules), with proofs of every invariant the passing
runs check.

Left, in the order of what it would add: an abstract ledger that the queue
implements; `compute_metrics` of the live validation and the market memory of the
similarity engines. The backfill queue is worth a module as
soon as it has a worker.

## The models

### SchedulerLock

One member of `Run` is one call of `PipelineScheduler.run_once`, with its own
token. `lockOwner` and `lockExpires` are the row (`acquired_at` and
`heartbeat_at` are written and never read by a writer). `phase` is where the
call stands:

```
idle --CheckCalendar--> checked --Acquire--> running --PipelineEnds--> stopping --Release--> done
     \-> skipped               \-> skipped (AcquireRefused)                  \-ReleaseRaises-> done
                               \-> failed  (AcquireRaises)
```

`checkedAt` is the clock reading `market_status.checked_at` that the call later
passes to acquire: it may be old by then. `beat`, `beatTime` and `misses` are
the heartbeat thread. `BeatDue` reads the clock, and the transaction with that
reading comes as `BeatRenews`, `BeatFindsLoss` or `BeatRaises` at any later
time, also after the join timed out, after the release, and after someone else's
acquire. A repository call that raises may have reached its commit or not.
`Crash` ends the process with its daemon thread. `lease` is a history variable:
the expiry that the call last committed. Writing it as 0 for "none" is safe, as
a committed expiry is at least `Ttl`.

The join is modelled by what it allows: it returns because the thread ended or
because its timeout passed, and as the thread may hang in the database, it may
return at any moment (`JoinIsOver`).

### TimelyScheduler

The same actions with a clock that does not pass the moment by which a step is
due: acquire at most `Lag` after the calendar check, a heartbeat's wake-up at
most `Lag` after its wait ends, and its UPDATE at most `Lag` after its clock
reading. `TimingAssumption` says what TTL these need:
`Lag + (MaxMisses + 1) * (HeartbeatInterval + 2 * Lag) < Ttl`. With the default
TTL of 1800 seconds and its interval of 60 seconds there is room, for instance,
for ten failed heartbeats in a row at a lag of 45 seconds. With a TTL of 1 the
interval is not below it and no lag satisfies the assumption.

### CollectionQueue

A member of `Work` is a row of `continuous_collection_work_items` (its
`status`, `attempts`, `due`, `claimedAt`); `outcome` is the table of attempts,
by claim, where a claim is the pair of an item and an attempt number (the
`UNIQUE(work_id, attempt_number)` of the table, and the UUIDv5 of the attempt).
A member of `Worker` is a process that calls `execute_pending` again and again.
It reads the clock (`ReadClock`), claims (`ClaimPending`: return stale claims to
RETRYING, select ready work in order up to `Limit`, mark it RUNNING and count
the attempt, in one transaction) and then deals with its `batch` one claim at a
time:

| `step` | what happened | what may follow |
|---|---|---|
| between | nothing yet for this claim | `ImportPayload`, `ImportRaises`, `FinishUnsuccessful` (no provider, unavailable, quota, any error) |
| imported | V3.1 committed the payload | `FinishImported`, `FinishImportedRaises` |
| finished | the success is recorded | `RecordQuota` (or none to record), `RecordQuotaRaises` |
| raised | `except Exception` runs | `FinishUnsuccessful`, or `FinishTwice` when the row exists already: the INSERT raises out of `execute_pending` and the rest of the batch stays RUNNING |

`FinishAttempt` is the transaction of `finish_attempt`: an INSERT that fails
when the row exists, and an UPDATE of the item by its id alone, whatever its
status. `Crash` stands for the death of the process and for every exception that
leaves `execute_pending`.

Choices. Two claim transactions serialise on the rows they update, and a row
locked by another is skipped by the SELECT; the model's claims are atomic, so
the ready set is the one of a transaction that met no lock (a skipped row is
taken by the next claim). The rows of `UPDATE .. RETURNING` have no order, so
the batch is a set. `claimed_by` and the quota table are written and read by
nothing that writes, so they are left out. A crashed worker is idle again: it
stands for the next process. `imported` stands for V3.1: the call commits a
payload or raises. The delays of the retry policy are the constant function
`Backoff`; the MC modules take it from `RetryPolicy`, the translation of
`RetryPolicy.delay`.

### PromptQueue

The queue under the operating condition that no call of `execute_pending` is
still busy when its claims become stale (900 seconds for the whole batch). The
code does not enforce it; the module says what the queue is worth when it holds.

### PaperTrading

A member of `Client` makes one call of `scripts/paper_trade.py` after another;
its `job` is what the call holds in memory: what it was asked, the row it `seen`
and the `quote` it found. The row of `paper_positions` belongs to its signal
(`signal_id` is UNIQUE there), and so do the orders, each with its fill, and the
events in the order of their sequence numbers.

| Call | reads the row | reads the mark | transaction |
|---|---|---|---|
| open | `OpenPosition` | `LatestMark`, none is allowed | `PersistOpen`, or `RejectOpen` for an order without a price |
| mark | `MarkPosition` | `LatestMark`, none raises | `PersistMark` |
| close | `ClosePosition` | `LatestMark`, none raises | `PersistClose` |

Each cell is a transaction of its own, so a call decides on a row that others
may have changed since. What protects the tables is in the last column: the two
partial unique indexes (`EntryIsNew`, `ExitIsAllowed`) and `WHERE .. AND
status='OPEN'` (`RowIsOpen`); a transaction they refuse rolls back. Two
transactions on one row serialise on its lock or on the index entry, so each is
one action. `Abandon` is an interrupted call or a failed connection.

Prices, slippage and costs are computed as in the code, with its two roundings,
in integer units (`FillPrice`, `TransactionCost`, `Gross`, `Money`); sums of
money need no second rounding. A slippage of 10000 bps or more makes an exit
worthless, which the CHECK on `fill_price` refuses. There is no clock: `--as-of`
is whatever the operator says, and `Publish` lets runs complete in any order.

At the opening the code writes a gross P&L of zero although the fill price
already contains the slippage, so the gross of an open position follows the
formula of `mark_position` only after its first mark. No document says
otherwise, and no property is about it.

### ReplayQueue

`CollectionQueue` with a provider that answers every attempt on an item with the
same bytes, as the local fixture provider does, and with the unique constraints
of the manifests of V3.1. It exists for the finding `replay_queue`.

### Operations: PipelineRun, MarketPipeline, OptionPipeline, AlertDelivery, DerivativeImport, CollectionGaps, SchemaMigrations

`Operations` composes the programs that fill and watch the operational tables.
Apart from the pipelines, which share `pipeline_runs`, they share no table, so
that their interleavings carry nothing: a behaviour chooses one `group` at the
start and the others rest. What does interleave is inside the groups: two
production runs on one quote table, two notifiers, two importers and a
refresher, a checker and two repairers, two migration runners.

- `PipelineRun` is `Pipeline.start`: the row, one stage after another, the
  failure record, `fail_run`, `complete_run`. Any repository call may raise
  before its commit or after it (`WriteRaises`), and a process may die between
  two calls. `MarketPipeline` gives the stages of the production pipeline as its
  repository calls: quotes in batches stamped when they are requested, the
  snapshot of the latest batch whoever collected it, features of the snapshot.
  The stages Ranking, Risk and Signal Engine are empty in the code and pass
  through. `OptionPipeline` gives the retries per symbol, the chain rows of each
  attempt, the analysis, which may commit and then raise (`AnalysisRaises`), and
  the failure rows of the symbols that are passed over.
- `AlertDelivery`: candidates are the newest `Limit` sources; per candidate and
  channel a notifier looks for a DELIVERED attempt, inserts a PENDING one with
  the next number, delivers, and records the outcome; the partial unique index on
  DELIVERED refuses a second one. `sent` counts what the channel really got.
- `DerivativeImport`: the import of a security master in its transactions
  (failed rows, upsert, deactivation of what is missing, verdict), and the
  refresh of the universe, which deletes in one and inserts in another. A master
  row is a record with what the upsert tells apart; `Alias` is
  `symbol_aliases`. `since` is a history variable.
- `CollectionGaps`: detection inserts missing intervals one by one, repair
  scheduling creates the job with the gap's status in one transaction and the
  work item in another. `lost` is the history of calls that died between them.
- `SchemaMigrations`: files, rows, what was executed. A run discovers the files,
  loads the rows once and works through the files in order; edits and additions
  of files come at any time. `late` and `raced` are histories of such edits.

### Research: OptionEngines, ReferenceData, OptionLineage, EvidenceStore, EventContext, HistoricalData, PointInTime, Calibration, LiveValidation, ModelGovernance

`Research` composes the research side in the same way: none of its groups writes
a table another one reads while it works, except where a group says so
(`points` runs imports and the evidence over them; `recommendations` and
`validation` continue each other). The first generation of evidence with its news
is one system, followed under six names so that an instance can bound each side of
it in turn (see the bounds).

- `OptionEngines` and `ReferenceData` are the calculations as functions of their
  inputs: analytics of a chain, ranking with its percentiles and ties, contract
  selection with its gates, sizing against running budgets, the simulation of a
  trade and its drawdown, calibration bins whose rates never fall, the calendar,
  expiry selection and the overlap test of provider symbols. A behaviour is one
  input and its answer, compared with an independent definition of the result
  (`...Agree`), for inputs as the tables hold them (`ValidProblem`). Loops over
  rows are recursive functions of the number of rows read. Decimals are integers with the code's rounding.
- `OptionLineage` is the chain of rows from collections to signals, backtests
  and replays: which rows a stage reads as of which time, what it copies, and
  what a rerun of analytics or of a stage does to rows that others cite.
- `EvidenceStore`: feature vectors with the ranking that a rerun replaces,
  outcomes that are recalculated as later observations arrive, similarity runs
  with their matches, opportunities with their evidence. Each `Program` is a
  materializer that works next to others. An outcome is worked out in
  `ReadFutures` and written in `UpsertOutcome`, which keeps the ranking of the row
  (`Replaced`); opportunities are a read of the runs (`ReadRuns`), of each run's
  matches (`AssessRun`) and one transaction (`PersistOpportunities`), which
  another run's rows or a match that is gone refuse. `lateOutcomes` and
  `lateOpportunities` are histories of writes that were overtaken: the code does
  not prevent them, and the properties except exactly these. A vector stands for
  its analytics row; of values a row keeps only whether it has them. The
  observations of an instance have distinct times (`CapturesDiffer`): for
  simultaneous ones the audits of the code compare strictly what its engines
  compare by identity.
- `EventContext`: news events that imports insert and replace, and the two passes
  of the linker by their transactions: events, evidence, replaced links, and for
  `link_historical` the similarity runs and their links. `stale` and `outdated`
  say that the links in a table were last written by a pass that an import or
  another pass had overtaken, or that died half way.

  | `step` of a pass | `link_historical` | `link_opportunities` |
  |---|---|---|
  | events read | `ReadEvents` | `ReadEvents` |
  | evidence read | `ReadVectors` | `ReadOpportunities` |
  | links replaced | `ReplaceVectorLinks` | `ReplaceOpportunityLinks` |
  | runs read | `ReadSimilarityRuns` | |
  | links replaced | `ReplaceRunLinks` | |

- `HistoricalData` and `PointInTime`: a payload is normalized and stored in one
  transaction; a record's checksum covers the time it became available. Evidence
  is inserted with `ON CONFLICT DO NOTHING` and read as of a time. Left out of the
  audits is what a rerun breaks: the number of path rows and of matches, and the
  availability of the path rows that a later run adds (see `outcome_rerun`); the
  rows up to the outcome's own count are held to it. The label of a match is held
  to what the code asks, that its path ended by the observation. Bars of one
  interval close at different times (`BarsCloseApart`), which an import does not
  check.
- `Calibration` and `LiveValidation`: periods with embargo and purge, the
  calibration run and the gates of an evaluation in order, where the run and the
  policy are any that the caller names; the snapshot, bars
  that arrive late or corrected, fills, outcomes as of several times, drift.
  Statistics (Brier score, intervals, drift measures) are choices. The group
  `validation` starts from one stored evaluation, any that calibration steps
  reach; the group `recommendations` covers those steps.
- `ModelGovernance`: registration, evaluation, proposal, approval, and decide as
  the code does it, a read of approvals and a later transaction.

## The runs

| Run | Question | Result |
|---|---|---|
| `scheduler_lock` | What does the lock row guarantee under any timing, and does a hung heartbeat thread block anything? | `LeaseExclusion`, `OwnershipIsNeverRegained`, `NoEarlyTakeover`: two pipelines overlap only when one of them outlived its lease, a late heartbeat never brings a lock back, nobody takes a live row. `RunOnceReturns`, `AbandonedLockExpires`: nothing is blocked for ever. |
| `scheduler_overlap` | Does the lock prevent overlap, as the docs say? | Not by itself: see the findings. |
| `timely_scheduler` | When does it? | With `TimingAssumption`: `NoOverlap`. |
| `queue_safety` | What do attempts and counters guarantee when claims outlive their lease? | `AttemptsAreUnique`, `SuccessIsImported`, `RetriesAreBounded`, `NoEarlyReclaim`. |
| `queue_liveness` | Is abandoned work recovered, and does every item get its turn? | Yes, with one worker that is called again and again. |
| `queue_overlap` | Do atomic claims prevent overlap, as the docs say? | Not after a lease has run out: see the findings. |
| `prompt_queue` | And when no worker outlives its lease? | `ClaimsExclusive`, `ItemAgreesWithAttempts`, `SettledForGood`. |
| `paper_trading` | What survives when opens, marks and closes of a signal race? | `OneEntryOnePosition`, `LedgerBalances`, `EventsTellThePosition`, `NoHindsight`, `ClosedForGood`. A mark of an open position may repeat or precede the last one, but only in a race: `OnlyRacesMarkBack`. |
| `operations` | What may run records, symbols, deliveries, contracts, repairs and migrations be relied on for? | A run that is over is dated and keeps its verdict, and a chain that is over is closed; a COMPLETED production run has its own or newer quotes, whole; every symbol of a COMPLETED option run was analysed or has a failure row, and both only after a call that raised behind its commit; nothing is sent off the record, and a source that stays in the window is told; contracts follow the last import; a scheduled repair has its job, and its work unless a call died in between; migrations apply once, in order. |
| `research` | Are the calculations right, and do rows that cite rows stay true? | The engines agree with their definitions and sizing stays within its budgets. Lineage and leakage are as the release audits demand, in any order of runs, imports and reruns, with the exceptions that the properties name and the [findings](#findings) list: there the code leaves rows that the audits report. Promotions have every role's approval. |
| `outcome_rerun` | Does an outcome keep its path when it is materialized again? | No: see the findings. |
| `replay_queue` | Is a payload that comes again after a crash deduplicated? | No: see the findings. |

Bounds of the lock, queue and paper runs. `Horizon` ends the clock, `MaxMisses`, `MaxFaults` and `MaxClaims` bound
the faults and the attempts; each appears only in guards. Three calls of
`run_once` are an owner, its successor and a third that meets a late step of
either; a TTL of 2 over 5 ticks lets a lease be taken, renewed, lost and taken
again. `Ttl = 5`, `Lag = 1` is the smallest instance of `TimingAssumption` with
a lag. Two workers, two items and batches of two give a stale claim beside a
fresh one on the same item and on the other; `MaxClaims = 4` is two attempts
more than `MaxAttempts = 2`, so that the limit is reached and passed. `Stale = 1`
with three ticks lets a claim become stale twice; `prompt_queue` and
`queue_overlap` run to 5. One fault is enough to abandon a batch at any point of
it; `queue_liveness` has two. With `MaxClaims` reached the model's claims stop
while the code's would go on; the liveness run has few enough faults that this
bound is not what ends a behaviour. In `paper_trading` two calls race on one signal
(signals share nothing), over four moments: one before the signal's data, its
entry, a mark and an exit, the last after the expiry. Two prices give a gain and
a loss, the quantity 3 over a scale of 4 is always rounded, `MaxEvents` allows
two marks and a close. Symmetry is used in the safety runs of the lock, the queue and paper trading
only, over the calls and over the workers, which no definition tells apart.

Bounds of `operations` (563,725 states). Two production runs over two request
batches of nothing or one quote each, two symbols with two attempts, one call
that raises or a crash (`MaxFaults`, `MaxAborts`, `MaxInterruptions`,
`MaxLosses`), which is enough to strike at every point of every call. Two sources
and a window of one let a source be driven out of the window and return to it.
Three masters give an option that expires, a repeated and a spoiled row, a symbol
that changes hands and an old name of the underlying; two importers follow or
overlap each other. Three versions, two contents and one edit let a file be
added below, above or between, or changed under a run.

Bounds of `research` (728,249 states). The inputs of the engines are enumerated
in `MCResearch`: two to three strikes, contracts, candidates or bins with values
at, below and above each threshold. The option chain has two collections over
three times, so that a rerun comes before and after a ranking. Three
observations lie before, before and on the expiry, of which the second is ranked
anew; news comes before or after them and may lack either time. Three payloads over three bars give a late
import, one of another source that contradicts a stored bar, and a correction.
Four candidates give two in the calibration period, one that leaves it and one
of the test period. Two bars and two times of calculation let an outcome be found
before and after a late bar. One experiment with two roles, two approvers and
three verdicts gives a rejection after an approval.

The evidence and its news have too many states to be followed at once, so that
`MCSpec` is `Init /\ [][Next /\ Within']_researchVars`: `Within` bounds what a
behaviour has next to each other, by its `group`, and every group leaves free what
the others bound. `evidence` has several queries with one program at a time,
`overlap` two programs and one query, `rankings` vectors that are ranked anew,
`events` one pass of the linker with outcomes, imports and materializers, `passes`
two passes next to each other and an import, `prospects` the opportunities and
their links. `lineage` follows one side of each selected contract, `points` the
matches of one query, and `recommendations` calibration runs that pass the same
gates. Each exception of `EvidenceHolds` and `EventContextSound` is needed in this
instance: without `lateOutcomes`, `lateOpportunities`, the clause of a vector that
was ranked anew, `stale`, `outdated` or any guard that sets them TLC finds a
violation.

Deadlock. `SchedulerLock` has an explicit `Quiescent` step for the end of the
bounded clock with all calls over, so every other stop would be reported. In
`CollectionQueue` workers are called again for ever, so there is no legitimate
stop either. The other runs turn deadlock checking off, as their programs end:
a position is closed and every price is quoted, runs are over, a calculation has
its answer, all payloads are imported.

Fairness. In `SchedulerLock`, time passes, a called acquire or release returns
or raises, and a pipeline ends (its stages have request timeouts). Nothing is
assumed of the heartbeat thread, of crashes, or that `run_once` is called at
all. In `CollectionQueue`, time passes, `execute_pending` is called again and
again, and its calls return or raise. Nobody is obliged to crash or to schedule.
In `Operations`, a notifier is called again and again and goes on unless it
crashes (`WF` of `Notifies(n)`): `ToldWhileInWindow` asks for no more, and the
number of failed deliveries is bounded by `MaxAborts`, as a channel that always
fails is never told.

Every property of a passing run has a mutant in `PROJECT.json`: an operator of
the modules (`WriteRowBackdated`, `StaleNever`, ...) that changes one definition
the way a plausible bug would, and with which TLC finds the property violated.
The specifications never use these operators.

## The proofs

All are in the `*_proofs` modules and hold for every value of the constants that
satisfies the named assumptions, which TLC evaluates in the runs. Of the programs
they ask that there are finitely many callers (`RunsAreFinite`,
`NotifiersAreFinite`), that numbers are numbers and lists are lists
(`AttemptsArePositive`, `MinimumIsNatural`, `TimesAreIntegers`,
`InstantsAreIntegers`, `CandidatesAreTyped`, `PayloadsAreTyped`,
`MastersAreSequences`), that identities differ (`SymbolsDiffer`,
`PipelinesDiffer`) and that a missing row is none
(`NullAssumption`, `SchemaAssumption`, `AbsentIsNoRow`, `AbsentIsNoEvent`,
`NoRowIsNoRow`), that an event record has one of its times (`RecordsAreDated`, which
the importer checks), that no two chains of a contract are captured at the same
instant (`CapturesDiffer`) and no two bars close at the same one
(`BarsCloseApart`), which the schema would allow, that
policies and inputs of engines are those the constructors accept and the tables
hold (`PolicyIsValid`, `ProblemsAreValid`) and that every flaw has a gate (`FlawsAreGates`); the rest
(`ConstantsAssumption`, `TimingAssumption`, `QueueAssumption`,
`PaperAssumption`) is explained with the module that states it.

- `SchedulerLock_proofs`: `TypeCorrect`; then `LeaseExclusionHolds`,
  `OwnershipNeverRegained` and `TakeoverOnlyAfterExpiry` from one inductive
  invariant `LeaseInv`: the row records the expiry its owner last committed, a
  call read the calendar in the past, a call that has not acquired never wrote a
  lease, only a call that did has a heartbeat thread, and a call inside its
  pipeline owns the row or has outlived its lease. `LeaseExclusion` alone is not
  inductive: it says nothing about the row, nor about readings still on their
  way to the database.
- `TimelyScheduler_proofs`: `TimelyIsScheduler` (the timely behaviours are
  behaviours of SchedulerLock, so its invariants carry over) and
  `TimelyPreventsOverlap`. The invariant `TimelyInv` states for each running
  call how far its next commit may be from its last one; `TimingAssumption`
  keeps that below the TTL, so the row of a running call is never expired.
- `CollectionQueue_proofs`: `TypeCorrect`; `AttemptsStayUnique` (the property is
  inductive: a claim takes a number above all those handed out);
  `SuccessHasPayload`, with the strengthening that a worker about to record a
  success imported that claim's payload; `ReclaimOnlyWhenStale`, from "no
  reading is of the future"; `RetriesStayBounded`, by an account: each claim
  after the first spends the credit of a row that says RETRYING or of one stale
  claim, and such rows have distinct attempt numbers below `MaxAttempts`.
  Of `PromptQueue`, in the same module: `PromptIsQueue`, `ClaimsStayExclusive`,
  `ItemsAgree` and `SettledStaysSettled` from `PromptInv`: a held claim is the last of its item,
  which runs under the holder's reading until its row is written and is settled
  afterwards. The promptness enters once, in `HeldIsNotReady`.
- `PaperTrading_proofs`: `TypeCorrect`, `OneEntryHolds`, `LedgerHolds`,
  `ClosedStaysClosed` and `MarksGoBackInRacesOnly` from one inductive invariant
  `PaperInv`. Its part `Books` gives for each signal the set of its filled
  orders by the state of its row. Its part `Snapshots` says what of an old read
  is still true when it is used: the entry price, the costs while the row is
  open, and that a quote for a mark is newer than the row it was looked up for.
  Without it `LedgerBalances` is not inductive, as a close adds its cost to costs
  it read earlier.
  `EventsTellTheRow` and `NothingInHindsight` add the history. `TableSteps` says
  once what a step can do to the tables of a signal (a rejected order, or a row
  with its event and, but for a mark, its order); `AppendTells` that this
  continues a history that tells the row. `Timely` is the invariant behind
  `NoHindsight`: the entry time a call read is still that of the row, and the
  quote it holds lies between the capture and its as-of moment, after the mark or
  entry it read.
- `Operations_proofs`, of the specification `Operations`, for any runs, symbols,
  batches and intervals: `AuditsPass`, `VerdictsStand`, `SnapshotsAreFresh`,
  `AnalysedChainsStand` and `EverySymbolAccounted`, from the conjunction
  `OperationsInv` of five invariants.
  `RunInv` fits the row of a run to where the run stands: a verdict is dated and
  found only when the run is over, and no row is dated before the third stage.
  The step of any pipeline `Moves` one run from a row that fits to one that fits;
  the steps of `PipelineRun` are dealt with once, in `CommonMoves`.
  `SnapInv` says of what a run has read that no batch of its own is later, and
  that it has none left to save. That the table has a last batch at all is part
  of it (`HasLast`), as the induction over its rows is one over the steps.
  `ChainInv` has no chain analysed before the second stage of its run, and no
  attempt at a symbol that is yet to come, without which the attempt number of a
  new chain could pass `MaxAttempts`. It needs `SymbolsDiffer`.
  `AccountInv` states the loop invariant of the two stages: settled up to the
  current symbol, untouched from it on, but for an analysis that was stored by a
  call which raised, and calls that raised stay counted (`FaultsStay`).
  `ChainsHold` has that a chain is written as a whole, with its date and error.
  `GapInv` is `RepairsAreBacked` with `OneAtATime`: a repairer is between the two
  transactions of at most one repair, one it created, so that a call that dies
  loses the work of that one only.
  `CompletedRunsAreWhole`: `WholeInv` says of each stage what is in the tables
  once the run is past it, and `QuotesStay` that nobody changes what was saved;
  the counts need no sum, as each is compared with the step that wrote it.
  `DeliveriesStayOnRecord`: what was sent and what is about to be sent are
  together at most the rows of the alert. `DeliveriesAreOnRecord` alone would
  not survive the next delivery.
  `ContractsStayWithImports`: for an import that wrote its contracts,
  `ImportFollowed` says what may be missing of them and which later import is
  the reason. A deactivation is whole only when no other wrote in between.
  `MigrationsStayApplied`: `SchemaInv` adds to the property what a run under way
  still knows (`Knows`): it found every file unless one was added since, and
  every version it is through has a row.
- `Research_proofs`, of the specification `Research`, for any chains, payloads,
  observations, candidates, bars and approvers. No store is written by another
  one's steps, so each has its invariant.
  `LineagesPassAudits` and `SignalsReplayInOrder` rest on `LineageInv`: a row is
  dated between what it rests on and now, and copies of times agree with their
  sources; the replay order fails only for a chain calculated again, so the
  invariant carries when that was.
  `EvidenceIsSound`: `EvidenceInv` speaks of rows and of what each program has
  read and is about to write. An outcome, stored or planned, ends at one of the
  vectors to come and is complete once the expiry date has been seen
  (`OutcomeSound`, by `ExpiryDecides`); an assessment is right by the matches it
  was made of unless these were replaced since (`PlansSound`). That what is cited
  stays complete needs the plans: a program that is not late and knows no expiry
  date for a vector has seen the stored outcome, and nobody cites it (`Timely`).
  `LinksAreSound`: of a pass that nothing has overtaken, what it read is as it was,
  what it is about to write is right, and what it has written is there
  (`PassSound`); `PassesKeep` has this for every step of every pass. An import
  overtakes all passes, and a pass that replaces links overtakes those that have
  written theirs and not yet followed them up.
  `SecondGenerationIsSound`: `DataInv` has at most one accepted revision current,
  and incidents exactly for the refused ones; `PointInv` that a vector, an
  outcome and a match rest on revisions that were there at their time, although
  reruns are ignored on conflict. Of a path that reruns lengthen, `PathsKept` has
  it for the rows up to the outcome's count, as rows are only added behind them
  (`PathsGrow`), which needs `BarsCloseApart`: a path lists every bar ahead once
  (`EveryPlaceIsTakenBy`). `CalibrationInv` and
  `ValidationInv` do the same for runs, evaluations and results, the hard part
  being that a touch that decided an outcome decides it under any later bars
  (`TouchDecides`, by the earliest bar there is).
  `PromotionsStayApproved`: `GovernanceInv` says that a decision is what the
  verdict makes of approvals its decider had read (`Justified`), that there is one
  per proposal, and that assignments and rollbacks are those of the approved ones,
  no more (`Traced`) and no less (`Effective`). `PromotionsAreApproved` alone does
  not survive a decider that read before a rejection came in.
  `EnginesAreRight` and `ExposureStaysWithinLimits`: `EnginesInv` says that an
  answer is the one the engine computes of a valid input; the rest is in
  `OptionEngines_proofs`.
- `OptionEngines_proofs`: for any valid input, each calculation returns what its
  definition demands, one lemma per engine. The loops need an invariant each.
  `DrawdownIsRight`: the running fall is the greatest over all pairs of earlier
  and later equity (`FallsFollow`). `CalibrationIsRight`: the rate handed on from
  bin to bin is the highest seen so far (`PooledIsHighest`), with rates compared
  crosswise as the counts are natural numbers, and every score falls into one bin
  (`BinHoldsScore`). `RankingIsRight`: percentiles and weights keep the order of
  the measures (`NormalizeScales`, `TotalsKeepOrder`), and with ties going by
  symbol every candidate has its one place. `AnalyticsAreRight`: the slice around the first nearest
  strike holds those with at most so many strikes in between (`SliceIsNearest`), no
  strike has more interest than the wall (`WallIsHighest`), and interest grows
  with the strikes it is summed over (`InterestGrows`). `MappingsAreRight`: an
  import stores all of its mappings unless one is undated or overlaps another,
  and then none (`EveryMappingIsStored`, `ImportSettles`). Sizing: the
  budgets left are those the capital of the sized positions leaves
  (`UsedIsSpent`, along the candidates), a decision stays within what is left, up
  to the unit by which half-up rounding may pass it (`DecisionIsWithinBudget`),
  and a budget that is already overrun is never increased.
- `FiniteOrders`: what those proofs keep needing of finite sets and of numbers.
  The library's induction theorems take an operator and cannot be used, so
  induction is done with sets: over a finite set by the smallest counterexample
  under strict inclusion (`SmallestExists`, then `GreatestExists`, `LeastExists`
  and `EveryPlaceIsTakenBy` for sequences sorted by a key), and up to a number by the least
  one that fails (`UpToN`), from which `RecursionExists` has that a function
  defined by recursion along a sequence is what its definition says. `PlacesSort`
  has that a finite set with a strict order can be put in a sequence in that
  order, so that the sequence the code sorts exists.

Only model-checked: the liveness properties (`RunOnceReturns`, `AbandonedLockExpires`,
`AbandonedClaimRecovers`, `DueWorkIsAttempted`, `ToldWhileInWindow`), which rest
on fairness and are beyond the prover; what `RetryPolicy` computes, whose
exponentiation the prover cannot expand; and the properties of the runs that
expect a violation, which are false.

## Findings

- `scheduler_overlap`. `docs/CHANGELOG.md:318`: "Added overlap prevention for
  recurring production runs." A call whose heartbeats fail or come late loses the
  row at its expiry; its thread logs "Scheduler lock ownership lost"
  (`services/scheduler.py:215`) and ends, and the pipeline runs on beside that
  of the new owner. `TimelyPreventsOverlap` says under which timing this cannot
  happen.
- `queue_overlap`. `docs/ARCHITECTURE.md:289`: "Scheduler locks and atomic claims
  prevent overlap". Without any fault, a worker whose claim went stale finishes
  late with an error; the UPDATE by id
  (`services/continuous_collection_repository.py:69`) sets the item to RETRYING
  while another worker freshly claimed it, and a third claim follows.
  `ClaimsStayExclusive` says when this cannot happen.
- `outcome_rerun`. `docs/HISTORICAL_OUTCOME_ENGINE.md:121` promises idempotent
  reruns. The outcome row of a rerun is ignored, its path rows are inserted
  (`services/outcome_v2_repository.py:70`): bars that arrive between two runs
  lengthen the path of an outcome that was calculated without them, and the
  stored `path_observation_count` no longer counts it, which the release audit
  compares. `PointInTime` therefore leaves that count out of its audits.
- `replay_queue`. `docs/CONTINUOUS_MARKET_COLLECTION.md:59`: "exact replay is
  deduplicated". The identity of a manifest covers the retry number, its unique
  constraint does not (`services/historical_data_repository.py:129`, migration
  023): after a crash between the import and `finish_attempt` every further
  attempt raises, and the work ends FAILED although its payload is stored.

Modelling brought up more places where the stored rows do not stay what the release
audit (`services/release_readiness_repository.py`) asks of them. They have no run of
their own; the models contain the behaviour and the properties name the exception.

- A vector that is ranked anew has its `ranking_id` replaced
  (`services/feature_store_repository.py:45`), its outcome and the similarity runs
  of which it is the query keep theirs
  (`services/historical_outcome_repository.py:39`,
  `services/similarity_repository.py:43`), so that lines 85 and 102 of the audit
  fail from then on, reruns notwithstanding.
- Outcomes are computed from one read and written later
  (`services/historical_outcome_service.py:30`): of two materializers the one that
  read first may write last, and an outcome that was complete, and is cited as
  such by an opportunity, is PARTIAL again until the next run. A similarity run
  that is repeated while opportunities are computed of it leaves them citing
  outcomes under another attachment than the matches have (line 136).
- An opportunity in state NO_OPPORTUNITY keeps `expected_value` and
  `historical_win_rate` (`services/trade_opportunity_service.py:89`), which lines
  127-129 of the audit count as violations. `docs/TRADE_OPPORTUNITY_ENGINE.md:33`
  lists neither among the columns that stay null.
- Events are read at lines 31 and 55 of `services/news_event_service.py` and links
  replaced at lines 47 and 70: an import in between leaves links that call an event
  predictive by a time of publication it no longer has. Two passes next to each
  other may leave the links of a similarity run without those of its query.
- A path that grows in a rerun (`outcome_rerun`) gets rows that became available
  after the outcome's `as_of`, which line 268 of the audit counts. A match of the
  second generation may carry an outcome whose bars were imported after the
  observation of the query: `services/similarity_v2_repository.py:25` asks only
  that its path ended by then.
- `evaluate` takes a calibration run and a policy, each by name
  (`services/calibration_v2_service.py:41`), and does not compare them; the audit
  does.
- `attempt_count` of a work item is raised by the claim and its attempt row
  written at the end, so that the audit `continuous_collection_lineage` (line 228)
  fails while work is running, and for ever after a worker died.

## What is not modelled

`PROJECT.json` lists every component with its reason.

- The backfill queue: `scripts/v3_backfill.py` schedules, pauses, recovers and
  counts jobs, but no program claims or checkpoints one (only tests do, and
  `execute` calls a repository method that does not exist), so the worker whose
  steps would interleave had to be invented.
- `reconcile` of the queue and `compute_metrics` of the live validation append
  statistics that nothing reads back. `health`, `status` and `get` only read.
- Numeric formulas of features, distances, scores, returns and statistics:
  decimal arithmetic in which no order of steps matters. Where a property needs
  their result, it is a choice.
- The market memory of the similarity engines, and the audits of counts,
  coverage and freshness of the release check. Of `historical_outcome_lineage` the
  clauses on `won` and `closing_return` (lines 89-90) are left out: they hold of
  every outcome of a vector with a spot price, which the analytics it is made of
  cannot do without.
- Two overlapping runs of one stage of `OptionLineage`, `PointInTime`,
  `Calibration` or `LiveValidation`, beyond what they leave one after the other.
- The version 1 scanner scripts, which are sequential scoring over broker
  quotes; the copilot, the read API, the dashboard and the frontend, which keep
  no state; configuration and logging.
- Of the modelled components: log lines, reported reasons and counts, the quota
  table and `claimed_by`, which nothing that writes reads.
