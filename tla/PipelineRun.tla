------------------------------ MODULE PipelineRun ------------------------------
\* services/pipeline.py and the records it keeps: one member of Run is one call of
\* Pipeline.start in a process of its own. The stages are given by the modules
\* that extend this one; here a stage runs, returns or raises. A repository call
\* that raises may have reached its commit or not.
EXTENDS Naturals, Sequences, FiniteSets

CONSTANTS
    Run,          \* calls of Pipeline.start
    MaxFaults     \* bound: calls that raise, and crashes, in one behaviour

ASSUME RunsAreFinite == IsFiniteSet(Run) /\ MaxFaults \in Nat

VARIABLES
    phase,        \* where the call stands
    at,           \* index of the stage it executes
    step,         \* step within that stage
    row,          \* pipeline_runs: status and whether completed_at is set
    failures,     \* pipeline_failures of the run, as [stage, symbol]
    metrics,      \* stage_metrics of the run, as [stage, status]
    faults,       \* raised calls and crashes so far
    ended         \* runs whose row was last dated by completed_at, oldest first

runVars == <<phase, at, step, row, failures, metrics, faults, ended>>

NoRow == [status |-> "none", dated |-> FALSE]
NoSymbol == "no symbol"
Statuses == {"none", "RUNNING", "SNAPSHOT_COMPLETE", "FEATURE_COMPLETE", "COMPLETED", "FAILED"}
Over == {"returned", "raised", "crashed"}

RunInit ==
    /\ phase = [r \in Run |-> "new"]
    /\ at = [r \in Run |-> 0]
    /\ step = [r \in Run |-> 1]
    /\ row = [r \in Run |-> NoRow]
    /\ failures = [r \in Run |-> {}]
    /\ metrics = [r \in Run |-> {}]
    /\ faults = 0
    /\ ended = <<>>

Dated(r) == Append(SelectSeq(ended, LAMBDA q : q # r), r)

\* A write of the run's row: what a repository call leaves, and its completed_at.
WriteStatus(r, status, dates) ==
    /\ row' = [row EXCEPT ![r] = [status |-> status, dated |-> dates \/ @.dated]]
    /\ ended' = IF dates THEN Dated(r) ELSE ended

\* The call raised. Whether the row was written is not known to the caller.
WriteRaises(r, status, dates) ==
    /\ faults < MaxFaults
    /\ faults' = faults + 1
    /\ \/ WriteStatus(r, status, dates)
       \/ UNCHANGED <<row, ended>>

Goto(r, p) == phase' = [phase EXCEPT ![r] = p]

NextStage(r) ==
    /\ at' = [at EXCEPT ![r] = @ + 1]
    /\ step' = [step EXCEPT ![r] = 1]

\* start_run inserts the row, and sets it back to RUNNING when it is there.
StartRunRow(r) ==
    /\ row' = [row EXCEPT ![r] = [status |-> "RUNNING", dated |-> FALSE]]
    /\ UNCHANGED ended

StartPipeline(r) ==
    /\ phase[r] = "new"
    /\ StartRunRow(r)
    /\ Goto(r, "stage")
    /\ NextStage(r)
    /\ UNCHANGED <<failures, metrics, faults>>

\* start_run raises before the try statement: nothing records the failure.
StartRaises(r) ==
    /\ phase[r] = "new"
    /\ faults < MaxFaults
    /\ faults' = faults + 1
    /\ StartRunRow(r) \/ UNCHANGED <<row, ended>>
    /\ Goto(r, "raised")
    /\ UNCHANGED <<at, step, failures, metrics>>

\* The metric of a stage is written, or its failure is logged and forgotten.
PersistStageMetric(r, stage, status) ==
    \/ /\ metrics' = [metrics EXCEPT ![r] = @ \union {[stage |-> stage, status |-> status]}]
       /\ UNCHANGED faults
    \/ /\ faults < MaxFaults
       /\ faults' = faults + 1
       /\ UNCHANGED metrics

\* Stage.execute returned: its metric, then the next stage or the end of the loop.
StageReturns(r, stages) ==
    /\ PersistStageMetric(r, stages[at[r]], "COMPLETED")
    /\ NextStage(r)
    /\ Goto(r, IF at[r] = Len(stages) THEN "completing" ELSE "stage")

\* The body of the stage raises, on its own account or because a call failed.
Unwind(r) == Goto(r, "unwinding")

CallFails(r) ==
    /\ phase[r] = "stage"
    /\ faults < MaxFaults
    /\ faults' = faults + 1
    /\ Unwind(r)

\* What the stage raised: its metric, then the except branch of start.
StageRaises(r, stages) ==
    /\ phase[r] = "unwinding"
    /\ PersistStageMetric(r, stages[at[r]], "FAILED")
    /\ Goto(r, "handling")
    /\ UNCHANGED <<at, step, row, failures, ended>>

InsertFailure(r, stage, symbol) == failures' = [failures EXCEPT ![r] = @ \union {[stage |-> stage, symbol |-> symbol]}]

\* The failure is inserted, or that failure is logged and forgotten too.
RecordFailure(r, stages, symbol) ==
    /\ phase[r] = "handling"
    /\ Goto(r, "failing")
    /\ \/ /\ InsertFailure(r, stages[at[r]], symbol)
          /\ UNCHANGED faults
       \/ /\ faults < MaxFaults
          /\ faults' = faults + 1
          /\ UNCHANGED failures
    /\ UNCHANGED <<at, step, row, metrics, ended>>

\* Mutant: the failed run is not dated.
FailRunUndated(r) ==
    /\ phase[r] = "failing"
    /\ WriteStatus(r, "FAILED", FALSE)
    /\ Goto(r, "raised")
    /\ UNCHANGED <<at, step, failures, metrics, faults>>

FailRun(r) ==
    /\ phase[r] = "failing"
    /\ \/ WriteStatus(r, "FAILED", TRUE) /\ UNCHANGED faults
       \/ WriteRaises(r, "FAILED", TRUE)
    /\ Goto(r, "raised")
    /\ UNCHANGED <<at, step, failures, metrics>>

\* Mutant: complete_run inside the try statement.
CompleteRunHandled(r) ==
    /\ phase[r] = "completing"
    /\ \/ /\ WriteStatus(r, "COMPLETED", TRUE)
          /\ Goto(r, "returned")
          /\ UNCHANGED <<faults, at>>
       \/ /\ WriteRaises(r, "COMPLETED", TRUE)
          /\ Goto(r, "handling")
          /\ at' = [at EXCEPT ![r] = @ - 1]
    /\ UNCHANGED <<step, failures, metrics>>

\* complete_run belongs to the else branch: what it raises is not handled.
CompleteRun(r) ==
    /\ phase[r] = "completing"
    /\ \/ /\ WriteStatus(r, "COMPLETED", TRUE)
          /\ Goto(r, "returned")
          /\ UNCHANGED faults
       \/ /\ WriteRaises(r, "COMPLETED", TRUE)
          /\ Goto(r, "raised")
    /\ UNCHANGED <<at, step, failures, metrics>>

\* The process dies between two calls.
CrashRun(r) ==
    /\ phase[r] \notin Over \union {"new"}
    /\ faults < MaxFaults
    /\ faults' = faults + 1
    /\ Goto(r, "crashed")
    /\ UNCHANGED <<at, step, row, failures, metrics, ended>>

RunTypeOK ==
    /\ phase \in [Run -> {"new", "stage", "unwinding", "handling", "failing", "completing"} \union Over]
    /\ at \in [Run -> Nat]
    /\ step \in [Run -> Nat]
    /\ row \in [Run -> [status : Statuses, dated : BOOLEAN]]
    /\ faults \in 0..MaxFaults
    /\ ended \in Seq(Run)

-------------------------------------------------------------------------------
\* What the release audit operational_state asks of pipeline_runs: a row that says the
\* run is over is dated, one that says RUNNING is not. The repositories of the stages
\* date their intermediate statuses and leave the date when they write another, so
\* this rests on no RUNNING being written after the first date.
OperationalState ==
    \A r \in Run : /\ row[r].status \in {"COMPLETED", "FAILED"} => row[r].dated
                   /\ row[r].status = "RUNNING" => ~ row[r].dated

\* A run reported COMPLETED stays so, and a FAILED one too, whatever raises after the
\* row was committed: complete_run lies outside the statement that handles errors.
VerdictStays ==
    [][\A r \in Run : row[r].status \in {"COMPLETED", "FAILED"} => row'[r] = row[r]]_runVars
================================================================================
