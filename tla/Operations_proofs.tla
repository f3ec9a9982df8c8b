---------------------------- MODULE Operations_proofs ----------------------------
(***************************************************************************)
(* What the operational tables may be relied on for, for any number of     *)
(* runs, symbols, stages' batches, notifiers, intervals and faults.        *)
(***************************************************************************)
EXTENDS Operations, FiniteOrders, SequenceTheorems

---------------------------------------------------------------------------
\* Pipeline runs. A row says that its run is over only after the run is, and is
\* dated then; one that says RUNNING is not dated, nor is any before the stage
\* that first writes another status.
Phases == {"new", "stage", "unwinding", "handling", "failing", "completing"} \union Over
Final == {"COMPLETED", "FAILED"}

RunTypes ==
    /\ phase \in [Run -> Phases]
    /\ at \in [Run -> Nat]
    /\ step \in [Run -> Nat]
    /\ row \in [Run -> [status : Statuses, dated : BOOLEAN]]

RowFits(entry, p, n) ==
    /\ entry.status \in Final => entry.dated /\ p \in Over
    /\ entry.status = "RUNNING" => ~ entry.dated
    /\ p = "stage" /\ n <= 3 => ~ entry.dated
    /\ p = "new" => n = 0

RunInv == RunTypes /\ \A r \in Run : RowFits(row[r], phase[r], at[r])

\* A run moves alone, to a row that fits and never away from a verdict.
Moves(r) ==
    /\ RunTypes'
    /\ \A q \in Run \ {r} : row'[q] = row[q] /\ phase'[q] = phase[q] /\ at'[q] = at[q] /\ step'[q] = step[q]
    /\ RowFits(row'[r], phase'[r], at'[r])
    /\ row[r].status \in Final => row'[r] = row[r]

LEMMA MovesKeep ==
    ASSUME RunInv, NEW r \in Run, Moves(r)
    PROVE  RunInv' /\ \A q \in Run : row[q].status \in Final => row'[q] = row[q]
BY DEF RunInv, Moves

\* The row of a run that goes on is written, or left, and the run goes somewhere.
LEMMA WriteMoves ==
    ASSUME RunInv, NEW r \in Run, phase[r] \notin Over,
           NEW p \in Phases, NEW n \in Nat, NEW m \in Nat,
           NEW entry \in [status : Statuses, dated : BOOLEAN], RowFits(entry, p, n),
           phase' = [phase EXCEPT ![r] = p], at' = [at EXCEPT ![r] = n],
           step' = [step EXCEPT ![r] = m], row' = [row EXCEPT ![r] = entry]
    PROVE  Moves(r)
<1>1. RunTypes'
  BY DEF RunInv, RunTypes
<1>2. \A q \in Run \ {r} : row'[q] = row[q] /\ phase'[q] = phase[q] /\ at'[q] = at[q] /\ step'[q] = step[q]
  BY DEF RunInv, RunTypes
<1>3. row'[r] = entry /\ phase'[r] = p /\ at'[r] = n
  BY DEF RunInv, RunTypes
<1>4. row[r].status \notin Final
  BY DEF RunInv, RowFits
<1> QED
  BY <1>1, <1>2, <1>3, <1>4 DEF Moves

\* Leaving the row as it is: the run goes on, fails or dies.
LEMMA GoMoves ==
    ASSUME RunInv, NEW r \in Run, phase[r] \notin Over,
           NEW p \in Phases \ {"new"}, NEW n \in Nat, NEW m \in Nat,
           p = "stage" /\ n <= 3 => phase[r] = "stage" /\ at[r] <= 3,
           phase' = [phase EXCEPT ![r] = p], at' = [at EXCEPT ![r] = n],
           step' = [step EXCEPT ![r] = m], row' = row
    PROVE  Moves(r)
<1>1. row' = [row EXCEPT ![r] = row[r]] /\ row[r] \in [status : Statuses, dated : BOOLEAN]
  BY DEF RunInv, RunTypes
<1>2. RowFits(row[r], p, n)
  BY DEF RunInv, RowFits
<1> QED
  BY <1>1, <1>2, WriteMoves

\* The steps that PipelineRun gives to every pipeline.
LEMMA CommonMoves ==
    ASSUME RunInv, NEW r \in Run, NEW stages,
           \/ StartPipeline(r) \/ StartRaises(r) \/ StageRaises(r, stages)
           \/ (\E symbol : RecordFailure(r, stages, symbol))
           \/ FailRun(r) \/ CompleteRun(r) \/ CrashRun(r)
    PROVE  Moves(r)
<1> DEFINE entry(status) == [status |-> status, dated |-> TRUE]
<1>1. /\ phase \in [Run -> Phases] /\ at \in [Run -> Nat] /\ step \in [Run -> Nat]
      /\ row \in [Run -> [status : Statuses, dated : BOOLEAN]]
      /\ at[r] \in Nat /\ step[r] \in Nat /\ row[r] \in [status : Statuses, dated : BOOLEAN]
      /\ at = [at EXCEPT ![r] = at[r]] /\ step = [step EXCEPT ![r] = step[r]]
  BY DEF RunInv, RunTypes
<1>2. CASE StartPipeline(r)
  <2>1. /\ [status |-> "RUNNING", dated |-> FALSE] \in [status : Statuses, dated : BOOLEAN]
        /\ RowFits([status |-> "RUNNING", dated |-> FALSE], "stage", at[r] + 1)
        /\ at[r] + 1 \in Nat /\ 1 \in Nat /\ "stage" \in Phases
    BY <1>1 DEF RowFits, Statuses, Final, Phases
  <2>2. /\ phase[r] = "new" /\ phase[r] \notin Over
        /\ phase' = [phase EXCEPT ![r] = "stage"] /\ at' = [at EXCEPT ![r] = at[r] + 1]
        /\ step' = [step EXCEPT ![r] = 1]
        /\ row' = [row EXCEPT ![r] = [status |-> "RUNNING", dated |-> FALSE]]
    BY <1>2 DEF StartPipeline, StartRunRow, Goto, NextStage, Over
  <2> QED
    BY <2>1, <2>2, WriteMoves
<1>3. CASE StartRaises(r)
  <2>1. /\ phase[r] = "new" /\ phase[r] \notin Over
        /\ phase' = [phase EXCEPT ![r] = "raised"] /\ UNCHANGED <<at, step>>
        /\ "raised" \in Phases \ {"new"} /\ "raised" # "stage"
    BY <1>3 DEF StartRaises, Goto, Over, Phases
  <2>2. CASE row' = row
    BY <1>1, <2>1, <2>2, GoMoves
  <2>3. CASE row' = [row EXCEPT ![r] = [status |-> "RUNNING", dated |-> FALSE]]
    <3>1. /\ [status |-> "RUNNING", dated |-> FALSE] \in [status : Statuses, dated : BOOLEAN]
          /\ RowFits([status |-> "RUNNING", dated |-> FALSE], "raised", at[r])
      BY <1>1 DEF RowFits, Statuses, Final
    <3> QED
      BY <1>1, <2>1, <2>3, <3>1, WriteMoves
  <2> QED
    BY <1>3, <2>2, <2>3 DEF StartRaises, StartRunRow
<1>4. CASE StageRaises(r, stages)
  <2>1. /\ phase[r] = "unwinding" /\ phase[r] \notin Over
        /\ phase' = [phase EXCEPT ![r] = "handling"] /\ UNCHANGED <<at, step, row>>
        /\ "handling" \in Phases \ {"new"} /\ "handling" # "stage"
    BY <1>4 DEF StageRaises, Goto, Over, Phases
  <2> QED
    BY <1>1, <2>1, GoMoves
<1>5. CASE \E symbol : RecordFailure(r, stages, symbol)
  <2>1. /\ phase[r] = "handling" /\ phase[r] \notin Over
        /\ phase' = [phase EXCEPT ![r] = "failing"] /\ UNCHANGED <<at, step, row>>
        /\ "failing" \in Phases \ {"new"} /\ "failing" # "stage"
    BY <1>5 DEF RecordFailure, Goto, Over, Phases
  <2> QED
    BY <1>1, <2>1, GoMoves
<1>6. ASSUME NEW status \in Final, NEW p \in {"raised", "returned"}, phase[r] \notin Over,
             phase' = [phase EXCEPT ![r] = p], UNCHANGED <<at, step>>,
             row' = row \/ WriteStatus(r, status, TRUE)
      PROVE  Moves(r)
  <2>1. p \in Phases \ {"new"} /\ p # "stage" /\ p \in Over
    BY DEF Phases, Over
  <2>2. CASE row' = row
    BY <1>1, <1>6, <2>1, <2>2, GoMoves
  <2>3. CASE WriteStatus(r, status, TRUE)
    <3>1. row' = [row EXCEPT ![r] = [status |-> status, dated |-> TRUE]]
      BY <1>1, <2>3 DEF WriteStatus
    <3>2. /\ [status |-> status, dated |-> TRUE] \in [status : Statuses, dated : BOOLEAN]
          /\ RowFits([status |-> status, dated |-> TRUE], p, at[r])
      BY <2>1 DEF RowFits, Statuses, Final
    <3> QED
      BY <1>1, <1>6, <2>1, <3>1, <3>2, WriteMoves
  <2> QED
    BY <1>6, <2>2, <2>3
<1>7. CASE FailRun(r)
  BY <1>6, <1>7 DEF FailRun, WriteRaises, Goto, Over, Final
<1>8. CASE CompleteRun(r)
  BY <1>6, <1>8 DEF CompleteRun, WriteRaises, Goto, Over, Final
<1>9. CASE CrashRun(r)
  <2>1. /\ phase[r] \notin Over
        /\ phase' = [phase EXCEPT ![r] = "crashed"] /\ UNCHANGED <<at, step, row>>
        /\ "crashed" \in Phases \ {"new"} /\ "crashed" # "stage"
    BY <1>9 DEF CrashRun, Goto, Over, Phases
  <2> QED
    BY <1>1, <2>1, GoMoves
<1> QED
  BY <1>2, <1>3, <1>4, <1>5, <1>7, <1>8, <1>9

\* Within a stage: the next step, the next stage, or an error.
LEMMA StageMoves ==
    ASSUME RunInv, NEW r \in Run, phase[r] = "stage", row' = row,
           \/ UNCHANGED <<phase, at>> /\ (step' = step \/ step' = [step EXCEPT ![r] = @ + 1])
           \/ (\E stages : StageReturns(r, stages))
           \/ CallFails(r) /\ UNCHANGED <<at, step>>
           \/ Unwind(r) /\ UNCHANGED <<at, step>>
    PROVE  Moves(r)
<1>1. /\ phase \in [Run -> Phases] /\ at \in [Run -> Nat] /\ step \in [Run -> Nat]
      /\ at[r] \in Nat /\ step[r] \in Nat /\ step[r] + 1 \in Nat
      /\ phase = [phase EXCEPT ![r] = "stage"]
      /\ at = [at EXCEPT ![r] = at[r]] /\ step = [step EXCEPT ![r] = step[r]]
      /\ "stage" \in Phases \ {"new"} /\ phase[r] \notin Over
  BY DEF RunInv, RunTypes, Phases, Over
<1>2. CASE UNCHANGED <<phase, at>> /\ (step' = step \/ step' = [step EXCEPT ![r] = @ + 1])
  <2>1. PICK m \in Nat : step' = [step EXCEPT ![r] = m]
    BY <1>1, <1>2
  <2> QED
    BY <1>1, <1>2, <2>1, GoMoves
<1>3. ASSUME NEW stages, StageReturns(r, stages) PROVE Moves(r)
  <2>1. PICK p \in {"stage", "completing"} : phase' = [phase EXCEPT ![r] = p]
    BY <1>3 DEF StageReturns, Goto
  <2>2. at' = [at EXCEPT ![r] = at[r] + 1] /\ step' = [step EXCEPT ![r] = 1] /\ at[r] + 1 \in Nat
    BY <1>1, <1>3 DEF StageReturns, NextStage
  <2>3. p \in Phases \ {"new"} /\ (p = "stage" /\ at[r] + 1 <= 3 => at[r] <= 3)
    BY <1>1 DEF Phases
  <2> QED
    BY <1>1, <2>1, <2>2, <2>3, GoMoves
<1>4. CASE Unwind(r) /\ UNCHANGED <<at, step>>
  <2>1. phase' = [phase EXCEPT ![r] = "unwinding"] /\ "unwinding" \in Phases \ {"new"} /\ "unwinding" # "stage"
    BY <1>4 DEF Unwind, Goto, Phases
  <2> QED
    BY <1>1, <1>4, <2>1, GoMoves
<1>5. CASE CallFails(r) /\ UNCHANGED <<at, step>>
  BY <1>4, <1>5 DEF CallFails
<1> QED
  BY <1>2, <1>3, <1>4, <1>5

\* A stage dates the row of its run while it goes on: not before the snapshots are
\* complete, so that every later stage finds it so.
LEMMA StatusMoves ==
    ASSUME RunInv, NEW r \in Run, phase[r] = "stage",
           NEW status \in Statuses \ Final, NEW dates \in BOOLEAN,
           WriteStatus(r, status, dates),
           \/ /\ status = "RUNNING" /\ dates = FALSE /\ at[r] = 3
              /\ UNCHANGED <<phase, at>> /\ step' = [step EXCEPT ![r] = @ + 1]
           \/ /\ status # "RUNNING" /\ at[r] >= 3
              /\ (\E stages : StageReturns(r, stages)) \/ (Unwind(r) /\ UNCHANGED <<at, step>>)
    PROVE  Moves(r)
<1>1. /\ phase \in [Run -> Phases] /\ at \in [Run -> Nat] /\ step \in [Run -> Nat]
      /\ row \in [Run -> [status : Statuses, dated : BOOLEAN]] /\ row[r].dated \in BOOLEAN
      /\ at[r] \in Nat /\ step[r] \in Nat /\ step[r] + 1 \in Nat /\ at[r] + 1 \in Nat
      /\ phase = [phase EXCEPT ![r] = "stage"]
      /\ at = [at EXCEPT ![r] = at[r]] /\ step = [step EXCEPT ![r] = step[r]]
      /\ phase[r] \notin Over
  BY DEF RunInv, RunTypes, Phases, Over
<1>2. PICK dated \in BOOLEAN : dated = (dates \/ row[r].dated)
  BY <1>1
<1>3. PICK entry \in [status : Statuses, dated : BOOLEAN] : entry = [status |-> status, dated |-> dated]
  OBVIOUS
<1>4. row' = [row EXCEPT ![r] = entry]
  BY <1>1, <1>2, <1>3 DEF WriteStatus
<1>5. CASE /\ status = "RUNNING" /\ dates = FALSE /\ at[r] = 3
           /\ UNCHANGED <<phase, at>> /\ step' = [step EXCEPT ![r] = @ + 1]
  <2>1. ~ row[r].dated
    BY <1>1, <1>5 DEF RunInv, RowFits
  <2>2. RowFits(entry, "stage", at[r]) /\ "stage" \in Phases
    BY <1>2, <1>3, <1>5, <2>1 DEF RowFits, Final, Phases
  <2>3. step' = [step EXCEPT ![r] = step[r] + 1]
    BY <1>5
  <2> QED
    BY <1>1, <1>4, <1>5, <2>2, <2>3, WriteMoves
<1>6. ASSUME NEW stages, StageReturns(r, stages), status # "RUNNING", at[r] >= 3 PROVE Moves(r)
  <2>1. PICK p \in {"stage", "completing"} : phase' = [phase EXCEPT ![r] = p]
    BY <1>6 DEF StageReturns, Goto
  <2>2. at' = [at EXCEPT ![r] = at[r] + 1] /\ step' = [step EXCEPT ![r] = 1]
    BY <1>1, <1>6 DEF StageReturns, NextStage
  <2>3. p \in Phases /\ RowFits(entry, p, at[r] + 1)
    BY <1>1, <1>3, <1>6 DEF RowFits, Phases
  <2> QED
    BY <1>1, <1>4, <2>1, <2>2, <2>3, WriteMoves
<1>7. CASE Unwind(r) /\ UNCHANGED <<at, step>> /\ status # "RUNNING"
  <2>1. phase' = [phase EXCEPT ![r] = "unwinding"] /\ "unwinding" \in Phases
    BY <1>7 DEF Unwind, Goto, Phases
  <2>2. RowFits(entry, "unwinding", at[r])
    BY <1>3, <1>7 DEF RowFits
  <2> QED
    BY <1>1, <1>4, <1>7, <2>1, <2>2, WriteMoves
<1> QED
  BY <1>5, <1>6, <1>7

\* A run that goes on stands at a stage of its pipeline.
Placed == \A r \in Market : phase[r] = "stage" => at[r] \in 1..7

MarketCommon(r) ==
    \/ StartPipeline(r) \/ StartRaises(r) \/ StageRaises(r, MarketStages)
    \/ RecordFailure(r, MarketStages, NoSymbol) \/ FailRun(r) \/ CompleteRun(r) \/ CrashRun(r)

LEMMA SnapshotStage ==
    ASSUME NEW n \in 1..7
    PROVE  /\ MarketStages[n] = "Collector" => n = 2
           /\ MarketStages[n] = "Snapshot Engine" => n = 3
           /\ MarketStages[n] = "Feature Engine" => n = 4
           /\ Len(MarketStages) = 7
<1>1. /\ MarketStages[1] = "Database" /\ MarketStages[2] = "Collector"
      /\ MarketStages[3] = "Snapshot Engine" /\ MarketStages[4] = "Feature Engine"
      /\ MarketStages[5] = "Ranking Engine" /\ MarketStages[6] = "Risk Engine"
      /\ MarketStages[7] = "Signal Engine" /\ Len(MarketStages) = 7
  BY DEF MarketStages
<1>2. n = 1 \/ n = 2 \/ n = 3 \/ n = 4 \/ n = 5 \/ n = 6 \/ n = 7
  OBVIOUS
<1> QED
  BY <1>1, <1>2

LEMMA MarketMoves ==
    ASSUME RunInv, Placed, NEW r \in Market, MarketStep(r)
    PROVE  Moves(r)
<1>0. r \in Run
  BY PipelinesDiffer
<1>1. phase[r] = "stage" => /\ MarketStages[at[r]] = "Snapshot Engine" => at[r] = 3
                            /\ MarketStages[at[r]] = "Feature Engine" => at[r] = 4
  BY SnapshotStage DEF Placed
<1>2. ASSUME phase[r] = "stage", StageReturns(r, MarketStages), row' = row PROVE Moves(r)
  BY <1>0, <1>2, StageMoves
<1>3. ASSUME phase[r] = "stage", Step(r), row' = row PROVE Moves(r)
  BY <1>0, <1>3, StageMoves DEF Step
<1>4. ASSUME phase[r] = "stage", NEW status \in {"SNAPSHOT_COMPLETE", "FEATURE_COMPLETE"}, at[r] >= 3,
             WriteStatus(r, status, TRUE),
             StageReturns(r, MarketStages) \/ (Unwind(r) /\ UNCHANGED <<at, step>>)
      PROVE  Moves(r)
  <2>1. status \in Statuses \ Final /\ status # "RUNNING"
    BY DEF Statuses, Final
  <2> QED
    BY <1>0, <1>4, <2>1, StatusMoves
<1>5. CASE PassThrough(r)
  BY <1>2, <1>5 DEF PassThrough, InStage, MarketStageEnds
<1>6. CASE FetchBatch(r)
  BY <1>3, <1>6 DEF FetchBatch, InStage
<1>7. CASE SaveQuotes(r)
  BY <1>2, <1>7 DEF SaveQuotes, AtStep, InStage, MarketStageEnds
<1>8. CASE NothingCollected(r) \/ BatchDisagrees(r)
  <2>1. phase[r] = "stage" /\ Unwind(r) /\ UNCHANGED <<at, step, row>>
    BY <1>8 DEF NothingCollected, BatchDisagrees, AtStep, InStage, RaiseHere
  <2> QED
    BY <1>0, <2>1, StageMoves
<1>9. CASE ReadLatestBatch(r) \/ InsertSnapshots(r) \/ InsertFeatures(r)
  BY <1>3, <1>9 DEF ReadLatestBatch, InsertSnapshots, InsertFeatures, AtStep, InStage
<1>10. CASE StartSnapshots(r)
  <2>1. /\ phase[r] = "stage" /\ at[r] = 3 /\ WriteStatus(r, "RUNNING", FALSE)
        /\ UNCHANGED <<phase, at>> /\ step' = [step EXCEPT ![r] = @ + 1]
    BY <1>1, <1>10 DEF StartSnapshots, AtStep, InStage, Step
  <2>2. "RUNNING" \in Statuses \ Final
    BY DEF Statuses, Final
  <2> QED
    BY <1>0, <2>1, <2>2, StatusMoves
<1>11. CASE CompleteSnapshots(r)
  <2>1. /\ phase[r] = "stage" /\ at[r] = 3 /\ WriteStatus(r, "SNAPSHOT_COMPLETE", TRUE)
        /\ StageReturns(r, MarketStages)
    BY <1>1, <1>11 DEF CompleteSnapshots, AtStep, InStage, MarketStageEnds
  <2> QED
    BY <1>4, <2>1
<1>12. CASE CompleteFeatures(r)
  <2>1. /\ phase[r] = "stage" /\ at[r] = 4 /\ WriteStatus(r, "FEATURE_COMPLETE", TRUE)
        /\ StageReturns(r, MarketStages)
    BY <1>1, <1>12 DEF CompleteFeatures, AtStep, InStage, MarketStageEnds
  <2> QED
    BY <1>4, <2>1
<1>13. CASE MarketCallFails(r)
  <2>1. phase[r] = "stage" /\ Unwind(r) /\ UNCHANGED <<at, step>>
    BY <1>13 DEF MarketCallFails, CallFails
  <2>2. CASE row' = row
    BY <1>0, <2>1, <2>2, StageMoves
  <2>3. CASE AtStep(r, "Snapshot Engine", 4) /\ WriteStatus(r, "SNAPSHOT_COMPLETE", TRUE)
    <3>1. at[r] = 3
      BY <1>1, <2>1, <2>3 DEF AtStep, InStage
    <3>2. at[r] >= 3 /\ (Unwind(r) /\ UNCHANGED <<at, step>>)
      BY <2>1, <3>1
    <3> QED
      BY <1>4, <2>1, <2>3, <3>2
  <2>4. CASE AtStep(r, "Feature Engine", 2) /\ WriteStatus(r, "FEATURE_COMPLETE", TRUE)
    <3>1. at[r] = 4
      BY <1>1, <2>1, <2>4 DEF AtStep, InStage
    <3>2. at[r] >= 3 /\ (Unwind(r) /\ UNCHANGED <<at, step>>)
      BY <2>1, <3>1
    <3> QED
      BY <1>4, <2>1, <2>4, <3>2
  <2> QED
    BY <1>13, <2>2, <2>3, <2>4 DEF MarketCallFails
<1>14. CASE MarketCommon(r)
  BY <1>0, <1>14, CommonMoves DEF MarketCommon
<1> QED
  BY <1>5, <1>6, <1>7, <1>8, <1>9, <1>10, <1>11, <1>12, <1>13, <1>14 DEF MarketStep, MarketCommon

\* A run stays at its stage, starts, takes the next stage or leaves the loop.
LEMMA MarketAdvances ==
    ASSUME RunInv, Placed, NEW r \in Market, MarketStep(r)
    PROVE  /\ phase'[r] = "stage" => at'[r] \in 1..7
           /\ at'[r] >= at[r]
<1>0. r \in Run
  BY PipelinesDiffer
<1>1. /\ phase \in [Run -> Phases] /\ at \in [Run -> Nat] /\ at[r] \in Nat
      /\ phase[r] = "stage" => at[r] \in 1..7
      /\ phase[r] = "new" => at[r] = 0
  BY <1>0 DEF RunInv, RunTypes, Placed, RowFits
<1>2. ASSUME phase[r] = "stage", StageReturns(r, MarketStages)
      PROVE  /\ phase'[r] = "stage" => at'[r] \in 1..7
             /\ at'[r] >= at[r]
  <2>1. at'[r] = at[r] + 1 /\ phase'[r] = IF at[r] = 7 THEN "completing" ELSE "stage"
    BY <1>0, <1>1, <1>2, SnapshotStage DEF StageReturns, NextStage, Goto
  <2> QED
    BY <1>1, <1>2, <2>1
<1>3. ASSUME UNCHANGED at, phase' = phase \/ (\E p \in Phases \ {"stage"} : Goto(r, p))
      PROVE  /\ phase'[r] = "stage" => at'[r] \in 1..7
             /\ at'[r] >= at[r]
  BY <1>0, <1>1, <1>3 DEF Goto
<1>4. CASE StartPipeline(r)
  <2>1. at'[r] = 1 /\ at[r] = 0
    BY <1>0, <1>1, <1>4 DEF StartPipeline, NextStage
  <2> QED
    BY <2>1
<1>5. CASE PassThrough(r) \/ SaveQuotes(r) \/ CompleteSnapshots(r) \/ CompleteFeatures(r)
  BY <1>2, <1>5 DEF PassThrough, SaveQuotes, CompleteSnapshots, CompleteFeatures, AtStep, InStage, MarketStageEnds
<1>6. CASE FetchBatch(r) \/ ReadLatestBatch(r) \/ StartSnapshots(r) \/ InsertSnapshots(r) \/ InsertFeatures(r)
  BY <1>3, <1>6 DEF FetchBatch, ReadLatestBatch, StartSnapshots, InsertSnapshots, InsertFeatures, Step
<1>7. CASE NothingCollected(r) \/ BatchDisagrees(r) \/ MarketCallFails(r)
  <2>1. UNCHANGED at /\ Goto(r, "unwinding") /\ "unwinding" \in Phases \ {"stage"}
    BY <1>7 DEF NothingCollected, BatchDisagrees, RaiseHere, MarketCallFails, CallFails, Unwind, Phases
  <2> QED
    BY <1>3, <2>1
<1>8. CASE MarketCommon(r) /\ ~ StartPipeline(r)
  <2>1. UNCHANGED at /\ \E p \in {"raised", "handling", "failing", "returned", "crashed"} : Goto(r, p)
    BY <1>8 DEF MarketCommon, StartRaises, StageRaises, RecordFailure, FailRun, CompleteRun, CrashRun
  <2>2. {"raised", "handling", "failing", "returned", "crashed"} \subseteq Phases \ {"stage"}
    BY DEF Phases, Over
  <2> QED
    BY <1>3, <2>1, <2>2
<1> QED
  BY <1>4, <1>5, <1>6, <1>7, <1>8 DEF MarketStep, MarketCommon

LEMMA OptionMoves ==
    ASSUME RunInv, NEW r \in Options, OptionStep(r)
    PROVE  Moves(r)
<1>0. r \in Run
  BY PipelinesDiffer
<1>1. CASE StartChain(r) \/ CollectRaises(r) \/ FailChain(r) \/ RetrySymbol(r) \/ AnalysisRaises(r)
  <2>1. phase[r] = "stage" /\ UNCHANGED <<phase, at, row, step>>
    BY <1>1 DEF StartChain, CollectRaises, FailChain, RetrySymbol, AnalysisRaises, Analysing, Doing,
                InOptionStage, StaysInStage
  <2> QED
    BY <1>0, <2>1, StageMoves
<1>2. CASE CollectReturns(r) \/ GiveUpSymbol(r) \/ AnalyzeSymbol(r) \/ NothingToAnalyze(r)
  <2>1. phase[r] = "stage" /\ UNCHANGED <<phase, at, row>> /\ step' = [step EXCEPT ![r] = @ + 1]
    BY <1>2 DEF CollectReturns, GiveUpSymbol, SymbolRaised, AnalyzeSymbol, Analysing, NothingToAnalyze, Doing,
                InOptionStage, StaysInStage, NextSymbol
  <2> QED
    BY <1>0, <2>1, StageMoves
<1>3. CASE OptionStageEnds(r)
  <2>1. phase[r] = "stage" /\ UNCHANGED row /\ StageReturns(r, OptionStages)
    BY <1>3 DEF OptionStageEnds
  <2> QED
    BY <1>0, <2>1, StageMoves
<1>4. CASE FailureInsertRaises(r)
  <2>1. phase[r] = "stage" /\ UNCHANGED <<row, at, step>> /\ CallFails(r)
    BY <1>4 DEF FailureInsertRaises, CallFails
  <2> QED
    BY <1>0, <2>1, StageMoves
<1>5. CASE \/ StartPipeline(r) \/ StartRaises(r) \/ StageRaises(r, OptionStages)
           \/ RecordFailure(r, OptionStages, FailedSymbol(r)) \/ FailRun(r) \/ CompleteRun(r) \/ CrashRun(r)
  BY <1>0, <1>5, CommonMoves
<1> QED
  BY <1>1, <1>2, <1>3, <1>4, <1>5 DEF OptionStep

---------------------------------------------------------------------------
\* Snapshots. Stamps grow at their end, so that the quotes of a run and those of
\* the table have a last batch, which is what SELECT MAX(collected_at) finds.
HasLast(tables) == tables = {} \/ \E k \in tables : \A l \in tables : l <= k

\* What a run has read leaves none of its own quotes behind, and it has no more to save.
Covers(r, k) == k # NoBatch => /\ at[r] >= 3
                               /\ \A j \in saved : stamps[j].by = r => j <= k

SnapInv ==
    /\ stamps \in Seq([by : Market, quotes : BatchQuotes])
    /\ saved \subseteq DOMAIN stamps
    /\ HasLast(saved) /\ \A r \in Market : HasLast(Quoted(r))
    /\ DOMAIN batch = Market /\ DOMAIN snapshots = Market
    /\ \A r \in Market : Covers(r, batch[r]) /\ Covers(r, snapshots[r])

LEMMA LatestIsLast ==
    ASSUME NEW tables \in SUBSET Nat, HasLast(tables), NEW k \in tables
    PROVE  k <= LatestBatch(tables)
BY DEF HasLast, LatestBatch

LEMMA LastOfTwo ==
    ASSUME NEW A \in SUBSET Nat, NEW B \in SUBSET Nat, HasLast(A), HasLast(B)
    PROVE  HasLast(A \union B)
<1>1. CASE A = {} \/ B = {}
  BY <1>1 DEF HasLast
<1>2. CASE A # {} /\ B # {}
  <2>1. PICK a \in A : \A l \in A : l <= a
    BY <1>2 DEF HasLast
  <2>2. PICK b \in B : \A l \in B : l <= b
    BY <1>2 DEF HasLast
  <2>3. CASE a <= b
    BY <2>1, <2>2, <2>3 DEF HasLast
  <2>4. CASE b <= a
    BY <2>1, <2>2, <2>4 DEF HasLast
  <2> QED
    BY <2>3, <2>4
<1> QED
  BY <1>1, <1>2

\* Runs that only go further leave the tables as they are.
LEMMA TablesRest ==
    ASSUME RunInv, SnapInv, RunTypes', UNCHANGED <<stamps, saved, batch, snapshots>>,
           \A q \in Market : at'[q] >= at[q]
    PROVE  SnapInv'
<1>1. \A q \in Market : at[q] \in Nat /\ at'[q] \in Nat
  BY PipelinesDiffer DEF RunInv, RunTypes
<1>2. ASSUME NEW q \in Market, NEW k, Covers(q, k) PROVE Covers(q, k)'
  BY <1>1, <1>2 DEF Covers
<1>3. \A q \in Market : Quoted(q)' = Quoted(q)
  BY DEF Quoted
<1> QED
  BY <1>2, <1>3 DEF SnapInv

LEMMA FetchKeeps ==
    ASSUME SnapInv, NEW r \in Market, FetchBatch(r)
    PROVE  SnapInv'
<1>1. PICK n \in BatchQuotes : stamps' = Append(stamps, [by |-> r, quotes |-> n])
  BY DEF FetchBatch
<1>2. UNCHANGED <<at, saved, batch, snapshots>>
  BY DEF FetchBatch, Step
<1>3. [by |-> r, quotes |-> n] \in [by : Market, quotes : BatchQuotes]
  OBVIOUS
<1>4. /\ stamps' \in Seq([by : Market, quotes : BatchQuotes])
      /\ Len(stamps') = Len(stamps) + 1 /\ Len(stamps) \in Nat
      /\ DOMAIN stamps = 1..Len(stamps) /\ DOMAIN stamps' = 1..(Len(stamps) + 1)
      /\ \A k \in DOMAIN stamps : stamps'[k] = stamps[k]
  BY <1>1, <1>3, AppendProperties DEF SnapInv
<1>5. ASSUME NEW q \in Market PROVE HasLast(Quoted(q)')
  <2>1. CASE Len(stamps) + 1 \in Quoted(q)'
    <3>1. \A l \in Quoted(q)' : l <= Len(stamps) + 1
      BY <1>4 DEF Quoted
    <3> QED
      BY <2>1, <3>1 DEF HasLast
  <2>2. CASE Len(stamps) + 1 \notin Quoted(q)'
    <3>1. Quoted(q)' = Quoted(q)
      <4>1. \A k \in DOMAIN stamps : k \in Quoted(q)' <=> k \in Quoted(q)
        BY <1>4 DEF Quoted
      <4>2. \A k \in Quoted(q)' : k \in DOMAIN stamps
        BY <1>4, <2>2 DEF Quoted
      <4> QED
        BY <4>1, <4>2 DEF Quoted
    <3> QED
      BY <3>1 DEF SnapInv
  <2> QED
    BY <2>1, <2>2
<1>6. \A q \in Market : Covers(q, batch[q])' /\ Covers(q, snapshots[q])'
  BY <1>2, <1>4 DEF SnapInv, Covers
<1>7. saved' \subseteq DOMAIN stamps' /\ HasLast(saved') /\ DOMAIN batch' = Market /\ DOMAIN snapshots' = Market
  BY <1>2, <1>4 DEF SnapInv
<1> QED
  BY <1>4, <1>5, <1>6, <1>7 DEF SnapInv, HasLast

LEMMA SaveKeeps ==
    ASSUME RunInv, Placed, SnapInv, NEW r \in Market, SaveQuotes(r), RunTypes',
           \A q \in Market : at'[q] >= at[q]
    PROVE  SnapInv'
<1>1. saved' = saved \union Quoted(r) /\ UNCHANGED <<stamps, batch, snapshots>>
  BY DEF SaveQuotes, Quoted
<1>2. at[r] = 2 /\ \A q \in Market : at[q] \in Nat /\ at'[q] \in Nat
  <2>1. phase[r] = "stage" /\ MarketStages[at[r]] = "Collector"
    BY DEF SaveQuotes, AtStep, InStage
  <2>2. at[r] = 2
    BY <2>1, SnapshotStage DEF Placed
  <2> QED
    BY <2>2, PipelinesDiffer DEF RunInv, RunTypes
<1>3. stamps' \in Seq([by : Market, quotes : BatchQuotes]) /\ saved' \subseteq DOMAIN stamps'
  BY <1>1 DEF SnapInv, Quoted
<1>4. HasLast(saved')
  <2>1. DOMAIN stamps \subseteq Nat
    <3>1. DOMAIN stamps = 1..Len(stamps) /\ Len(stamps) \in Nat
      BY LenProperties DEF SnapInv
    <3> QED
      BY <3>1
  <2>2. saved \in SUBSET Nat /\ Quoted(r) \in SUBSET Nat /\ HasLast(saved) /\ HasLast(Quoted(r))
    BY <2>1 DEF SnapInv, Quoted
  <2> QED
    BY <1>1, <2>2, LastOfTwo
<1>5. \A q \in Market : Quoted(q)' = Quoted(q)
  BY <1>1 DEF Quoted
<1>6. ASSUME NEW q \in Market, NEW k, Covers(q, k) PROVE Covers(q, k)'
  <2>1. CASE q = r
    BY <1>2, <1>6, <2>1 DEF Covers
  <2>2. CASE q # r
    <3>1. \A j \in saved' : stamps'[j].by = q => j \in saved /\ stamps[j].by = q
      BY <1>1, <2>2 DEF Quoted
    <3> QED
      BY <1>2, <1>6, <3>1 DEF Covers
  <2> QED
    BY <2>1, <2>2
<1>7. \A q \in Market : Covers(q, batch[q])' /\ Covers(q, snapshots[q])'
  BY <1>1, <1>6 DEF SnapInv
<1> QED
  BY <1>1, <1>3, <1>4, <1>5, <1>7 DEF SnapInv

LEMMA ReadKeeps ==
    ASSUME Placed, SnapInv, NEW r \in Market, ReadLatestBatch(r)
    PROVE  SnapInv'
<1>1. UNCHANGED <<at, stamps, saved, snapshots>> /\ batch' = [batch EXCEPT ![r] = LatestBatch(saved)]
  BY DEF ReadLatestBatch, Step
<1>2. at[r] = 3
  <2>1. phase[r] = "stage" /\ MarketStages[at[r]] = "Snapshot Engine"
    BY DEF ReadLatestBatch, AtStep, InStage
  <2> QED
    BY <2>1, SnapshotStage DEF Placed
<1>3. \A k \in saved : k <= LatestBatch(saved)
  <2>1. DOMAIN stamps = 1..Len(stamps) /\ Len(stamps) \in Nat
    BY LenProperties DEF SnapInv
  <2>2. saved \in SUBSET Nat /\ HasLast(saved)
    BY <2>1 DEF SnapInv
  <2> QED
    BY <2>2, LatestIsLast
<1>4. Covers(r, LatestBatch(saved))
  BY <1>2, <1>3 DEF Covers
<1>5. \A q \in Market : batch'[q] = IF q = r THEN LatestBatch(saved) ELSE batch[q]
  BY <1>1 DEF SnapInv
<1>6. \A q \in Market : Covers(q, batch'[q])
  BY <1>4, <1>5 DEF SnapInv
<1>8. \A q \in Market : Covers(q, batch[q])' /\ Covers(q, snapshots[q])'
  BY <1>1, <1>6 DEF SnapInv, Covers
<1>9. /\ DOMAIN batch' = Market
      /\ \A q \in Market : Quoted(q)' = Quoted(q)
  BY <1>1 DEF SnapInv, Quoted
<1> QED
  BY <1>1, <1>8, <1>9 DEF SnapInv

LEMMA InsertKeeps ==
    ASSUME SnapInv, NEW r \in Market, InsertSnapshots(r)
    PROVE  SnapInv'
<1>1. UNCHANGED <<at, stamps, saved, batch>> /\ snapshots' = [snapshots EXCEPT ![r] = batch[r]]
  BY DEF InsertSnapshots, Step
<1>2. \A q \in Market : snapshots'[q] = IF q = r THEN batch[r] ELSE snapshots[q]
  BY <1>1 DEF SnapInv
<1>3. \A q \in Market : Covers(q, snapshots'[q])
  BY <1>2 DEF SnapInv
<1>4. \A q \in Market : Covers(q, batch[q])' /\ Covers(q, snapshots[q])'
  BY <1>1, <1>3 DEF SnapInv, Covers
<1>5. /\ DOMAIN snapshots' = Market
      /\ \A q \in Market : Quoted(q)' = Quoted(q)
  BY <1>1 DEF SnapInv, Quoted
<1> QED
  BY <1>1, <1>4, <1>5 DEF SnapInv

LEMMA MarketKeeps ==
    ASSUME RunInv, Placed, SnapInv, NEW r \in Market, MarketStep(r)
    PROVE  RunInv' /\ Placed' /\ SnapInv'
<1>1. r \in Run /\ Moves(r)
  BY PipelinesDiffer, MarketMoves
<1>2. RunInv' /\ RunTypes'
  BY <1>1, MovesKeep DEF Moves
<1>3. Placed'
  BY <1>1, MarketAdvances, PipelinesDiffer DEF Placed, Moves
<1>4. \A q \in Market : at'[q] >= at[q]
  <2>1. ASSUME NEW q \in Market, q # r PROVE at'[q] = at[q] /\ at[q] \in Nat
    BY <1>1, <2>1, PipelinesDiffer DEF Moves, RunInv, RunTypes
  <2>2. at'[r] >= at[r]
    BY MarketAdvances
  <2> QED
    BY <2>1, <2>2
<1>5. SnapInv'
  <2>1. CASE FetchBatch(r)
    BY <2>1, FetchKeeps
  <2>2. CASE SaveQuotes(r)
    BY <1>2, <1>4, <2>2, SaveKeeps
  <2>3. CASE ReadLatestBatch(r)
    BY <2>3, ReadKeeps
  <2>4. CASE InsertSnapshots(r)
    BY <2>4, InsertKeeps
  <2>5. CASE \/ PassThrough(r) \/ NothingCollected(r) \/ BatchDisagrees(r) \/ StartSnapshots(r)
             \/ CompleteSnapshots(r) \/ InsertFeatures(r) \/ CompleteFeatures(r) \/ MarketCallFails(r)
             \/ UNCHANGED marketVars
    <3>1. UNCHANGED <<stamps, saved, batch, snapshots>>
      BY <2>5 DEF PassThrough, NothingCollected, BatchDisagrees, StartSnapshots, CompleteSnapshots,
                  InsertFeatures, CompleteFeatures, MarketCallFails, marketVars
    <3> QED
      BY <1>2, <1>4, <3>1, TablesRest
  <2> QED
    BY <2>1, <2>2, <2>3, <2>4, <2>5 DEF MarketStep
<1> QED
  BY <1>2, <1>3, <1>5

LEMMA OptionKeeps ==
    ASSUME RunInv, Placed, SnapInv, NEW r \in Options, OptionStep(r), UNCHANGED marketVars
    PROVE  RunInv' /\ Placed' /\ SnapInv'
<1>1. r \in Run /\ Moves(r)
  BY PipelinesDiffer, OptionMoves
<1>2. RunInv' /\ RunTypes'
  BY <1>1, MovesKeep DEF Moves
<1>3. \A q \in Market : phase'[q] = phase[q] /\ at'[q] = at[q] /\ at[q] \in Nat
  BY <1>1, PipelinesDiffer DEF Moves, RunInv, RunTypes
<1>4. Placed'
  BY <1>3 DEF Placed
<1>5. SnapInv'
  <2>1. \A q \in Market : at'[q] >= at[q]
    BY <1>3
  <2> QED
    BY <1>2, <2>1, TablesRest DEF marketVars
<1> QED
  BY <1>2, <1>4, <1>5

---------------------------------------------------------------------------
\* Option chains. A run analyses in its second stage what it collected in its first
\* one, so that nothing writes a chain once it may be analysed; a symbol that is yet
\* to come has not been tried, so that no attempt exceeds the limit.
Fresh(r) ==
    at[r] <= 1 =>
        \A k \in DOMAIN Symbols :
            /\ k > step[r] => tried[r][Symbols[k]] = 0
            /\ k = step[r] /\ call[r] = "ready" => tried[r][Symbols[k]] < MaxAttempts
            /\ k = step[r] /\ call[r] # "ready" => tried[r][Symbols[k]] # 0

OptionPlaced(r) ==
    /\ step[r] >= 1
    /\ phase[r] = "stage" => at[r] >= 1
    /\ phase[r] = "new" => step[r] = 1

AnalysedRest == \A c \in analytics : c \in ChainRun /\ at[c[1]] >= 2 /\ Analysable(c)

OptionTypes ==
    /\ DOMAIN chain = ChainRun
    /\ tried \in [Options -> [Symbol -> 0..MaxAttempts]]
    /\ result \in [Options -> [Symbol -> 0..MaxAttempts]]
    /\ DOMAIN call = Options

ChainInv == OptionTypes /\ AnalysedRest /\ \A r \in Options : OptionPlaced(r) /\ Fresh(r)

LEMMA SymbolFacts ==
    /\ DOMAIN Symbols = 1..Len(Symbols) /\ Len(Symbols) \in Nat
    /\ \A k \in DOMAIN Symbols : Symbols[k] \in Symbol
BY SymbolsDiffer, LenProperties DEF Symbol

\* Chains and runs of the other pipelines are not in the way.
LEMMA ChainsRest ==
    ASSUME RunInv, ChainInv, RunTypes', UNCHANGED optionVars,
           \A q \in Options : phase'[q] = phase[q] /\ at'[q] = at[q] /\ step'[q] = step[q]
    PROVE  ChainInv'
<1>1. OptionTypes'
  BY DEF ChainInv, OptionTypes, optionVars
<1>2. AnalysedRest'
  BY DEF ChainInv, AnalysedRest, Analysable, ChainRun, optionVars
<1>3. \A q \in Options : OptionPlaced(q)' /\ Fresh(q)'
  BY DEF ChainInv, OptionPlaced, Fresh, optionVars
<1> QED
  BY <1>1, <1>2, <1>3 DEF ChainInv

LEMMA CurrentFacts ==
    ASSUME RunInv, ChainInv, NEW r \in Options, step[r] <= Len(Symbols)
    PROVE  step[r] \in DOMAIN Symbols /\ Current(r) \in Symbol
<1>1. step[r] \in Nat /\ step[r] >= 1
  BY PipelinesDiffer DEF RunInv, RunTypes, ChainInv, OptionPlaced
<1> QED
  BY <1>1, SymbolFacts DEF Current

\* While the first stage runs, chains of the run may change: none is analysed yet.
LEMMA CollectingRests ==
    ASSUME ChainInv, NEW r \in Options, at[r] = 1, UNCHANGED <<at, analytics>>,
           NEW s, NEW n,
           \/ UNCHANGED chain
           \/ (\E entry : chain' = [chain EXCEPT ![<<r, s, n>>] = entry])
    PROVE  DOMAIN chain' = ChainRun /\ AnalysedRest'
<1>1. DOMAIN chain' = ChainRun
  BY DEF ChainInv, OptionTypes
<1>2. ASSUME NEW c \in analytics PROVE c \in ChainRun /\ at'[c[1]] >= 2 /\ chain'[c] = chain[c]
  <2>1. c \in ChainRun /\ at[c[1]] >= 2
    BY DEF ChainInv, AnalysedRest
  <2>2. c # <<r, s, n>>
    BY <2>1
  <2> QED
    BY <2>1, <2>2 DEF ChainInv, OptionTypes
<1>3. AnalysedRest'
  BY <1>2 DEF ChainInv, AnalysedRest, Analysable, ChainRun
<1> QED
  BY <1>1, <1>3

LEMMA StartChainKeeps ==
    ASSUME RunInv, ChainInv, NEW r \in Options, StartChain(r)
    PROVE  ChainInv'
<1>1. /\ at[r] = 1 /\ step[r] <= Len(Symbols) /\ call[r] = "ready"
      /\ UNCHANGED <<phase, at, step, result, analytics>>
      /\ tried' = [tried EXCEPT ![r][Current(r)] = @ + 1]
      /\ \E c \in {"started", "error"} : call' = [call EXCEPT ![r] = c]
  BY DEF StartChain, Doing, InOptionStage, StaysInStage, Call
<1>2. step[r] \in DOMAIN Symbols /\ Current(r) \in Symbol
  BY <1>1, CurrentFacts
<1>3. tried[r][Current(r)] \in 0..MaxAttempts /\ tried[r][Current(r)] < MaxAttempts
  <2>1. tried[r][Current(r)] \in 0..MaxAttempts
    BY <1>2 DEF ChainInv, OptionTypes
  <2>2. Fresh(r) /\ at[r] <= 1
    BY <1>1 DEF ChainInv
  <2>3. tried[r][Current(r)] < MaxAttempts
    BY <1>1, <1>2, <2>2 DEF Fresh, Current
  <2> QED
    BY <2>1, <2>3
<1>4. tried[r][Current(r)] + 1 \in 0..MaxAttempts
  BY <1>3, AttemptsArePositive
<1>5. DOMAIN chain' = ChainRun /\ AnalysedRest'
  <2>1. \/ UNCHANGED chain
        \/ \E entry : chain' = [chain EXCEPT ![<<r, Current(r), tried[r][Current(r)] + 1>>] = entry]
    BY DEF StartChain
  <2> QED
    BY <1>1, <2>1, CollectingRests
<1>6. OptionTypes'
  BY <1>1, <1>2, <1>4, <1>5 DEF ChainInv, OptionTypes
<1>7. call'[r] # "ready" /\ \A q \in Options \ {r} : call'[q] = call[q] /\ tried'[q] = tried[q]
  BY <1>1 DEF ChainInv, OptionTypes
<1>8. \A k \in DOMAIN Symbols : k # step[r] => tried'[r][Symbols[k]] = tried[r][Symbols[k]]
  BY <1>1, <1>2, SymbolsDiffer, SymbolFacts DEF ChainInv, OptionTypes, Current
<1>9. ASSUME NEW q \in Options PROVE OptionPlaced(q)' /\ Fresh(q)'
  <2>1. OptionPlaced(q)'
    BY <1>1 DEF ChainInv, OptionPlaced
  <2>2. CASE q = r
    <3>1. step[r] \in Nat
      BY PipelinesDiffer DEF RunInv, RunTypes
    <3>2. \A k \in DOMAIN Symbols : k > step[r] => k # step[r]
      BY <3>1, SymbolFacts
    <3>3. tried'[r][Current(r)] = tried[r][Current(r)] + 1
      BY <1>1, <1>2 DEF ChainInv, OptionTypes
    <3>4. tried'[r][Symbols[step[r]]] # 0
      BY <1>3, <3>3 DEF Current
    <3> QED
      BY <1>1, <1>7, <1>8, <2>1, <2>2, <3>2, <3>4 DEF ChainInv, Fresh
  <2>3. CASE q # r
    BY <1>1, <1>7, <2>1, <2>3 DEF ChainInv, Fresh
  <2> QED
    BY <2>2, <2>3
<1> QED
  BY <1>5, <1>6, <1>9 DEF ChainInv

LEMMA AttemptKeeps ==
    ASSUME RunInv, ChainInv, NEW r \in Options, CollectRaises(r) \/ FailChain(r) \/ RetrySymbol(r)
    PROVE  ChainInv'
<1>1. /\ at[r] = 1 /\ step[r] <= Len(Symbols)
      /\ UNCHANGED <<phase, at, step, tried, result, analytics>>
  BY DEF CollectRaises, FailChain, RetrySymbol, Doing, InOptionStage, StaysInStage
<1>2. PICK c \in {"excepted", "error", "ready"} :
        /\ call' = [call EXCEPT ![r] = c] /\ call[r] # "ready"
        /\ c = "ready" => tried[r][Current(r)] < MaxAttempts
  BY DEF CollectRaises, FailChain, RetrySymbol, Doing, Call
<1>3. DOMAIN chain' = ChainRun /\ AnalysedRest'
  <2>1. \/ UNCHANGED chain
        \/ \E entry : chain' = [chain EXCEPT ![<<r, Current(r), tried[r][Current(r)]>>] = entry]
    BY DEF CollectRaises, FailChain, RetrySymbol, CompleteChainWithQuotes, ThisChain
  <2> QED
    BY <1>1, <2>1, CollectingRests
<1>4. OptionTypes'
  BY <1>1, <1>2, <1>3 DEF ChainInv, OptionTypes
<1>5. call'[r] = c /\ \A q \in Options \ {r} : call'[q] = call[q]
  BY <1>2 DEF ChainInv, OptionTypes
<1>6. ASSUME NEW q \in Options PROVE OptionPlaced(q)' /\ Fresh(q)'
  BY <1>1, <1>2, <1>5 DEF ChainInv, OptionPlaced, Fresh, Current
<1> QED
  BY <1>3, <1>4, <1>6 DEF ChainInv

\* The next symbol, whatever became of this one.
LEMMA NextKeeps ==
    ASSUME RunInv, ChainInv, NEW r \in Options, phase[r] = "stage", UNCHANGED <<phase, at, tried>>,
           NextSymbol(r), at[r] <= 1 => call'[r] = "ready", \A q \in Options \ {r} : call'[q] = call[q]
    PROVE  \A q \in Options : OptionPlaced(q)' /\ Fresh(q)'
<1>1. /\ step \in [Run -> Nat] /\ r \in Run /\ step[r] \in Nat /\ step[r] >= 1
      /\ \A q \in Options : OptionPlaced(q) /\ Fresh(q)
  BY PipelinesDiffer DEF RunInv, RunTypes, ChainInv, OptionPlaced
<1>2. step'[r] = step[r] + 1 /\ \A q \in Options \ {r} : step'[q] = step[q]
  BY <1>1, PipelinesDiffer DEF NextSymbol
<1>3. ASSUME NEW q \in Options, q # r PROVE OptionPlaced(q)' /\ Fresh(q)'
  BY <1>1, <1>2, <1>3 DEF OptionPlaced, Fresh
<1>4. OptionPlaced(r)'
  BY <1>1, <1>2 DEF OptionPlaced
<1>5. Fresh(r)'
  <2>1. ASSUME at[r] <= 1, NEW k \in DOMAIN Symbols, k >= step[r] + 1 PROVE tried[r][Symbols[k]] = 0
    BY <1>1, <2>1, SymbolFacts DEF Fresh
  <2>2. \A k \in DOMAIN Symbols : k \in Nat
    BY SymbolFacts
  <2> QED
    BY <1>1, <1>2, <2>1, <2>2, AttemptsArePositive DEF Fresh
<1> QED
  BY <1>3, <1>4, <1>5

LEMMA CollectedKeeps ==
    ASSUME RunInv, ChainInv, NEW r \in Options, CollectReturns(r)
    PROVE  ChainInv'
<1>1. /\ phase[r] = "stage" /\ at[r] = 1 /\ step[r] <= Len(Symbols)
      /\ UNCHANGED <<phase, at, tried, analytics>>
      /\ NextSymbol(r) /\ call' = [call EXCEPT ![r] = "ready"]
  BY DEF CollectReturns, Doing, InOptionStage, StaysInStage, Call
<1>2. Current(r) \in Symbol
  BY <1>1, CurrentFacts
<1>3. DOMAIN chain' = ChainRun /\ AnalysedRest'
  <2>1. \E entry : chain' = [chain EXCEPT ![<<r, Current(r), tried[r][Current(r)]>>] = entry]
    BY DEF CollectReturns, CompleteChainWithQuotes, ThisChain
  <2> QED
    BY <1>1, <2>1, CollectingRests
<1>4. OptionTypes'
  <2>1. tried[r][Current(r)] \in 0..MaxAttempts
    BY <1>2 DEF ChainInv, OptionTypes
  <2>2. result' = [result EXCEPT ![r][Current(r)] = tried[r][Current(r)]]
    BY DEF CollectReturns
  <2>3. result' \in [Options -> [Symbol -> 0..MaxAttempts]]
    BY <1>2, <2>1, <2>2 DEF ChainInv, OptionTypes
  <2> QED
    BY <1>1, <1>3, <2>3 DEF ChainInv, OptionTypes
<1>5. \A q \in Options : OptionPlaced(q)' /\ Fresh(q)'
  <2>1. call'[r] = "ready" /\ \A q \in Options \ {r} : call'[q] = call[q]
    BY <1>1 DEF ChainInv, OptionTypes
  <2> QED
    BY <1>1, <2>1, NextKeeps
<1> QED
  BY <1>3, <1>4, <1>5 DEF ChainInv

LEMMA GivingUpKeeps ==
    ASSUME RunInv, ChainInv, NEW r \in Options, GiveUpSymbol(r)
    PROVE  ChainInv'
<1>1. /\ phase[r] = "stage" /\ UNCHANGED <<phase, at, chain, tried, result, analytics>>
      /\ NextSymbol(r) /\ call' = [call EXCEPT ![r] = "ready"]
  BY DEF GiveUpSymbol, SymbolRaised, InOptionStage, StaysInStage, Call
<1>2. OptionTypes' /\ AnalysedRest'
  BY <1>1 DEF ChainInv, OptionTypes, AnalysedRest, Analysable, ChainRun
<1>3. call'[r] = "ready" /\ \A q \in Options \ {r} : call'[q] = call[q]
  BY <1>1 DEF ChainInv, OptionTypes
<1>4. \A q \in Options : OptionPlaced(q)' /\ Fresh(q)'
  BY <1>1, <1>3, NextKeeps
<1> QED
  BY <1>2, <1>4 DEF ChainInv

\* What is upserted is a chain that may be analysed.
LEMMA UpsertRests ==
    ASSUME RunInv, ChainInv, NEW r \in Options, Analysing(r), UNCHANGED <<at, chain, result>>,
           UNCHANGED analytics \/ UpsertAnalytics(r)
    PROVE  AnalysedRest'
<1>1. at[r] = 2 /\ step[r] <= Len(Symbols) /\ result[r][Current(r)] # 0
  BY DEF Analysing, InOptionStage
<1>2. Current(r) \in Symbol
  BY <1>1, CurrentFacts
<1>3. CASE UNCHANGED analytics
  BY <1>3 DEF ChainInv, AnalysedRest, Analysable, ChainRun
<1>4. CASE UpsertAnalytics(r)
  <2> DEFINE source == <<r, Current(r), result[r][Current(r)]>>
  <2>1. Analysable(source) /\ analytics' = analytics \union {source}
    BY <1>4 DEF UpsertAnalytics, Collection
  <2>2. result[r][Current(r)] \in 1..MaxAttempts
    BY <1>1, <1>2, AttemptsArePositive DEF ChainInv, OptionTypes
  <2>3. source \in ChainRun /\ source[1] = r
    BY <1>2, <2>2 DEF ChainRun
  <2>4. \A c \in analytics' : c \in ChainRun /\ at[c[1]] >= 2 /\ Analysable(c)
    BY <1>1, <2>1, <2>3 DEF ChainInv, AnalysedRest
  <2> QED
    BY <2>4 DEF AnalysedRest, Analysable, ChainRun
<1> QED
  BY <1>3, <1>4

LEMMA AnalysisKeeps ==
    ASSUME RunInv, ChainInv, NEW r \in Options, AnalyzeSymbol(r) \/ NothingToAnalyze(r)
    PROVE  ChainInv'
<1>1. /\ phase[r] = "stage" /\ at[r] = 2
      /\ UNCHANGED <<phase, at, chain, tried, call, result>> /\ NextSymbol(r)
  BY DEF AnalyzeSymbol, Analysing, NothingToAnalyze, InOptionStage, StaysInStage, optionVars
<1>2. OptionTypes'
  BY <1>1 DEF ChainInv, OptionTypes
<1>3. \A q \in Options : OptionPlaced(q)' /\ Fresh(q)'
  BY <1>1, NextKeeps
<1>4. AnalysedRest'
  <2>1. CASE AnalyzeSymbol(r)
    BY <1>1, <2>1, UpsertRests DEF AnalyzeSymbol
  <2>2. CASE NothingToAnalyze(r)
    BY <1>1, <2>2 DEF NothingToAnalyze, optionVars, ChainInv, AnalysedRest, Analysable, ChainRun
  <2> QED
    BY <2>1, <2>2
<1> QED
  BY <1>2, <1>3, <1>4 DEF ChainInv

LEMMA AnalysisErrorKeeps ==
    ASSUME RunInv, ChainInv, NEW r \in Options, AnalysisRaises(r)
    PROVE  ChainInv'
<1>1. /\ Analysing(r) /\ at[r] = 2 /\ call' = [call EXCEPT ![r] = "error"]
      /\ UNCHANGED <<phase, at, step, chain, tried, result>>
      /\ UNCHANGED analytics \/ UpsertAnalytics(r)
  BY DEF AnalysisRaises, Analysing, InOptionStage, StaysInStage, Call
<1>2. OptionTypes' /\ AnalysedRest'
  BY <1>1, UpsertRests DEF ChainInv, OptionTypes
<1>3. ASSUME NEW q \in Options PROVE OptionPlaced(q)' /\ Fresh(q)'
  <2>1. q # r => call'[q] = call[q]
    BY <1>1 DEF ChainInv, OptionTypes
  <2> QED
    BY <1>1, <2>1 DEF ChainInv, OptionPlaced, Fresh
<1> QED
  BY <1>2, <1>3 DEF ChainInv

\* Steps that leave the tables of the pipeline alone.
LEMMA StageKeeps ==
    ASSUME RunInv, ChainInv, NEW r \in Options, Moves(r), UNCHANGED optionVars,
           \/ phase[r] = "stage" /\ StageReturns(r, OptionStages)
           \/ StartPipeline(r)
           \/ phase'[r] \notin {"new", "stage"} /\ UNCHANGED <<at, step>>
    PROVE  ChainInv'
<1>1. /\ r \in Run /\ at \in [Run -> Nat] /\ step \in [Run -> Nat] /\ phase \in [Run -> Phases]
      /\ RowFits(row[r], phase[r], at[r])
      /\ \A q \in Options : OptionPlaced(q) /\ Fresh(q) /\ at[q] \in Nat
  BY PipelinesDiffer DEF RunInv, RunTypes, ChainInv
<1>2. \A q \in Options \ {r} : phase'[q] = phase[q] /\ at'[q] = at[q] /\ step'[q] = step[q]
  BY PipelinesDiffer DEF Moves
<1>3. UNCHANGED <<chain, tried, call, result, analytics>>
  BY DEF optionVars
<1>4. ASSUME at'[r] >= at[r], OptionPlaced(r)', Fresh(r)' PROVE ChainInv'
  <2>1. ASSUME NEW q \in Options PROVE OptionPlaced(q)' /\ Fresh(q)' /\ at'[q] >= at[q] /\ at'[q] \in Nat
    <3>1. at'[q] \in Nat
      BY PipelinesDiffer DEF Moves, RunTypes
    <3>2. CASE q = r
      BY <1>4, <3>1, <3>2
    <3>3. CASE q # r
      BY <1>1, <1>2, <1>3, <3>1, <3>3 DEF OptionPlaced, Fresh
    <3> QED
      BY <3>2, <3>3
  <2>2. OptionTypes'
    BY <1>3 DEF ChainInv, OptionTypes
  <2>3. AnalysedRest'
    <3>1. \A c \in analytics : c \in ChainRun /\ c[1] \in Options /\ at[c[1]] >= 2 /\ Analysable(c)
      BY DEF ChainInv, AnalysedRest, ChainRun
    <3>2. \A c \in analytics : at'[c[1]] >= 2
      BY <1>1, <2>1, <3>1
    <3> QED
      BY <1>3, <3>1, <3>2 DEF AnalysedRest, Analysable, ChainRun
  <2> QED
    BY <2>1, <2>2, <2>3 DEF ChainInv
<1>5. CASE phase[r] = "stage" /\ StageReturns(r, OptionStages)
  <2>1. at'[r] = at[r] + 1 /\ step'[r] = 1 /\ at[r] >= 1 /\ phase'[r] # "new"
    BY <1>1, <1>5 DEF StageReturns, NextStage, Goto, OptionPlaced
  <2>2. at'[r] >= 2 /\ at'[r] >= at[r]
    BY <1>1, <2>1
  <2>3. ~ at'[r] <= 1
    BY <1>1, <2>1
  <2>4. OptionPlaced(r)'
    <3>1. step'[r] >= 1 /\ at'[r] >= 1
      BY <1>1, <2>1
    <3> QED
      BY <2>1, <3>1 DEF OptionPlaced
  <2>5. Fresh(r)'
    BY <2>3 DEF Fresh
  <2> QED
    BY <1>4, <2>2, <2>4, <2>5
<1>6. CASE StartPipeline(r)
  <2>1. phase[r] = "new" /\ at[r] = 0 /\ step[r] = 1
    BY <1>1, <1>6 DEF StartPipeline, RowFits, OptionPlaced
  <2>2. at'[r] = 1 /\ step'[r] = 1 /\ phase'[r] = "stage"
    BY <1>1, <1>6, <2>1 DEF StartPipeline, NextStage, Goto
  <2>3. OptionPlaced(r)'
    BY <2>2 DEF OptionPlaced
  <2>4. Fresh(r)'
    BY <1>1, <1>3, <2>1, <2>2 DEF Fresh
  <2> QED
    BY <1>4, <2>1, <2>2, <2>3, <2>4
<1>7. CASE phase'[r] \notin {"new", "stage"} /\ UNCHANGED <<at, step>>
  <2>1. OptionPlaced(r)' /\ Fresh(r)'
    BY <1>1, <1>3, <1>7 DEF OptionPlaced, Fresh
  <2> QED
    BY <1>1, <1>4, <1>7, <2>1
<1> QED
  BY <1>5, <1>6, <1>7

LEMMA ChainsKeep ==
    ASSUME RunInv, ChainInv, NEW r \in Options, OptionStep(r)
    PROVE  ChainInv'
<1>1. r \in Run /\ Moves(r) /\ phase \in [Run -> Phases]
  BY OptionMoves, PipelinesDiffer DEF RunInv, RunTypes
<1>2. CASE StartChain(r)
  BY <1>2, StartChainKeeps
<1>3. CASE CollectRaises(r) \/ FailChain(r) \/ RetrySymbol(r)
  BY <1>3, AttemptKeeps
<1>4. CASE CollectReturns(r) \/ GiveUpSymbol(r)
  BY <1>4, CollectedKeeps, GivingUpKeeps
<1>5. CASE AnalyzeSymbol(r) \/ NothingToAnalyze(r) \/ AnalysisRaises(r)
  BY <1>5, AnalysisKeeps, AnalysisErrorKeeps
<1>6. CASE OptionStageEnds(r)
  BY <1>1, <1>6, StageKeeps DEF OptionStageEnds
<1>7. CASE FailureInsertRaises(r)
  <2>1. phase'[r] = "unwinding" /\ UNCHANGED <<at, step>> /\ UNCHANGED optionVars
    BY <1>1, <1>7 DEF FailureInsertRaises, CallFails, Unwind, Goto
  <2> QED
    BY <1>1, <2>1, StageKeeps
<1>8. CASE StartPipeline(r) /\ UNCHANGED optionVars
  BY <1>1, <1>8, StageKeeps
<1>9. CASE /\ \/ StartRaises(r) \/ StageRaises(r, OptionStages)
              \/ RecordFailure(r, OptionStages, FailedSymbol(r)) \/ FailRun(r) \/ CompleteRun(r) \/ CrashRun(r)
           /\ UNCHANGED optionVars
  <2>1. PICK p \in {"raised", "handling", "failing", "returned", "crashed"} : Goto(r, p) /\ UNCHANGED <<at, step>>
    BY <1>9 DEF StartRaises, StageRaises, RecordFailure, FailRun, CompleteRun, CrashRun
  <2>2. phase'[r] \notin {"new", "stage"}
    BY <1>1, <2>1 DEF Goto
  <2> QED
    BY <1>1, <1>9, <2>1, <2>2, StageKeeps
<1> QED
  BY <1>2, <1>3, <1>4, <1>5, <1>6, <1>7, <1>8, <1>9 DEF OptionStep

LEMMA ChainsBesideMarket ==
    ASSUME RunInv, ChainInv, NEW r \in Market, Moves(r), UNCHANGED optionVars
    PROVE  ChainInv'
<1>1. \A q \in Options : phase'[q] = phase[q] /\ at'[q] = at[q] /\ step'[q] = step[q]
  BY PipelinesDiffer DEF Moves
<1> QED
  BY <1>1, ChainsRest DEF Moves

---------------------------------------------------------------------------
\* What became of the symbols. The loops of the two stages settle one symbol after
\* the other; a run that leaves them otherwise than by their end is never COMPLETED.
Collected(r, s) == result[r][s] # 0 <=> ~ Failed(r, 1, s)
Untouched(r, s) == result[r][s] = 0 /\ ~ Failed(r, 1, s)
Uncertain(r, s) == <<r, s, result[r][s]>> \in analytics => faults # 0
Analysed(r, s) ==
    result[r][s] # 0 => /\ <<r, s, result[r][s]>> \in analytics \/ Failed(r, 2, s)
                        /\ Failed(r, 2, s) => Uncertain(r, s)
Unanalysed(r, s) == ~ Failed(r, 2, s) /\ \A n : <<r, s, n>> \notin analytics

\* The analysis of a symbol has raised: whether it was committed is not known.
Halfway(r, s) == ~ Failed(r, 2, s) /\ Uncertain(r, s)

CollectedBy(r, k) == IF at[r] >= 2 \/ k < step[r] THEN Collected(r, Symbols[k]) ELSE Untouched(r, Symbols[k])
AnalysedBy(r, k) ==
    IF at[r] >= 3 \/ (at[r] = 2 /\ k < step[r]) THEN Analysed(r, Symbols[k])
    ELSE IF at[r] = 2 /\ k = step[r] /\ call[r] = "error" THEN Halfway(r, Symbols[k])
    ELSE Unanalysed(r, Symbols[k])

InLoops(r) ==
    phase[r] \in {"new", "stage", "completing"} =>
        /\ phase[r] = "completing" => at[r] >= 3
        /\ phase[r] = "stage" => at[r] <= 2
        /\ \A k \in DOMAIN Symbols : CollectedBy(r, k) /\ AnalysedBy(r, k)

Settled(r) == row[r].status = "COMPLETED" => \A s \in Symbol : Collected(r, s) /\ Analysed(r, s)

AccountInv == faults \in Nat /\ DOMAIN failures = Run /\ \A r \in Options : InLoops(r) /\ Settled(r)

\* Calls that raised are counted, and the count never returns to zero.
FaultsStay == faults # 0 => faults' # 0

LEMMA Counting ==
    ASSUME faults \in Nat, UNCHANGED faults \/ faults' = faults + 1
    PROVE  faults' \in Nat /\ FaultsStay
BY DEF FaultsStay

LEMMA OptionCounts ==
    ASSUME NEW r \in Options, OptionStep(r)
    PROVE  UNCHANGED faults \/ faults' = faults + 1
<1>1. CASE StartPipeline(r) \/ StartRaises(r) \/ StageRaises(r, OptionStages)
           \/ RecordFailure(r, OptionStages, FailedSymbol(r)) \/ FailRun(r) \/ CompleteRun(r) \/ CrashRun(r)
  BY <1>1 DEF StartPipeline, StartRaises, StageRaises, PersistStageMetric, RecordFailure, FailRun, CompleteRun,
              WriteRaises, CrashRun
<1>2. CASE StartChain(r) \/ CollectReturns(r) \/ CollectRaises(r) \/ FailChain(r) \/ RetrySymbol(r) \/ GiveUpSymbol(r)
  BY <1>2 DEF StartChain, CollectReturns, CollectRaises, FailChain, RetrySymbol, GiveUpSymbol
<1>3. CASE AnalyzeSymbol(r) \/ AnalysisRaises(r) \/ NothingToAnalyze(r) \/ OptionStageEnds(r) \/ FailureInsertRaises(r)
  BY <1>3 DEF AnalyzeSymbol, AnalysisRaises, NothingToAnalyze, OptionStageEnds, StageReturns, PersistStageMetric,
              FailureInsertRaises, CallFails
<1> QED
  BY <1>1, <1>2, <1>3 DEF OptionStep

\* The books of a run change only with its own steps.
LEMMA BooksRest ==
    ASSUME NEW q, InLoops(q), Settled(q), FaultsStay,
           phase'[q] = phase[q], at'[q] = at[q], step'[q] = step[q], row'[q] = row[q],
           failures'[q] = failures[q], result'[q] = result[q], call'[q] = call[q],
           \A s, n : <<q, s, n>> \in analytics' <=> <<q, s, n>> \in analytics
    PROVE  InLoops(q)' /\ Settled(q)'
<1>1. \A s : /\ Collected(q, s)' <=> Collected(q, s)
             /\ Untouched(q, s)' <=> Untouched(q, s)
             /\ Analysed(q, s) => Analysed(q, s)'
             /\ Unanalysed(q, s)' <=> Unanalysed(q, s)
             /\ Halfway(q, s) => Halfway(q, s)'
  BY DEF Collected, Untouched, Analysed, Unanalysed, Halfway, Uncertain, Failed, FaultsStay
<1> QED
  BY <1>1 DEF InLoops, Settled, CollectedBy, AnalysedBy

\* What a step of a run leaves to the others.
LEMMA OthersRest ==
    ASSUME RunInv, ChainInv, AccountInv, NEW r \in Run, Moves(r), FaultsStay,
           NEW q \in Options, q # r, failures'[q] = failures[q], result'[q] = result[q], call'[q] = call[q],
           \/ UNCHANGED analytics
           \/ (\E s, n : analytics' = analytics \union {<<r, s, n>>})
    PROVE  InLoops(q)' /\ Settled(q)'
<1>1. phase'[q] = phase[q] /\ at'[q] = at[q] /\ step'[q] = step[q] /\ row'[q] = row[q]
  BY PipelinesDiffer DEF Moves
<1>2. \A s, n : <<q, s, n>> \in analytics' <=> <<q, s, n>> \in analytics
  OBVIOUS
<1> QED
  BY <1>1, <1>2, BooksRest DEF AccountInv

\* A run that is not over is not COMPLETED.
LEMMA Undecided ==
    ASSUME RunInv, NEW r \in Options, phase[r] \notin Over, row' = row
    PROVE  Settled(r)'
BY PipelinesDiffer DEF RunInv, RowFits, Settled, Final

\* A symbol is settled and the loop goes on to the next one.
LEMMA SymbolSettles ==
    ASSUME RunInv, ChainInv, AccountInv, NEW r \in Options, phase[r] = "stage", step[r] <= Len(Symbols),
           UNCHANGED <<phase, at, row>>, NextSymbol(r),
           \A k \in DOMAIN Symbols : k # step[r] =>
              /\ Collected(r, Symbols[k])' <=> Collected(r, Symbols[k])
              /\ Untouched(r, Symbols[k])' <=> Untouched(r, Symbols[k])
              /\ Analysed(r, Symbols[k]) => Analysed(r, Symbols[k])'
              /\ Unanalysed(r, Symbols[k])' <=> Unanalysed(r, Symbols[k]),
           NEW s, s = Current(r), Collected(r, s)',
           at[r] = 1 => Unanalysed(r, s)', at[r] = 2 => Analysed(r, s)'
    PROVE  InLoops(r)' /\ Settled(r)'
<1>1. /\ step \in [Run -> Nat] /\ r \in Run /\ at[r] \in Nat /\ step[r] \in Nat
      /\ at[r] = 1 \/ at[r] = 2
  <2>1. step \in [Run -> Nat] /\ r \in Run /\ at[r] \in Nat /\ step[r] \in Nat
    BY PipelinesDiffer DEF RunInv, RunTypes
  <2>2. at[r] >= 1 /\ at[r] <= 2
    BY DEF ChainInv, OptionPlaced, AccountInv, InLoops
  <2> QED
    BY <2>1, <2>2
<1>2. step'[r] = step[r] + 1 /\ at'[r] = at[r] /\ phase'[r] = "stage"
  BY <1>1 DEF NextSymbol
<1>3. ASSUME NEW k \in DOMAIN Symbols, k # step[r] PROVE CollectedBy(r, k)' /\ AnalysedBy(r, k)'
  <2>1. CollectedBy(r, k) /\ AnalysedBy(r, k)
    BY DEF AccountInv, InLoops
  <2>2. k \in Nat /\ (k < step[r] + 1 <=> k < step[r])
    BY <1>1, <1>3, SymbolFacts
  <2>3. CollectedBy(r, k)'
    BY <1>2, <1>3, <2>1, <2>2 DEF CollectedBy
  <2>4. CASE at[r] = 2 /\ k < step[r]
    BY <1>1, <1>2, <1>3, <2>1, <2>2, <2>3, <2>4 DEF AnalysedBy
  <2>5. CASE ~ (at[r] = 2 /\ k < step[r])
    <3>1. Unanalysed(r, Symbols[k])'
      BY <1>1, <1>3, <2>1, <2>5 DEF AnalysedBy
    <3>2. Halfway(r, Symbols[k])'
      BY <3>1 DEF Unanalysed, Halfway, Uncertain
    <3>3. ~ at[r] >= 3 /\ ~ (at'[r] = 2 /\ k < step'[r])
      BY <1>1, <1>2, <2>2, <2>5
    <3> QED
      BY <1>2, <2>3, <3>1, <3>2, <3>3 DEF AnalysedBy
  <2> QED
    BY <2>3, <2>4, <2>5
<1>4. step[r] \in DOMAIN Symbols /\ Current(r) = Symbols[step[r]]
  BY CurrentFacts DEF Current
<1>5. ASSUME NEW k \in DOMAIN Symbols, k = step[r] PROVE CollectedBy(r, k)' /\ AnalysedBy(r, k)'
  <2>1. k < step'[r] /\ Symbols[k] = s
    BY <1>1, <1>2, <1>4, <1>5
  <2>2. CollectedBy(r, k)'
    BY <2>1 DEF CollectedBy
  <2>3. AnalysedBy(r, k)'
    BY <1>1, <1>2, <2>1 DEF AnalysedBy
  <2> QED
    BY <2>2, <2>3
<1>6. InLoops(r)'
  BY <1>1, <1>2, <1>3, <1>5 DEF InLoops
<1>7. Settled(r)'
  BY Undecided DEF Over
<1> QED
  BY <1>6, <1>7

\* Where a symbol stands when its turn comes.
LEMMA TurnFacts ==
    ASSUME RunInv, ChainInv, AccountInv, NEW r \in Options, phase[r] = "stage", step[r] <= Len(Symbols)
    PROVE  /\ r \in Run /\ step[r] \in DOMAIN Symbols /\ Current(r) \in Symbol
           /\ \A k \in DOMAIN Symbols : k # step[r] => Symbols[k] # Current(r)
           /\ at[r] = 1 \/ at[r] = 2
           /\ at[r] = 1 => Untouched(r, Current(r)) /\ Unanalysed(r, Current(r))
           /\ at[r] = 2 => Collected(r, Current(r)) /\ Halfway(r, Current(r))
<1>1. step[r] \in DOMAIN Symbols /\ Current(r) \in Symbol /\ Current(r) = Symbols[step[r]]
  BY CurrentFacts DEF Current
<1>2. r \in Run /\ at[r] \in Nat /\ step[r] \in Nat
  BY PipelinesDiffer DEF RunInv, RunTypes
<1>3. at[r] >= 1 /\ at[r] <= 2 /\ CollectedBy(r, step[r]) /\ AnalysedBy(r, step[r])
  BY <1>1 DEF ChainInv, OptionPlaced, AccountInv, InLoops
<1>4. at[r] = 1 \/ at[r] = 2
  BY <1>2, <1>3
<1>5. ~ step[r] < step[r]
  BY <1>2
<1>6. at[r] = 1 => Untouched(r, Current(r)) /\ Unanalysed(r, Current(r))
  BY <1>1, <1>3, <1>5 DEF CollectedBy, AnalysedBy
<1>7. at[r] = 2 => Collected(r, Current(r)) /\ Halfway(r, Current(r))
  <2>1. at[r] = 2 => Halfway(r, Current(r)) \/ Unanalysed(r, Current(r))
    BY <1>1, <1>3, <1>5 DEF AnalysedBy
  <2>2. Unanalysed(r, Current(r)) => Halfway(r, Current(r))
    BY DEF Unanalysed, Halfway, Uncertain
  <2> QED
    BY <1>1, <1>3, <2>1, <2>2 DEF CollectedBy
<1>8. \A k \in DOMAIN Symbols : k # step[r] => Symbols[k] # Current(r)
  BY <1>1, SymbolsDiffer
<1> QED
  BY <1>1, <1>2, <1>4, <1>6, <1>7, <1>8

LEMMA CollectedBooks ==
    ASSUME RunInv, ChainInv, AccountInv, FaultsStay, NEW r \in Options, at[r] = 1,
           CollectReturns(r) \/ GiveUpSymbol(r)
    PROVE  InLoops(r)' /\ Settled(r)'
<1>1. /\ phase[r] = "stage" /\ step[r] <= Len(Symbols)
      /\ UNCHANGED <<phase, at, row, analytics>> /\ NextSymbol(r)
  BY DEF CollectReturns, GiveUpSymbol, SymbolRaised, Doing, InOptionStage, StaysInStage
<1>2. PICK s : s = Current(r)
  OBVIOUS
<1>3. /\ r \in Run /\ step[r] \in DOMAIN Symbols /\ s \in Symbol /\ Untouched(r, s) /\ Unanalysed(r, s)
      /\ \A k \in DOMAIN Symbols : k # step[r] => Symbols[k] # s
  BY <1>1, <1>2, TurnFacts
<1>4. ASSUME UNCHANGED failures \/ failures' = [failures EXCEPT ![r] = @ \union {[stage |-> OptionStages[1], symbol |-> s]}],
             UNCHANGED result \/ result' = [result EXCEPT ![r][s] = tried[r][s]],
             Collected(r, s)'
      PROVE  InLoops(r)' /\ Settled(r)'
  <2>1. OptionStages[1] # OptionStages[2]
    BY DEF OptionStages
  <2>2. \A t : /\ Failed(r, 2, t)' <=> Failed(r, 2, t)
               /\ t # s => (Failed(r, 1, t)' <=> Failed(r, 1, t))
    BY <1>3, <1>4, <2>1 DEF Failed, AccountInv
  <2>3. \A k \in DOMAIN Symbols : k # step[r] => result'[r][Symbols[k]] = result[r][Symbols[k]]
    BY <1>3, <1>4, SymbolFacts DEF ChainInv, OptionTypes
  <2>4. Unanalysed(r, s)'
    BY <1>1, <1>3, <2>2 DEF Unanalysed
  <2>5. ASSUME NEW k \in DOMAIN Symbols, k # step[r]
        PROVE  /\ Collected(r, Symbols[k])' <=> Collected(r, Symbols[k])
               /\ Untouched(r, Symbols[k])' <=> Untouched(r, Symbols[k])
               /\ Analysed(r, Symbols[k]) => Analysed(r, Symbols[k])'
               /\ Unanalysed(r, Symbols[k])' <=> Unanalysed(r, Symbols[k])
    <3>1. Symbols[k] # s /\ result'[r][Symbols[k]] = result[r][Symbols[k]]
      BY <1>3, <2>3, <2>5
    <3> QED
      BY <1>1, <2>2, <3>1 DEF Collected, Untouched, Analysed, Unanalysed, Uncertain, FaultsStay
  <2> QED
    BY <1>1, <1>2, <1>4, <2>4, <2>5, SymbolSettles
<1>5. CASE CollectReturns(r)
  <2>1. UNCHANGED failures /\ result' = [result EXCEPT ![r][s] = tried[r][s]]
    BY <1>2, <1>5 DEF CollectReturns
  <2>2. result'[r][s] = tried[r][s]
    BY <1>3, <2>1 DEF ChainInv, OptionTypes
  <2>3. tried[r][s] # 0
    BY <1>2, <1>3, <1>5 DEF ChainInv, Fresh, CollectReturns, Doing, Current
  <2>4. Collected(r, s)'
    BY <1>3, <2>1, <2>2, <2>3 DEF Collected, Untouched, Failed
  <2> QED
    BY <1>4, <2>1, <2>4
<1>6. CASE GiveUpSymbol(r)
  <2>1. /\ UNCHANGED result
        /\ failures' = [failures EXCEPT ![r] = @ \union {[stage |-> OptionStages[1], symbol |-> s]}]
    BY <1>2, <1>6 DEF GiveUpSymbol, SymbolFailure, InsertFailure
  <2>2. Collected(r, s)'
    BY <1>3, <2>1 DEF Collected, Untouched, Failed, AccountInv
  <2> QED
    BY <1>4, <2>1, <2>2
<1> QED
  BY <1>5, <1>6

LEMMA AnalysedBooks ==
    ASSUME RunInv, ChainInv, AccountInv, FaultsStay, NEW r \in Options, at[r] = 2,
           AnalyzeSymbol(r) \/ NothingToAnalyze(r) \/ GiveUpSymbol(r)
    PROVE  InLoops(r)' /\ Settled(r)'
<1>1. /\ phase[r] = "stage" /\ step[r] <= Len(Symbols)
      /\ UNCHANGED <<phase, at, row, result>> /\ NextSymbol(r)
  BY DEF AnalyzeSymbol, Analysing, NothingToAnalyze, GiveUpSymbol, SymbolRaised, InOptionStage, StaysInStage, optionVars
<1>2. PICK s : s = Current(r)
  OBVIOUS
<1>3. /\ r \in Run /\ step[r] \in DOMAIN Symbols /\ s \in Symbol /\ Collected(r, s) /\ Halfway(r, s)
      /\ \A k \in DOMAIN Symbols : k # step[r] => Symbols[k] # s
  BY <1>1, <1>2, TurnFacts
<1>4. ASSUME UNCHANGED failures \/ failures' = [failures EXCEPT ![r] = @ \union {[stage |-> OptionStages[2], symbol |-> s]}],
             UNCHANGED analytics \/ analytics' = analytics \union {<<r, s, result[r][s]>>},
             Analysed(r, s)'
      PROVE  InLoops(r)' /\ Settled(r)'
  <2>1. OptionStages[1] # OptionStages[2]
    BY DEF OptionStages
  <2>2. \A t : /\ Failed(r, 1, t)' <=> Failed(r, 1, t)
               /\ t # s => (Failed(r, 2, t)' <=> Failed(r, 2, t))
    BY <1>3, <1>4, <2>1 DEF Failed, AccountInv
  <2>3. \A t, n : t # s => (<<r, t, n>> \in analytics' <=> <<r, t, n>> \in analytics)
    BY <1>4
  <2>4. Collected(r, s)'
    BY <1>1, <1>3, <2>2 DEF Collected
  <2>5. ASSUME NEW k \in DOMAIN Symbols, k # step[r]
        PROVE  /\ Collected(r, Symbols[k])' <=> Collected(r, Symbols[k])
               /\ Untouched(r, Symbols[k])' <=> Untouched(r, Symbols[k])
               /\ Analysed(r, Symbols[k]) => Analysed(r, Symbols[k])'
               /\ Unanalysed(r, Symbols[k])' <=> Unanalysed(r, Symbols[k])
    <3>1. Symbols[k] # s
      BY <1>3, <2>5
    <3> QED
      BY <1>1, <2>2, <2>3, <3>1 DEF Collected, Untouched, Analysed, Unanalysed, Uncertain, FaultsStay
  <2> QED
    BY <1>1, <1>2, <2>4, <2>5, <1>4, SymbolSettles
<1>5. CASE AnalyzeSymbol(r)
  <2>1. UNCHANGED failures /\ analytics' = analytics \union {<<r, s, result[r][s]>>}
    BY <1>2, <1>5 DEF AnalyzeSymbol, UpsertAnalytics, Collection
  <2>2. Analysed(r, s)'
    BY <1>1, <1>3, <2>1 DEF Analysed, Halfway, Failed
  <2> QED
    BY <1>4, <2>1, <2>2
<1>6. CASE NothingToAnalyze(r)
  <2>1. UNCHANGED <<failures, analytics>> /\ result[r][s] = 0
    BY <1>2, <1>6 DEF NothingToAnalyze, optionVars
  <2>2. Analysed(r, s)'
    BY <1>1, <2>1 DEF Analysed
  <2> QED
    BY <1>4, <2>1, <2>2
<1>7. CASE GiveUpSymbol(r)
  <2>1. /\ UNCHANGED <<analytics, faults>>
        /\ failures' = [failures EXCEPT ![r] = @ \union {[stage |-> OptionStages[2], symbol |-> s]}]
    BY <1>2, <1>7 DEF GiveUpSymbol, SymbolFailure, InsertFailure
  <2>2. Failed(r, 2, s)' /\ Uncertain(r, s)'
    BY <1>1, <1>3, <2>1 DEF Failed, Halfway, Uncertain, AccountInv
  <2> QED
    BY <1>4, <2>1, <2>2 DEF Analysed
<1> QED
  BY <1>5, <1>6, <1>7

\* The analysis of a symbol raises: its row may be there, and then that is counted.
LEMMA HalfwayBooks ==
    ASSUME RunInv, ChainInv, AccountInv, NEW r \in Options, AnalysisRaises(r)
    PROVE  InLoops(r)' /\ Settled(r)'
<1>1. /\ phase[r] = "stage" /\ at[r] = 2 /\ step[r] <= Len(Symbols) /\ call'[r] = "error"
      /\ UNCHANGED <<phase, at, step, row, result, failures>>
  BY DEF AnalysisRaises, Analysing, InOptionStage, StaysInStage, Call, ChainInv, OptionTypes
<1>2. PICK s : s = Current(r)
  OBVIOUS
<1>3. /\ r \in Run /\ step[r] \in DOMAIN Symbols /\ s \in Symbol /\ Halfway(r, s)
      /\ \A k \in DOMAIN Symbols : k # step[r] => Symbols[k] # s
  BY <1>1, <1>2, TurnFacts
<1>4. \/ UNCHANGED <<analytics, faults>>
      \/ faults' # 0 /\ analytics' = analytics \union {<<r, s, result[r][s]>>}
  BY <1>2 DEF AnalysisRaises, UpsertAnalytics, Collection, AccountInv
<1>5. FaultsStay
  BY <1>4 DEF FaultsStay
<1>6. Halfway(r, s)'
  BY <1>1, <1>3, <1>4 DEF Halfway, Uncertain, Failed
<1>7. \A t, n : t # s => (<<r, t, n>> \in analytics' <=> <<r, t, n>> \in analytics)
  BY <1>4
<1>8. ASSUME NEW k \in DOMAIN Symbols PROVE CollectedBy(r, k)' /\ AnalysedBy(r, k)'
  <2>1. CollectedBy(r, k) /\ AnalysedBy(r, k)
    BY <1>1 DEF AccountInv, InLoops
  <2>2. CollectedBy(r, k)'
    BY <1>1, <2>1 DEF CollectedBy, Collected, Untouched, Failed
  <2>3. CASE k = step[r]
    <3>1. ~ k < step[r]
      BY <1>3, <2>3 DEF RunInv, RunTypes
    <3>2. Symbols[k] = s
      BY <1>2, <2>3 DEF Current
    <3> QED
      BY <1>1, <1>6, <2>2, <2>3, <3>1, <3>2 DEF AnalysedBy
  <2>4. CASE k # step[r]
    <3>1. Symbols[k] # s
      BY <1>3, <2>4
    <3>2. /\ Analysed(r, Symbols[k]) => Analysed(r, Symbols[k])'
          /\ Unanalysed(r, Symbols[k]) => Unanalysed(r, Symbols[k])'
      BY <1>1, <1>5, <1>7, <3>1 DEF Analysed, Unanalysed, Uncertain, Failed, FaultsStay
    <3> QED
      BY <1>1, <2>1, <2>2, <2>4, <3>2 DEF AnalysedBy
  <2> QED
    BY <2>3, <2>4
<1>9. InLoops(r)'
  BY <1>1, <1>8 DEF AccountInv, InLoops
<1>10. Settled(r)'
  BY <1>1, Undecided DEF Over
<1> QED
  BY <1>9, <1>10

\* The ways out of a stage that leave the books as they are.
LEMMA BooksStand ==
    ASSUME RunInv, ChainInv, AccountInv, FaultsStay, NEW r \in Options, Moves(r), UNCHANGED <<failures, result, analytics>>,
           \/ OptionStageEnds(r)
           \/ StartPipeline(r)
           \/ CompleteRun(r)
           \/ /\ phase'[r] \notin {"new", "stage", "completing"}
              /\ row'[r].status # "COMPLETED"
           \/ phase[r] = "stage" /\ at[r] = 1 /\ UNCHANGED <<phase, at, step, row>>
    PROVE  InLoops(r)' /\ Settled(r)'
<1>1. /\ r \in Run /\ at \in [Run -> Nat] /\ step \in [Run -> Nat] /\ phase \in [Run -> Phases]
      /\ row \in [Run -> [status : Statuses, dated : BOOLEAN]]
      /\ at[r] \in Nat /\ step[r] \in Nat
      /\ RowFits(row[r], phase[r], at[r]) /\ InLoops(r) /\ Settled(r) /\ OptionPlaced(r)
  BY PipelinesDiffer DEF RunInv, RunTypes, ChainInv, AccountInv
<1>2. \A s : /\ Collected(r, s)' <=> Collected(r, s)
             /\ Untouched(r, s)' <=> Untouched(r, s)
             /\ Analysed(r, s) => Analysed(r, s)'
             /\ Unanalysed(r, s)' <=> Unanalysed(r, s)
             /\ Unanalysed(r, s) => Halfway(r, s)
  BY DEF Collected, Untouched, Analysed, Unanalysed, Halfway, Uncertain, Failed, FaultsStay
<1>3. CASE OptionStageEnds(r)
  <2>1. /\ phase[r] = "stage" /\ step[r] > Len(Symbols) /\ row' = row
        /\ at'[r] = at[r] + 1 /\ step'[r] = 1
        /\ phase'[r] = IF at[r] = 2 THEN "completing" ELSE "stage"
    BY <1>1, <1>3 DEF OptionStageEnds, StageReturns, NextStage, Goto, OptionStages
  <2>2. at[r] = 1 \/ at[r] = 2
    <3>1. at[r] >= 1
      BY <1>1, <2>1 DEF OptionPlaced
    <3>2. at[r] <= 2
      BY <1>1, <2>1 DEF InLoops
    <3>3. at[r] \in Nat
      BY <1>1
    <3> QED
      BY <3>1, <3>2, <3>3
  <2>3. ASSUME NEW k \in DOMAIN Symbols PROVE CollectedBy(r, k)' /\ AnalysedBy(r, k)'
    <3>1. k < step[r] /\ ~ k < 1
      BY <1>1, <2>1, SymbolFacts
    <3>2. CollectedBy(r, k) /\ AnalysedBy(r, k)
      BY <1>1, <2>1 DEF InLoops
    <3>3. Collected(r, Symbols[k]) /\ (at[r] = 1 => Unanalysed(r, Symbols[k])) /\ (at[r] = 2 => Analysed(r, Symbols[k]))
      BY <2>2, <3>1, <3>2 DEF CollectedBy, AnalysedBy
    <3>4. CASE at[r] = 1
      <4>1. at'[r] = 2
        BY <2>1, <3>4
      <4>2. Unanalysed(r, Symbols[k])' /\ Halfway(r, Symbols[k])'
        BY <1>2, <3>3, <3>4 DEF Unanalysed, Halfway, Uncertain
      <4> QED
        BY <1>2, <2>1, <3>1, <3>3, <3>4, <4>1, <4>2 DEF CollectedBy, AnalysedBy
    <3>5. CASE at[r] = 2
      <4>1. at'[r] = 3
        BY <2>1, <3>5
      <4> QED
        BY <1>2, <2>1, <3>3, <3>5, <4>1 DEF CollectedBy, AnalysedBy
    <3> QED
      BY <2>2, <3>4, <3>5
  <2>4. InLoops(r)'
    BY <2>1, <2>2, <2>3 DEF InLoops
  <2>5. Settled(r)'
    BY <2>1, Undecided DEF Over
  <2> QED
    BY <2>4, <2>5
<1>4. CASE StartPipeline(r)
  <2>1. phase[r] = "new" /\ at[r] = 0 /\ step[r] = 1
    BY <1>1, <1>4 DEF StartPipeline, RowFits, OptionPlaced
  <2>2. at'[r] = 1 /\ step'[r] = 1 /\ phase'[r] = "stage" /\ row'[r].status # "COMPLETED"
    BY <1>1, <1>4, <2>1 DEF StartPipeline, StartRunRow, NextStage, Goto
  <2>3. \A k \in DOMAIN Symbols : CollectedBy(r, k)' /\ AnalysedBy(r, k)'
    BY <1>1, <1>2, <2>1, <2>2 DEF InLoops, CollectedBy, AnalysedBy
  <2>4. InLoops(r)'
    BY <2>2, <2>3 DEF InLoops
  <2> QED
    BY <2>2, <2>4 DEF Settled
<1>5. CASE CompleteRun(r)
  <2>1. phase[r] = "completing" /\ phase'[r] \in {"returned", "raised"}
    BY <1>1, <1>5 DEF CompleteRun, Goto
  <2>2. at[r] >= 3 /\ at[r] >= 2
    BY <1>1, <2>1 DEF InLoops
  <2>3. ASSUME NEW s \in Symbol PROVE Collected(r, s) /\ Analysed(r, s)
    <3>1. PICK k \in DOMAIN Symbols : s = Symbols[k]
      BY DEF Symbol
    <3>2. CollectedBy(r, k) /\ AnalysedBy(r, k)
      BY <1>1, <2>1 DEF InLoops
    <3> QED
      BY <2>2, <3>1, <3>2 DEF CollectedBy, AnalysedBy
  <2> QED
    BY <1>2, <2>1, <2>3 DEF InLoops, Settled
<1>6. CASE phase'[r] \notin {"new", "stage", "completing"} /\ row'[r].status # "COMPLETED"
  BY <1>6 DEF InLoops, Settled
<1>7. CASE phase[r] = "stage" /\ at[r] = 1 /\ UNCHANGED <<phase, at, step, row>>
  <2>1. \A k \in DOMAIN Symbols : CollectedBy(r, k)' /\ AnalysedBy(r, k)'
    BY <1>1, <1>2, <1>7 DEF InLoops, CollectedBy, AnalysedBy
  <2> QED
    BY <1>1, <1>7, <2>1, Undecided DEF InLoops, Over
<1> QED
  BY <1>3, <1>4, <1>5, <1>6, <1>7

LEMMA BooksKeep ==
    ASSUME RunInv, ChainInv, AccountInv, NEW r \in Options, OptionStep(r)
    PROVE  AccountInv'
<1>0. faults' \in Nat /\ FaultsStay
  BY OptionCounts, Counting DEF AccountInv
<1>1. r \in Run /\ Moves(r) /\ phase \in [Run -> Phases] /\ row \in [Run -> [status : Statuses, dated : BOOLEAN]]
  BY OptionMoves, PipelinesDiffer DEF RunInv, RunTypes
<1>2. InLoops(r)' /\ Settled(r)'
  <2>1. CASE StartChain(r) \/ CollectRaises(r) \/ FailChain(r) \/ RetrySymbol(r)
    <3>1. /\ phase[r] = "stage" /\ at[r] = 1 /\ UNCHANGED <<phase, at, step, row>>
          /\ UNCHANGED <<failures, result, analytics>>
      BY <2>1 DEF StartChain, CollectRaises, FailChain, RetrySymbol, Doing, InOptionStage, StaysInStage
    <3> QED
      BY <1>0, <1>1, <3>1, BooksStand
  <2>2. CASE CollectReturns(r)
    <3>1. at[r] = 1
      BY <2>2 DEF CollectReturns, Doing, InOptionStage
    <3> QED
      BY <1>0, <2>2, <3>1, CollectedBooks
  <2>3. CASE AnalyzeSymbol(r) \/ NothingToAnalyze(r)
    <3>1. at[r] = 2
      BY <2>3 DEF AnalyzeSymbol, Analysing, NothingToAnalyze, InOptionStage
    <3> QED
      BY <1>0, <2>3, <3>1, AnalysedBooks
  <2>11. CASE GiveUpSymbol(r)
    <3>1. at[r] = 1 \/ at[r] = 2
      BY <2>11, TurnFacts DEF GiveUpSymbol, SymbolRaised, InOptionStage
    <3> QED
      BY <1>0, <2>11, <3>1, CollectedBooks, AnalysedBooks
  <2>12. CASE AnalysisRaises(r)
    BY <2>12, HalfwayBooks
  <2>4. CASE OptionStageEnds(r)
    <3>1. UNCHANGED <<failures, result, analytics>>
      BY <2>4 DEF OptionStageEnds, optionVars
    <3> QED
      BY <1>0, <1>1, <2>4, <3>1, BooksStand
  <2>5. ASSUME phase[r] \notin Over, row' = row, phase'[r] \notin {"new", "stage", "completing"}
        PROVE  InLoops(r)' /\ Settled(r)'
    BY <2>5, Undecided DEF InLoops
  <2>6. CASE FailureInsertRaises(r)
    BY <1>1, <2>5, <2>6 DEF FailureInsertRaises, CallFails, Unwind, Goto, Over
  <2>7. CASE StartPipeline(r) /\ UNCHANGED optionVars
    BY <1>0, <1>1, <2>7, BooksStand DEF StartPipeline, optionVars
  <2>8. CASE CompleteRun(r) /\ UNCHANGED optionVars
    BY <1>0, <1>1, <2>8, BooksStand DEF CompleteRun, optionVars
  <2>9. CASE StageRaises(r, OptionStages) \/ RecordFailure(r, OptionStages, FailedSymbol(r)) \/ CrashRun(r)
    BY <1>1, <2>5, <2>9 DEF StageRaises, RecordFailure, CrashRun, Goto, Over
  <2>10. CASE StartRaises(r) \/ FailRun(r)
    <3>1. phase[r] \notin Over /\ phase'[r] = "raised"
      BY <1>1, <2>10 DEF StartRaises, FailRun, Goto, Over
    <3>2. CASE row' = row
      BY <2>5, <3>1, <3>2
    <3>3. CASE row'[r].status \in {"RUNNING", "FAILED"}
      BY <3>1, <3>3 DEF InLoops, Settled
    <3> QED
      BY <1>1, <2>10, <3>2, <3>3 DEF StartRaises, StartRunRow, FailRun, WriteRaises, WriteStatus
  <2> QED
    BY <2>1, <2>2, <2>3, <2>4, <2>6, <2>7, <2>8, <2>9, <2>10, <2>11, <2>12 DEF OptionStep
<1>3. /\ \/ failures' = failures
         \/ \E f : failures' = [failures EXCEPT ![r] = f]
      /\ \/ result' = result
         \/ \E f : result' = [result EXCEPT ![r] = f]
      /\ \/ call' = call
         \/ \E c : call' = [call EXCEPT ![r] = c]
      /\ \/ UNCHANGED analytics
         \/ \E s, n : analytics' = analytics \union {<<r, s, n>>}
  <2>1. CASE StartChain(r) \/ CollectRaises(r) \/ FailChain(r) \/ RetrySymbol(r) \/ NothingToAnalyze(r)
             \/ OptionStageEnds(r) \/ FailureInsertRaises(r)
    BY <2>1 DEF StartChain, CollectRaises, FailChain, RetrySymbol, NothingToAnalyze, OptionStageEnds,
                FailureInsertRaises, optionVars, Call
  <2>2. CASE CollectReturns(r)
    <3>1. UNCHANGED <<failures, analytics>>
      BY <2>2 DEF CollectReturns
    <3>2. result' = [result EXCEPT ![r][Current(r)] = tried[r][Current(r)]] /\ call' = [call EXCEPT ![r] = "ready"]
      BY <2>2 DEF CollectReturns, Call
    <3> QED
      BY <3>1, <3>2
  <2>3. CASE GiveUpSymbol(r)
    BY <2>3 DEF GiveUpSymbol, SymbolFailure, InsertFailure, Call
  <2>4. CASE AnalyzeSymbol(r) \/ AnalysisRaises(r)
    BY <2>4 DEF AnalyzeSymbol, AnalysisRaises, UpsertAnalytics, Collection, Call
  <2>5. CASE /\ \/ StartPipeline(r) \/ StartRaises(r) \/ StageRaises(r, OptionStages)
                \/ RecordFailure(r, OptionStages, FailedSymbol(r)) \/ FailRun(r) \/ CompleteRun(r) \/ CrashRun(r)
             /\ UNCHANGED optionVars
    BY <2>5 DEF StartPipeline, StartRaises, StageRaises, RecordFailure, InsertFailure, FailRun, CompleteRun,
                CrashRun, optionVars
  <2> QED
    BY <2>1, <2>2, <2>3, <2>4, <2>5 DEF OptionStep
<1>4. \A q \in Options \ {r} : failures'[q] = failures[q] /\ result'[q] = result[q] /\ call'[q] = call[q]
  BY <1>3, PipelinesDiffer DEF AccountInv, ChainInv, OptionTypes
<1>5. \A q \in Options \ {r} : InLoops(q)' /\ Settled(q)'
  BY <1>0, <1>1, <1>3, <1>4, OthersRest
<1>6. DOMAIN failures' = Run
  BY <1>3 DEF AccountInv
<1> QED
  BY <1>0, <1>2, <1>5, <1>6 DEF AccountInv

LEMMA BooksBesideMarket ==
    ASSUME RunInv, ChainInv, AccountInv, NEW r \in Market, MarketStep(r), Moves(r), UNCHANGED optionVars
    PROVE  AccountInv'
<1>1. UNCHANGED failures \/ \E f : failures' = [failures EXCEPT ![r] = f]
  <2>1. CASE MarketCommon(r)
    BY <2>1 DEF MarketCommon, StartPipeline, StartRaises, StageRaises, RecordFailure, InsertFailure, FailRun,
                CompleteRun, CrashRun
  <2>2. CASE ~ MarketCommon(r)
    BY <2>2 DEF MarketStep, MarketCommon, PassThrough, FetchBatch, SaveQuotes, NothingCollected, ReadLatestBatch,
                BatchDisagrees, StartSnapshots, InsertSnapshots, CompleteSnapshots, InsertFeatures,
                CompleteFeatures, MarketCallFails, MarketStageEnds, Step, RaiseHere
  <2> QED
    BY <2>1, <2>2
<1>2. UNCHANGED <<result, call, analytics>>
  BY DEF optionVars
<1>3. \A q \in Options : failures'[q] = failures[q] /\ result'[q] = result[q] /\ q # r
  BY <1>1, <1>2, PipelinesDiffer DEF AccountInv
<1>4. faults' \in Nat /\ FaultsStay
  <2>1. CASE MarketCommon(r)
    BY <2>1, Counting DEF MarketCommon, StartPipeline, StartRaises, StageRaises, PersistStageMetric, RecordFailure,
                FailRun, CompleteRun, WriteRaises, CrashRun, AccountInv
  <2>2. CASE ~ MarketCommon(r)
    BY <2>2, Counting DEF MarketStep, MarketCommon, PassThrough, FetchBatch, SaveQuotes, NothingCollected,
                ReadLatestBatch, BatchDisagrees, StartSnapshots, InsertSnapshots, CompleteSnapshots, InsertFeatures,
                CompleteFeatures, MarketCallFails, CallFails, MarketStageEnds, StageReturns, PersistStageMetric,
                Step, RaiseHere, AccountInv
  <2> QED
    BY <2>1, <2>2
<1>5. \A q \in Options : InLoops(q)' /\ Settled(q)'
  BY <1>2, <1>3, <1>4, OthersRest, PipelinesDiffer
<1> QED
  BY <1>1, <1>4, <1>5 DEF AccountInv

---------------------------------------------------------------------------
\* Gap repairs. A gap is scheduled when and only when it has its job, and the job
\* has its work unless a call stands, or died, between the two transactions.
GapStatuses == {"none", "OPEN", "REPAIR_SCHEDULED"}
Backed(k) ==
    /\ gaps[k] = "REPAIR_SCHEDULED" <=> k \in repairs
    /\ work[k] # "none" => k \in repairs
    /\ k \in repairs /\ work[k] = "none" => k \in lost \/ \E r \in Repairer : k \in repairing[r].doing

GapTypes ==
    /\ gaps \in [Interval -> GapStatuses]
    /\ work \in [Interval -> {"none", "PENDING", "COMPLETED"}]
    /\ repairing \in [Repairer -> [left : SUBSET Interval, doing : SUBSET Interval]]
    /\ checking \in [Checker -> SUBSET Interval]

\* A call schedules the work of one repair at a time, and only of one it created.
OneAtATime ==
    \A r \in Repairer : /\ repairing[r].doing \subseteq repairs
                        /\ \A j, k \in repairing[r].doing : j = k

GapInv == GapTypes /\ OneAtATime /\ RepairsAreBacked

LEMMA GapInitially == GapInit => GapInv
BY DEF GapInit, GapInv, GapTypes, OneAtATime, RepairsAreBacked, GapStatuses

LEMMA ArrivalKeeps == ASSUME GapInv, NEW k \in Interval, BarArrives(k) PROVE GapInv'
<1>1. GapTypes' BY DEF GapInv, GapTypes, BarArrives
<1>2. \A j \in Interval : work'[j] = "none" <=> work[j] = "none"
  BY DEF GapInv, GapTypes, BarArrives
<1>3. OneAtATime' BY DEF GapInv, OneAtATime, BarArrives
<1>4. RepairsAreBacked' BY <1>2 DEF GapInv, RepairsAreBacked, BarArrives
<1> QED BY <1>1, <1>3, <1>4 DEF GapInv

LEMMA CheckKeeps == ASSUME GapInv, NEW c \in Checker, DetectGaps(c) \/ InsertGap(c) PROVE GapInv'
<1>1. GapTypes'
  <2>1. CASE DetectGaps(c) BY <2>1 DEF GapInv, GapTypes, DetectGaps
  <2>2. CASE InsertGap(c) BY <2>2 DEF GapInv, GapTypes, InsertGap, GapStatuses
  <2> QED BY <2>1, <2>2
<1>2. UNCHANGED <<repairs, work, repairing, lost>> BY DEF DetectGaps, InsertGap
<1>3. \A k \in Interval : gaps'[k] = "REPAIR_SCHEDULED" <=> gaps[k] = "REPAIR_SCHEDULED"
  <2>1. CASE DetectGaps(c) BY <2>1 DEF DetectGaps
  <2>2. CASE InsertGap(c) BY <2>2 DEF GapInv, GapTypes, InsertGap
  <2> QED BY <2>1, <2>2
<1>4. OneAtATime' BY <1>2 DEF GapInv, OneAtATime
<1>5. RepairsAreBacked' BY <1>2, <1>3 DEF GapInv, RepairsAreBacked
<1> QED BY <1>1, <1>4, <1>5 DEF GapInv

LEMMA OpeningKeeps == ASSUME GapInv, NEW r \in Repairer, OpenGaps(r) PROVE GapInv'
<1>1. PICK read \in SUBSET Interval : repairing' = [repairing EXCEPT ![r].left = read]
  BY DEF OpenGaps
<1>2. UNCHANGED <<gaps, repairs, work, checking, lost>> BY DEF OpenGaps
<1>3. \A s \in Repairer : repairing'[s].doing = repairing[s].doing
  BY <1>1 DEF GapInv, GapTypes
<1>4. GapTypes' BY <1>1, <1>2 DEF GapInv, GapTypes
<1>5. OneAtATime' BY <1>2, <1>3 DEF GapInv, OneAtATime
<1>6. RepairsAreBacked' BY <1>2, <1>3 DEF GapInv, RepairsAreBacked
<1> QED BY <1>4, <1>5, <1>6 DEF GapInv

LEMMA CreationKeeps == ASSUME GapInv, NEW r \in Repairer, CreateRepair(r) PROVE GapInv'
<1>1. PICK k \in repairing[r].left :
        /\ repairing' = [repairing EXCEPT ![r] = [left |-> @.left \ {k}, doing |-> {k} \ repairs]]
        /\ repairs' = repairs \union {k}
        /\ gaps' = [gaps EXCEPT ![k] = IF k \in repairs THEN @ ELSE "REPAIR_SCHEDULED"]
  BY DEF CreateRepair
<1>2. repairing[r].doing = {} /\ UNCHANGED <<observed, work, checking, lost>> BY DEF CreateRepair
<1>3. k \in Interval BY DEF GapInv, GapTypes
<1>4. /\ repairing'[r].doing = {k} \ repairs
      /\ \A s \in Repairer \ {r} : repairing'[s].doing = repairing[s].doing
  BY <1>1 DEF GapInv, GapTypes
<1>5. GapTypes' BY <1>1, <1>2, <1>3 DEF GapInv, GapTypes, GapStatuses
<1>6. OneAtATime'
  <2> SUFFICES ASSUME NEW s \in Repairer
      PROVE repairing'[s].doing \subseteq repairs' /\ \A i, j \in repairing'[s].doing : i = j
    BY DEF OneAtATime
  <2>1. CASE s = r BY <2>1, <1>1, <1>4
  <2>2. CASE s # r BY <2>2, <1>1, <1>4 DEF GapInv, OneAtATime
  <2> QED BY <2>1, <2>2
<1>7. RepairsAreBacked'
  <2> SUFFICES ASSUME NEW j \in Interval PROVE Backed(j)'
    BY DEF Backed, RepairsAreBacked
  <2>0. Backed(j) BY DEF GapInv, RepairsAreBacked, Backed
  <2>1. gaps'[j] = "REPAIR_SCHEDULED" <=> j \in repairs'
    BY <2>0, <1>1, <1>3 DEF Backed, GapInv, GapTypes
  <2>2. work'[j] # "none" => j \in repairs' BY <2>0, <1>1, <1>2 DEF Backed
  <2>3. ASSUME j \in repairs', work'[j] = "none"
        PROVE j \in lost' \/ \E s \in Repairer : j \in repairing'[s].doing
    <3>1. CASE j \in repairs
      <4>1. j \in lost \/ \E s \in Repairer : j \in repairing[s].doing BY <3>1, <2>0, <2>3, <1>2 DEF Backed
      <4> QED BY <4>1, <1>2, <1>4
    <3>2. CASE j \notin repairs BY <3>2, <2>3, <1>1, <1>4
    <3> QED BY <3>1, <3>2
  <2> QED BY <2>1, <2>2, <2>3 DEF Backed
<1> QED BY <1>5, <1>6, <1>7 DEF GapInv

LEMMA SchedulingKeeps == ASSUME GapInv, NEW r \in Repairer, ScheduleRepair(r) PROVE GapInv'
<1>1. PICK k \in repairing[r].doing : work' = [work EXCEPT ![k] = IF @ = "none" THEN "PENDING" ELSE @]
  BY DEF ScheduleRepair
<1>2. repairing' = [repairing EXCEPT ![r].doing = {}] /\ UNCHANGED <<observed, gaps, repairs, checking, lost>>
  BY DEF ScheduleRepair
<1>3. k \in Interval /\ k \in repairs /\ \A j \in repairing[r].doing : j = k
  BY DEF GapInv, GapTypes, OneAtATime
<1>4. /\ repairing'[r].doing = {}
      /\ \A s \in Repairer \ {r} : repairing'[s].doing = repairing[s].doing
  BY <1>2 DEF GapInv, GapTypes
<1>5. GapTypes' BY <1>1, <1>2, <1>3 DEF GapInv, GapTypes
<1>6. OneAtATime' BY <1>2, <1>4 DEF GapInv, OneAtATime
<1>7. work'[k] # "none" /\ \A j \in Interval \ {k} : work'[j] = work[j]
  BY <1>1, <1>3 DEF GapInv, GapTypes
<1>8. RepairsAreBacked'
  <2> SUFFICES ASSUME NEW j \in Interval PROVE Backed(j)'
    BY DEF Backed, RepairsAreBacked
  <2>0. Backed(j) BY DEF GapInv, RepairsAreBacked, Backed
  <2>1. CASE j = k BY <2>0, <2>1, <1>2, <1>3, <1>7 DEF Backed
  <2>2. CASE j # k BY <2>0, <2>2, <1>2, <1>3, <1>4, <1>7 DEF Backed
  <2> QED BY <2>1, <2>2
<1> QED BY <1>5, <1>6, <1>8 DEF GapInv

LEMMA DeathKeeps == ASSUME GapInv, GapCallDies PROVE GapInv'
<1>0. UNCHANGED <<observed, gaps, repairs, work>> BY DEF GapCallDies
<1>1. CASE \E c \in Checker : checking' = [checking EXCEPT ![c] = {}] /\ UNCHANGED <<repairing, lost>>
  <2>1. GapTypes' BY <1>0, <1>1 DEF GapInv, GapTypes
  <2>2. OneAtATime' BY <1>0, <1>1 DEF GapInv, OneAtATime
  <2>3. RepairsAreBacked' BY <1>0, <1>1 DEF GapInv, RepairsAreBacked
  <2> QED BY <2>1, <2>2, <2>3 DEF GapInv
<1>2. ASSUME NEW r \in Repairer, repairing' = [repairing EXCEPT ![r] = [left |-> {}, doing |-> {}]],
             lost' = lost \union repairing[r].doing, UNCHANGED checking
      PROVE GapInv'
  <2>1. GapTypes' BY <1>0, <1>2 DEF GapInv, GapTypes
  <2>2. /\ repairing'[r].doing = {}
        /\ \A s \in Repairer \ {r} : repairing'[s].doing = repairing[s].doing
    BY <1>2 DEF GapInv, GapTypes
  <2>3. OneAtATime' BY <1>0, <2>2 DEF GapInv, OneAtATime
  <2>4. RepairsAreBacked' BY <1>0, <1>2, <2>2 DEF GapInv, RepairsAreBacked
  <2> QED BY <2>1, <2>3, <2>4 DEF GapInv
<1> QED BY <1>1, <1>2 DEF GapCallDies

---------------------------------------------------------------------------
\* Migrations. That overlapping runs apply every migration once and in order rests on
\* what each of them knows of the files and of the ledger while it is under way.
Contents == Content \union {NoFile}
RunRecord == [at : {"new", "load", "under way", "over"}, found : [Version -> Contents],
              loaded : [Version -> Contents], left : SUBSET Version]

SchemaTypes ==
    /\ files \in [Version -> Contents]
    /\ ledger \in [Version -> Contents]
    /\ effects \in Seq(Version \X Contents)
    /\ migrating \in [Migrator -> RunRecord]

\* The ledger and the effects tell of the same versions, each once.
Tells(done, rows, present) ==
    /\ \A m, n \in DOMAIN done : done[m][1] = done[n][1] => m = n
    /\ \A v \in Version : rows[v] # NoFile <=> \E n \in DOMAIN done : done[n][1] = v
    /\ \A v \in Version : rows[v] # NoFile => present[v] # NoFile

\* What a version did is what its row says, unless its file changed under a run.
Agrees(done, rows, changed) ==
    \A n \in DOMAIN done : done[n][1] \notin changed => done[n][2] = rows[done[n][1]]

\* Without late files everything below an executed version was executed before it.
Ordered(done, present, added) ==
    added = {} => \A n \in DOMAIN done : \A v \in Version :
        v < done[n][1] /\ present[v] # NoFile => \E m \in 1..(n - 1) : done[m][1] = v

\* A run knows the files of its start, and has left no file behind below those it
\* still has to deal with: it found a row for it, or made one.
UnderWay(run) == run.at \in {"load", "under way"}
Knows(run, present, rows, added, changed) ==
    /\ \A v \in run.left : run.found[v] # NoFile
    /\ \A v \in Version : run.loaded[v] # NoFile => rows[v] # NoFile
    /\ UnderWay(run) => \A v \in Version :
          /\ run.found[v] # NoFile => present[v] # NoFile
          /\ v \notin changed => present[v] = run.found[v]
          /\ run.found[v] # NoFile => v \in run.left \/ rows[v] # NoFile
          /\ added = {} /\ present[v] # NoFile /\ run.found[v] = NoFile =>
                \A w \in Version : w > v => run.found[w] = NoFile

SchemaInv ==
    /\ SchemaTypes
    /\ Tells(effects, ledger, files)
    /\ Agrees(effects, ledger, raced)
    /\ Ordered(effects, files, late)
    /\ \A r \in Migrator : Knows(migrating[r], files, ledger, late, raced)

LEMMA Entries ==
    ASSUME SchemaTypes
    PROVE  /\ Len(effects) \in Nat /\ DOMAIN effects = 1..Len(effects)
           /\ \A n \in DOMAIN effects : effects[n] \in Version \X Contents /\ effects[n][1] \in Version
<1>1. effects \in Seq(Version \X Contents) BY DEF SchemaTypes
<1>2. Len(effects) \in Nat /\ DOMAIN effects = 1..Len(effects) BY <1>1, LenProperties
<1>3. \A n \in DOMAIN effects : effects[n] \in Version \X Contents BY <1>1, <1>2, ElementOfSeq
<1>4. \A e \in Version \X Contents : e[1] \in Version OBVIOUS
<1> QED BY <1>2, <1>3, <1>4

LEMMA SchemaInitially == SchemaInit => SchemaInv
<1> SUFFICES ASSUME SchemaInit PROVE SchemaInv OBVIOUS
<1>1. SchemaTypes BY DEF SchemaInit, SchemaTypes, Contents, RunRecord
<1>2. effects = <<>> /\ DOMAIN effects = {} BY DEF SchemaInit
<1>3. Tells(effects, ledger, files) /\ Agrees(effects, ledger, raced) /\ Ordered(effects, files, late)
  BY <1>2 DEF SchemaInit, Tells, Agrees, Ordered
<1>4. ASSUME NEW r \in Migrator PROVE Knows(migrating[r], files, ledger, late, raced)
  BY DEF SchemaInit, Knows, UnderWay
<1> QED BY <1>1, <1>3, <1>4 DEF SchemaInv

\* Steps of one run that leave the tables and the files alone.
LEMMA RunMovesOn ==
    ASSUME SchemaInv, NEW r \in Migrator, UNCHANGED <<files, ledger, effects, late, raced>>,
           NEW mine \in RunRecord, migrating' = [migrating EXCEPT ![r] = mine],
           Knows(mine, files, ledger, late, raced)
    PROVE  SchemaInv'
<1>1. SchemaTypes' BY DEF SchemaInv, SchemaTypes
<1>2. \A q \in Migrator : migrating'[q] = IF q = r THEN mine ELSE migrating[q]
  BY DEF SchemaInv, SchemaTypes
<1> QED BY <1>1, <1>2 DEF SchemaInv

LEMMA DiscoveryKeeps == ASSUME SchemaInv, NEW r \in Migrator, DiscoverMigrations(r) PROVE SchemaInv'
<1>1. PICK mine : mine = [migrating[r] EXCEPT !.found = files, !.left = {v \in Version : files[v] # NoFile},
                                              !.at = IF {v \in Version : files[v] # NoFile} = {} THEN "over" ELSE "load"]
  OBVIOUS
<1>2. UNCHANGED <<files, ledger, effects, late, raced>> /\ migrating' = [migrating EXCEPT ![r] = mine]
  BY <1>1 DEF DiscoverMigrations
<1>3. migrating[r] \in RunRecord BY DEF SchemaInv, SchemaTypes
<1>4. /\ mine \in RunRecord /\ mine.found = files /\ mine.left = {v \in Version : files[v] # NoFile}
      /\ mine.loaded = migrating[r].loaded
  BY <1>1, <1>3 DEF RunRecord, SchemaInv, SchemaTypes
<1>5. Knows(mine, files, ledger, late, raced) BY <1>4 DEF SchemaInv, Knows
<1> QED BY <1>2, <1>4, <1>5, RunMovesOn

LEMMA LoadingKeeps == ASSUME SchemaInv, NEW r \in Migrator, LoadAppliedMigrations(r) PROVE SchemaInv'
<1>1. PICK mine : mine = [migrating[r] EXCEPT !.loaded = ledger, !.at = "under way"] OBVIOUS
<1>2. UNCHANGED <<files, ledger, effects, late, raced>> /\ migrating' = [migrating EXCEPT ![r] = mine]
  BY <1>1 DEF LoadAppliedMigrations
<1>3. migrating[r] \in RunRecord BY DEF SchemaInv, SchemaTypes
<1>4. /\ mine \in RunRecord /\ mine.found = migrating[r].found /\ mine.left = migrating[r].left
      /\ mine.loaded = ledger
  BY <1>1, <1>3 DEF RunRecord, SchemaInv, SchemaTypes
<1>5. UnderWay(migrating[r]) BY DEF LoadAppliedMigrations, UnderWay
<1>6. Knows(mine, files, ledger, late, raced) BY <1>4, <1>5 DEF SchemaInv, Knows
<1> QED BY <1>2, <1>4, <1>6, RunMovesOn

\* A run that ends, for whatever reason, leaves all as it is.
LEMMA EndKeeps ==
    ASSUME SchemaInv, NEW r \in Migrator, Ends(r), UNCHANGED <<files, ledger, effects, late, raced>>
    PROVE  SchemaInv'
<1>1. PICK mine : mine = [migrating[r] EXCEPT !.at = "over"] OBVIOUS
<1>2. migrating' = [migrating EXCEPT ![r] = mine] BY <1>1 DEF Ends
<1>3. migrating[r] \in RunRecord BY DEF SchemaInv, SchemaTypes
<1>4. /\ mine \in RunRecord /\ mine.found = migrating[r].found /\ mine.left = migrating[r].left
      /\ mine.loaded = migrating[r].loaded /\ mine.at = "over"
  BY <1>1, <1>3 DEF RunRecord
<1>5. ~ UnderWay(mine) BY <1>4 DEF UnderWay
<1>6. Knows(mine, files, ledger, late, raced) BY <1>4, <1>5 DEF SchemaInv, Knows
<1> QED BY <1>2, <1>4, <1>6, RunMovesOn

\* A run that passes a version knows as much as before, when the version has a row.
LEMMA PassingKnows ==
    ASSUME NEW run \in RunRecord, NEW present, NEW rows, NEW added, NEW changed, NEW v \in Version,
           Knows(run, present, rows, added, changed), rows[v] # NoFile
    PROVE  LET after == [run EXCEPT !.left = @ \ {v}]
           IN  after \in RunRecord /\ Knows(after, present, rows, added, changed)
<1> DEFINE after == [run EXCEPT !.left = @ \ {v}]
<1>1. /\ after \in RunRecord /\ after.found = run.found /\ after.left = run.left \ {v}
      /\ after.loaded = run.loaded /\ after.at = run.at
  BY DEF RunRecord
<1>2. Knows(after, present, rows, added, changed)
  <2> HIDE DEF after
  <2> QED BY <1>1 DEF Knows, UnderWay
<1> QED BY <1>1, <1>2

LEMMA SkipKeeps == ASSUME SchemaInv, NEW r \in Migrator, NEW v \in Version, SkipApplied(r, v) PROVE SchemaInv'
<1>1. UNCHANGED <<files, ledger, effects, late, raced>> /\ migrating[r].loaded[v] # NoFile
  BY DEF SkipApplied
<1>2. CASE Ends(r) BY <1>1, <1>2, EndKeeps
<1>3. CASE Passes(r, v)
  <2>1. PICK run : run = migrating[r] OBVIOUS
  <2>2. run \in RunRecord BY <2>1 DEF SchemaInv, SchemaTypes
  <2>3. Knows(run, files, ledger, late, raced) BY <2>1 DEF SchemaInv
  <2>4. ledger[v] # NoFile BY <2>1, <2>3, <1>1 DEF Knows
  <2>5. PICK mine : mine = [run EXCEPT !.left = @ \ {v}] OBVIOUS
  <2>6. mine \in RunRecord /\ Knows(mine, files, ledger, late, raced)
    BY <2>2, <2>3, <2>4, <2>5, PassingKnows
  <2>7. migrating' = [migrating EXCEPT ![r] = mine] BY <2>1, <2>5, <1>3 DEF Passes
  <2> QED BY <1>1, <2>6, <2>7, RunMovesOn
<1> QED BY <1>2, <1>3 DEF SkipApplied

\* The row of a version comes with its effect: what anybody knows stays true.
LEMMA NewRowKnows ==
    ASSUME NEW run, NEW present, NEW rows, NEW more, NEW added, NEW changed,
           Knows(run, present, rows, added, changed),
           \A w \in Version : rows[w] # NoFile => more[w] # NoFile
    PROVE  Knows(run, present, more, added, changed)
BY DEF Knows

LEMMA ApplyKeeps == ASSUME SchemaInv, NEW r \in Migrator, NEW v \in Version, ApplyMigration(r, v) PROVE SchemaInv'
<1>1. UNCHANGED <<files, late, raced>> BY DEF ApplyMigration
<1>2. CASE ledger[v] # NoFile
  <2>1. Ends(r) /\ UNCHANGED <<ledger, effects>> BY <1>2 DEF ApplyMigration
  <2> QED BY <1>1, <2>1, EndKeeps
<1>3. CASE ledger[v] = NoFile
  <2>1. PICK run : run = migrating[r] OBVIOUS
  <2>2. run \in RunRecord /\ Knows(run, files, ledger, late, raced) BY <2>1 DEF SchemaInv, SchemaTypes
  <2>3. /\ UnderWay(run) /\ v \in run.left /\ \A w \in run.left : v <= w
    BY <2>1 DEF ApplyMigration, TurnOf, UnderWay
  <2>4. /\ run.found[v] # NoFile /\ files[v] # NoFile
        /\ run.found[v] \in Contents /\ files[v] \in Contents
    BY <2>2, <2>3 DEF Knows, RunRecord, SchemaInv, SchemaTypes
  <2>5. PICK done, entry, last : done = Append(effects, entry) /\ entry = <<v, files[v]>> /\ last = Len(effects) + 1
    OBVIOUS
  <2>6. PICK rows : rows = [ledger EXCEPT ![v] = run.found[v]] OBVIOUS
  <2>7. PICK mine : mine = [run EXCEPT !.left = @ \ {v}] OBVIOUS
  <2>8. ledger' = rows /\ effects' = done /\ migrating' = [migrating EXCEPT ![r] = mine]
    BY <1>3, <2>1, <2>5, <2>6, <2>7 DEF ApplyMigration, Passes
  <2>9. entry \in Version \X Contents /\ entry[1] = v /\ entry[2] = files[v] BY <2>4, <2>5
  <2>10. SchemaTypes /\ effects \in Seq(Version \X Contents) BY DEF SchemaInv, SchemaTypes
  <2>11. /\ done \in Seq(Version \X Contents) /\ Len(done) = last
         /\ \A n \in 1..Len(effects) : done[n] = effects[n]
         /\ done[last] = entry
    BY <2>5, <2>9, <2>10, AppendProperties
  <2>12. /\ Len(effects) \in Nat /\ DOMAIN effects = 1..Len(effects) /\ DOMAIN done = 1..last
         /\ \A n \in DOMAIN effects : effects[n][1] \in Version
    BY <2>10, <2>11, Entries, LenProperties
  <2>13. \A n \in DOMAIN done : n = last \/ n \in DOMAIN effects BY <2>5, <2>12
  <2>14. last \in DOMAIN done /\ last \notin DOMAIN effects /\ \A n \in DOMAIN effects : n \in DOMAIN done
    BY <2>5, <2>12
  <2>15. /\ rows \in [Version -> Contents] /\ rows[v] = run.found[v]
         /\ \A w \in Version : w # v => rows[w] = ledger[w]
    BY <2>4, <2>6 DEF SchemaInv, SchemaTypes
  <2>16. \A w \in Version : ledger[w] # NoFile => rows[w] # NoFile BY <2>4, <2>15
  <2>17. Tells(effects, ledger, files) BY DEF SchemaInv
  <2>18. \A n \in DOMAIN effects : effects[n][1] # v BY <1>3, <2>17 DEF Tells
  <2>19. rows[v] # NoFile BY <2>4, <2>15
  <2>20. SchemaTypes'
    <3>1. mine \in RunRecord BY <2>2, <2>7 DEF RunRecord
    <3> QED BY <1>1, <2>8, <2>11, <2>15, <3>1 DEF SchemaInv, SchemaTypes
  <2>21. Tells(done, rows, files)
    <3>1. ASSUME NEW m \in DOMAIN done, NEW n \in DOMAIN done, done[m][1] = done[n][1] PROVE m = n
      BY <3>1, <2>9, <2>11, <2>12, <2>13, <2>17, <2>18 DEF Tells
    <3>2. ASSUME NEW w \in Version PROVE rows[w] # NoFile <=> \E n \in DOMAIN done : done[n][1] = w
      <4>1. CASE w = v BY <4>1, <2>9, <2>11, <2>14, <2>19
      <4>2. CASE w # v
        <5>1. rows[w] # NoFile <=> \E n \in DOMAIN effects : effects[n][1] = w BY <4>2, <2>15, <2>17 DEF Tells
        <5>2. (\E n \in DOMAIN done : done[n][1] = w) <=> (\E n \in DOMAIN effects : effects[n][1] = w)
          BY <4>2, <2>9, <2>11, <2>12, <2>13, <2>14
        <5> QED BY <5>1, <5>2
      <4> QED BY <4>1, <4>2
    <3>3. \A w \in Version : rows[w] # NoFile => files[w] # NoFile BY <2>4, <2>15, <2>17 DEF Tells
    <3> QED BY <3>1, <3>2, <3>3 DEF Tells
  <2>22. Agrees(done, rows, raced)
    <3> SUFFICES ASSUME NEW n \in DOMAIN done, done[n][1] \notin raced PROVE done[n][2] = rows[done[n][1]]
      BY DEF Agrees
    <3>1. CASE n = last
      <4>1. files[v] = run.found[v] BY <3>1, <2>2, <2>3, <2>9, <2>11 DEF Knows
      <4> QED BY <4>1, <3>1, <2>9, <2>11, <2>15
    <3>2. CASE n \in DOMAIN effects
      <4>1. done[n] = effects[n] BY <3>2, <2>11, <2>12
      <4> QED BY <4>1, <3>2, <2>12, <2>15, <2>18 DEF SchemaInv, Agrees
    <3> QED BY <3>1, <3>2, <2>13
  <2>23. Ordered(done, files, late)
    <3> SUFFICES ASSUME late = {}, NEW n \in DOMAIN done, NEW w \in Version, w < done[n][1], files[w] # NoFile
        PROVE \E m \in 1..(n - 1) : done[m][1] = w
      BY DEF Ordered
    <3>1. CASE n = last
      <4>1. w < v /\ w \in Int /\ v \in Int BY <3>1, <2>9, <2>11, SchemaAssumption
      <4>2. run.found[w] # NoFile
        BY <4>1, <2>2, <2>3, <2>4 DEF Knows
      <4>3. w \notin run.left BY <4>1, <2>3
      <4>4. ledger[w] # NoFile BY <4>2, <4>3, <2>2, <2>3 DEF Knows
      <4>5. PICK m \in DOMAIN effects : effects[m][1] = w BY <4>4, <2>17 DEF Tells
      <4>6. m \in 1..(n - 1) BY <3>1, <2>5, <2>12
      <4> QED BY <4>5, <4>6, <2>11, <2>12
    <3>2. CASE n \in DOMAIN effects
      <4>1. done[n] = effects[n] BY <3>2, <2>11, <2>12
      <4>2. PICK m \in 1..(n - 1) : effects[m][1] = w
        BY <4>1, <3>2 DEF SchemaInv, Ordered
      <4>3. m \in 1..Len(effects) BY <3>2, <4>2, <2>12
      <4> QED BY <4>2, <4>3, <2>11
    <3> QED BY <3>1, <3>2, <2>13
  <2>24. \A q \in Migrator : Knows(migrating'[q], files, rows, late, raced)
    <3>1. Knows(run, files, rows, late, raced) BY <2>2, <2>16, NewRowKnows
    <3>2. Knows(mine, files, rows, late, raced) BY <3>1, <2>2, <2>7, <2>19, PassingKnows
    <3>3. ASSUME NEW q \in Migrator, q # r PROVE Knows(migrating[q], files, rows, late, raced)
      <4>1. PICK other : other = migrating[q] OBVIOUS
      <4>2. Knows(other, files, ledger, late, raced) BY <4>1 DEF SchemaInv
      <4> QED BY <4>1, <4>2, <2>16, NewRowKnows
    <3>4. \A q \in Migrator : migrating'[q] = IF q = r THEN mine ELSE migrating[q]
      BY <2>8 DEF SchemaInv, SchemaTypes
    <3> QED BY <3>2, <3>3, <3>4
  <2> QED BY <1>1, <2>8, <2>20, <2>21, <2>22, <2>23, <2>24 DEF SchemaInv
<1> QED BY <1>2, <1>3

LEMMA EditKeeps == ASSUME SchemaInv, NEW v \in Version, NEW c \in Content, EditFile(v, c) PROVE SchemaInv'
<1>1. PICK now, added, changed : now = files' /\ added = late' /\ changed = raced' OBVIOUS
<1>2. UNCHANGED <<ledger, effects, migrating>> /\ now = [files EXCEPT ![v] = c] BY <1>1 DEF EditFile
<1>3. /\ now[v] = c /\ c # NoFile /\ now \in [Version -> Contents]
      /\ \A w \in Version : w # v => now[w] = files[w]
  BY <1>2, SchemaAssumption DEF SchemaInv, SchemaTypes, Contents
<1>4. late \subseteq added /\ raced \subseteq changed BY <1>1 DEF EditFile
<1>5. added = {} => files[v] # NoFile \/ \A w \in Version : w > v => files[w] = NoFile
  BY <1>1 DEF EditFile
<1>6. ASSUME NEW r \in Migrator, UnderWay(migrating[r]) PROVE v \in changed
  BY <1>1, <1>6 DEF EditFile, UnderWay
<1>7. SchemaTypes' BY <1>1, <1>2, <1>3 DEF SchemaInv, SchemaTypes
<1>8. Tells(effects, ledger, now) BY <1>3 DEF SchemaInv, Tells
<1>9. Agrees(effects, ledger, changed) BY <1>4 DEF SchemaInv, Agrees
<1>10. Ordered(effects, now, added)
  <2> SUFFICES ASSUME added = {}, NEW n \in DOMAIN effects, NEW w \in Version, w < effects[n][1], now[w] # NoFile
      PROVE \E m \in 1..(n - 1) : effects[m][1] = w
    BY DEF Ordered
  <2>1. late = {} BY <1>4
  <2>2. PICK u \in Version : u = effects[n][1] BY Entries DEF SchemaInv
  <2>3. files[u] # NoFile BY <2>2 DEF SchemaInv, Tells
  <2>4. u > w BY <2>2, SchemaAssumption
  <2>5. files[w] # NoFile
    <3>1. CASE w = v BY <3>1, <2>3, <2>4, <1>5
    <3>2. CASE w # v BY <3>2, <1>3
    <3> QED BY <3>1, <3>2
  <2> QED BY <2>1, <2>5 DEF SchemaInv, Ordered
<1>11. ASSUME NEW r \in Migrator PROVE Knows(migrating[r], now, ledger, added, changed)
  <2>1. PICK run : run = migrating[r] OBVIOUS
  <2>2. Knows(run, files, ledger, late, raced) BY <2>1 DEF SchemaInv
  <2>3. ASSUME UnderWay(run), NEW w \in Version
        PROVE /\ run.found[w] # NoFile => now[w] # NoFile
              /\ w \notin changed => now[w] = run.found[w]
              /\ run.found[w] # NoFile => w \in run.left \/ ledger[w] # NoFile
    <3>1. v \in changed BY <2>1, <2>3, <1>6
    <3> QED BY <3>1, <2>2, <2>3, <1>3, <1>4 DEF Knows
  <2>4. ASSUME UnderWay(run), NEW w \in Version, added = {}, now[w] # NoFile, run.found[w] = NoFile,
               NEW u \in Version, u > w
        PROVE run.found[u] = NoFile
    <3>1. late = {} BY <2>4, <1>4
    <3>2. CASE files[w] # NoFile BY <3>1, <3>2, <2>2, <2>4 DEF Knows
    <3>3. CASE files[w] = NoFile
      <4>1. w = v BY <3>3, <2>4, <1>3
      <4>2. files[u] = NoFile BY <4>1, <3>3, <2>4, <1>5
      <4> QED BY <4>2, <2>2, <2>4 DEF Knows
    <3> QED BY <3>2, <3>3
  <2>5. Knows(run, now, ledger, added, changed) BY <2>2, <2>3, <2>4 DEF Knows
  <2> QED BY <2>1, <2>5
<1> QED BY <1>1, <1>2, <1>7, <1>8, <1>9, <1>10, <1>11 DEF SchemaInv

LEMMA SchemaSuffices == SchemaInv => MigrationsApplyOnce
<1> SUFFICES ASSUME SchemaInv PROVE MigrationsApplyOnce OBVIOUS
<1> DEFINE versions == [n \in DOMAIN effects |-> effects[n][1]]
<1>0. /\ Len(effects) \in Nat /\ DOMAIN effects = 1..Len(effects)
      /\ \A n \in DOMAIN effects : effects[n][1] \in Version
  BY Entries DEF SchemaInv
<1>1. \A m, n \in DOMAIN effects : versions[m] = versions[n] => m = n
  BY DEF SchemaInv, Tells
<1>2. Range(versions) = {v \in Version : ledger[v] # NoFile}
  BY <1>0 DEF Range, SchemaInv, Tells
<1>3. ASSUME late = {}, NEW n \in DOMAIN effects
      PROVE {v \in Version : v < versions[n] /\ files[v] # NoFile} \subseteq {versions[m] : m \in 1..(n - 1)}
  <2>1. \A m \in 1..(n - 1) : m \in DOMAIN effects BY <1>0
  <2> QED BY <1>3, <2>1 DEF SchemaInv, Ordered
<1>4. ASSUME MigrationChecks, NEW n \in DOMAIN effects, versions[n] \notin raced
      PROVE effects[n][2] = files[versions[n]]
  BY <1>4 DEF MigrationChecks, SchemaInv, Agrees
<1> QED BY <1>1, <1>2, <1>3, <1>4 DEF MigrationsApplyOnce

LEMMA SchemaKeeps == SchemaInv /\ (SchemaStep \/ UNCHANGED schemaVars) => SchemaInv'
<1> SUFFICES ASSUME SchemaInv, SchemaStep \/ UNCHANGED schemaVars PROVE SchemaInv' OBVIOUS
<1>1. CASE UNCHANGED schemaVars
  BY <1>1 DEF schemaVars, SchemaInv, SchemaTypes
<1>2. ASSUME NEW v \in Version, NEW c \in Content, EditFile(v, c) PROVE SchemaInv' BY <1>2, EditKeeps
<1>3. ASSUME NEW r \in Migrator, DiscoverMigrations(r) \/ LoadAppliedMigrations(r) \/ MigrationEnds(r)
      PROVE SchemaInv'
  BY <1>3, DiscoveryKeeps, LoadingKeeps, EndKeeps DEF MigrationEnds
<1>4. ASSUME NEW r \in Migrator, NEW v \in Version, SkipApplied(r, v) \/ ApplyMigration(r, v) PROVE SchemaInv'
  BY <1>4, SkipKeeps, ApplyKeeps
<1> QED BY <1>1, <1>2, <1>3, <1>4 DEF SchemaStep

---------------------------------------------------------------------------
OperationsInv == RunInv /\ Placed /\ SnapInv /\ ChainInv /\ AccountInv /\ GapInv

LEMMA OperationsInitially == Init => OperationsInv
<1> SUFFICES ASSUME Init PROVE OperationsInv
  OBVIOUS
<1>1. RunInit /\ MarketInit /\ GapInit
  BY DEF Init
<1>2. RunInv
  BY <1>1 DEF RunInit, RunInv, RunTypes, RowFits, NoRow, Phases, Statuses, Final
<1>3. Placed
  BY <1>1, PipelinesDiffer DEF RunInit, Placed
<1>4. SnapInv
  <2>1. stamps = <<>> /\ stamps \in Seq([by : Market, quotes : BatchQuotes])
    BY <1>1, EmptySeq DEF MarketInit
  <2>2. DOMAIN stamps = {}
    BY <2>1
  <2>3. \A r \in Market : Quoted(r) = {}
    BY <2>2 DEF Quoted
  <2>4. /\ saved = {} /\ DOMAIN batch = Market /\ DOMAIN snapshots = Market
        /\ \A r \in Market : batch[r] = NoBatch /\ snapshots[r] = NoBatch
    BY <1>1 DEF MarketInit
  <2> QED
    BY <2>1, <2>3, <2>4 DEF SnapInv, HasLast, Covers
<1>5. ChainInv
  <2>1. RunInit /\ OptionInit
    BY DEF Init
  <2>2. /\ DOMAIN chain = ChainRun /\ analytics = {}
        /\ tried = [r \in Options |-> [s \in Symbol |-> 0]]
        /\ result = [r \in Options |-> [s \in Symbol |-> 0]]
        /\ DOMAIN call = Options /\ \A r \in Options : call[r] = "ready"
    BY <2>1 DEF OptionInit
  <2>3. 0 \in 0..MaxAttempts /\ 0 < MaxAttempts
    BY AttemptsArePositive
  <2>4. \A r \in Options : phase[r] = "new" /\ at[r] = 0 /\ step[r] = 1
    BY <2>1, PipelinesDiffer DEF RunInit
  <2>5. OptionTypes /\ AnalysedRest
    BY <2>2, <2>3 DEF OptionTypes, AnalysedRest
  <2>6. \A r \in Options : OptionPlaced(r) /\ Fresh(r)
    BY <2>2, <2>3, <2>4, SymbolFacts DEF OptionPlaced, Fresh
  <2> QED
    BY <2>5, <2>6 DEF ChainInv
<1>6. AccountInv
  <2>1. RunInit /\ OptionInit
    BY DEF Init
  <2>2. /\ failures = [r \in Run |-> {}] /\ analytics = {} /\ faults = 0
        /\ result = [r \in Options |-> [s \in Symbol |-> 0]] /\ call = [r \in Options |-> "ready"]
    BY <2>1 DEF RunInit, OptionInit
  <2>3. \A r \in Options : phase[r] = "new" /\ at[r] = 0 /\ step[r] = 1 /\ row[r].status = "none"
    BY <2>1, PipelinesDiffer DEF RunInit, NoRow
  <2>4. ASSUME NEW r \in Options, NEW k \in DOMAIN Symbols PROVE CollectedBy(r, k) /\ AnalysedBy(r, k)
    <3>1. ~ k < 1
      BY SymbolFacts
    <3>2. Untouched(r, Symbols[k]) /\ Unanalysed(r, Symbols[k])
      BY <2>2, SymbolFacts, PipelinesDiffer DEF Untouched, Unanalysed, Failed
    <3> QED
      BY <2>3, <3>1, <3>2 DEF CollectedBy, AnalysedBy
  <2>5. \A r \in Options : InLoops(r) /\ Settled(r)
    BY <2>3, <2>4 DEF InLoops, Settled
  <2> QED
    BY <2>2, <2>5 DEF AccountInv
<1> QED
  BY <1>1, <1>2, <1>3, <1>4, <1>5, <1>6, GapInitially DEF OperationsInv

\* No group touches what another one keeps, and a verdict outlives every step.
LEMMA OperationsKeep ==
    ASSUME OperationsInv, [Next]_operationsVars
    PROVE  /\ OperationsInv'
           /\ \A r \in Run : row[r].status \in Final => row'[r] = row[r]
<1>1. ASSUME UNCHANGED <<runVars, marketVars, optionVars>>
      PROVE  /\ RunInv' /\ Placed' /\ SnapInv' /\ ChainInv' /\ AccountInv'
             /\ \A r \in Run : row[r].status \in Final => row'[r] = row[r]
  <2>1. UNCHANGED <<phase, at, step, row, stamps, saved, batch, snapshots>>
    BY <1>1 DEF runVars, marketVars
  <2>2. RunInv' /\ RunTypes' /\ Placed'
    BY <2>1 DEF OperationsInv, RunInv, RunTypes, Placed
  <2>3. \A q \in Market : at'[q] >= at[q]
    BY <2>1, PipelinesDiffer DEF OperationsInv, RunInv, RunTypes
  <2>4. ChainInv'
    BY <1>1, <2>1, <2>2, ChainsRest DEF OperationsInv
  <2>5. AccountInv'
    BY <1>1, <2>1, BooksRest DEF OperationsInv, AccountInv, FaultsStay, runVars, optionVars
  <2> QED
    BY <2>1, <2>2, <2>3, <2>4, <2>5, TablesRest DEF OperationsInv
<1>2. ASSUME UNCHANGED gapVars PROVE GapInv'
  BY <1>2 DEF OperationsInv, GapInv, GapTypes, OneAtATime, RepairsAreBacked, gapVars
<1>3. CASE MarketRuns
  <2>1. PICK r \in Market : MarketStep(r)
    BY <1>3 DEF MarketRuns
  <2>2. r \in Run /\ Moves(r)
    BY <2>1, MarketMoves, PipelinesDiffer DEF OperationsInv
  <2>3. UNCHANGED gapVars /\ UNCHANGED optionVars
    BY <1>3 DEF MarketRuns
  <2>4. ChainInv'
    BY <2>2, <2>3, ChainsBesideMarket DEF OperationsInv
  <2>5. AccountInv'
    BY <2>1, <2>2, <2>3, BooksBesideMarket DEF OperationsInv
  <2> QED
    BY <1>2, <2>1, <2>2, <2>3, <2>4, <2>5, MarketKeeps, MovesKeep DEF OperationsInv
<1>4. CASE OptionRuns
  <2>1. PICK r \in Options : OptionStep(r)
    BY <1>4 DEF OptionRuns
  <2>2. r \in Run /\ Moves(r)
    BY <2>1, OptionMoves, PipelinesDiffer DEF OperationsInv
  <2>3. UNCHANGED gapVars /\ UNCHANGED marketVars
    BY <1>4 DEF OptionRuns
  <2> QED
    BY <1>2, <2>1, <2>2, <2>3, OptionKeeps, ChainsKeep, BooksKeep, MovesKeep DEF OperationsInv
<1>5. CASE Alerts \/ Imports \/ Migrations
  BY <1>1, <1>2, <1>5 DEF Alerts, Imports, Migrations, OperationsInv
<1>6. CASE Repairs
  <2>1. GapInv'
    BY <1>6, ArrivalKeeps, CheckKeeps, OpeningKeeps, CreationKeeps, SchedulingKeeps, DeathKeeps
    DEF Repairs, GapStep, OperationsInv
  <2>2. UNCHANGED <<runVars, marketVars, optionVars>>
    BY <1>6 DEF Repairs
  <2> QED
    BY <1>1, <2>1, <2>2 DEF OperationsInv
<1>7. CASE UNCHANGED operationsVars
  BY <1>1, <1>2, <1>7 DEF operationsVars, OperationsInv
<1> QED
  BY <1>3, <1>4, <1>5, <1>6, <1>7 DEF Next

LEMMA OperationsHold == Spec => []OperationsInv
<1>1. OperationsInv /\ [Next]_operationsVars => OperationsInv'
  BY OperationsKeep
<1> QED
  BY <1>1, OperationsInitially, PTL DEF Spec

\* The rows of chains are written as a whole, by complete_run_with_quotes or fail_run.
Closed(entry) ==
    /\ entry.status \in {"COMPLETED", "FAILED"} => entry.dated
    /\ entry.status = "COMPLETED" => ~ entry.error
    /\ entry.status = "FAILED" => entry.error

LEMMA ChainsClose ==
    ASSUME ChainInv, ChainsAreClosed, NEW r \in Options, OptionStep(r)
    PROVE  ChainsAreClosed'
<1>1. UNCHANGED chain \/ \E c, entry : Closed(entry) /\ chain' = [chain EXCEPT ![c] = entry]
  <2>1. CASE StartChain(r)
    <3>1. Closed([NoChain EXCEPT !.status = "RUNNING"])
      BY DEF Closed, NoChain
    <3> QED
      BY <2>1, <3>1 DEF StartChain
  <2>2. CASE CollectReturns(r) \/ CollectRaises(r)
    <3>1. UNCHANGED chain \/ \E quotes : CompleteChainWithQuotes(ThisChain(r), quotes)
      BY <2>2 DEF CollectReturns, CollectRaises
    <3>2. \A quotes : Closed([status |-> "COMPLETED", dated |-> TRUE, error |-> FALSE, quotes |-> quotes])
      BY DEF Closed
    <3> QED
      BY <3>1, <3>2 DEF CompleteChainWithQuotes
  <2>3. CASE FailChain(r)
    <3>1. \A quotes : Closed([status |-> "FAILED", dated |-> TRUE, error |-> TRUE, quotes |-> quotes])
      BY DEF Closed
    <3> QED
      BY <2>3, <3>1 DEF FailChain
  <2>4. CASE ~ (StartChain(r) \/ CollectReturns(r) \/ CollectRaises(r) \/ FailChain(r))
    BY <2>4 DEF OptionStep, RetrySymbol, GiveUpSymbol, AnalyzeSymbol, AnalysisRaises, NothingToAnalyze,
                OptionStageEnds, FailureInsertRaises, optionVars
  <2> QED
    BY <2>1, <2>2, <2>3, <2>4
<1>2. CASE UNCHANGED chain
  BY <1>2 DEF ChainsAreClosed, ChainRun
<1>3. ASSUME NEW c, NEW entry, Closed(entry), chain' = [chain EXCEPT ![c] = entry]
      PROVE  ChainsAreClosed'
  <2>1. \A d \in ChainRun : chain'[d] = chain[d] \/ chain'[d] = entry
    BY <1>3 DEF ChainInv, OptionTypes
  <2> QED
    BY <1>3, <2>1 DEF ChainsAreClosed, Closed, ChainRun
<1> QED
  BY <1>1, <1>2, <1>3

LEMMA ChainsHold == Spec => []ChainsAreClosed
<1>1. Init => ChainsAreClosed
  BY DEF Init, OptionInit, ChainsAreClosed, NoChain
<1>2. OperationsInv /\ ChainsAreClosed /\ [Next]_operationsVars => ChainsAreClosed'
  <2> SUFFICES ASSUME OperationsInv, ChainsAreClosed, [Next]_operationsVars PROVE ChainsAreClosed'
    OBVIOUS
  <2>1. CASE OptionRuns
    BY <2>1, ChainsClose DEF OptionRuns, OperationsInv
  <2>2. CASE UNCHANGED optionVars
    BY <2>2 DEF ChainsAreClosed, ChainRun, optionVars
  <2> QED
    BY <2>1, <2>2 DEF Next, MarketRuns, Alerts, Imports, Repairs, Migrations, operationsVars
<1> QED
  BY <1>1, <1>2, OperationsHold, PTL DEF Spec

\* The release audit operational_state never finds an error, whatever raises or dies in
\* a pipeline (Pipeline.start, PipelineRepository, SnapshotRepository.complete_run,
\* FeatureRepository.complete_run, OptionChainCollector.collect), and a repair job is
\* there when and only when its gap is scheduled, however checks and repairs of the
\* collection overlap, die and come again (detect_gaps, schedule_repairs, create_repair).
THEOREM AuditsPass == Spec => []OperationalAudits
<1>1. OperationsInv => OperationalState
  BY DEF OperationsInv, RunInv, RunTypes, RowFits, OperationalState, Final
<1>2. OperationsInv /\ ChainsAreClosed => OperationalAudits
  BY <1>1 DEF OperationsInv, GapInv, OperationalAudits
<1> QED
  BY <1>2, OperationsHold, ChainsHold, PTL

\* A run whose row once says COMPLETED or FAILED keeps that row (Pipeline.start: the
\* statement that completes the run lies outside the one that handles errors).
THEOREM VerdictsStand == Spec => VerdictStays
<1>1. OperationsInv /\ [Next]_operationsVars
        => [\A r \in Run : row[r].status \in {"COMPLETED", "FAILED"} => row'[r] = row[r]]_runVars
  BY OperationsKeep DEF Final
<1> QED
  BY <1>1, OperationsHold, PTL DEF Spec, VerdictStays

\* Whatever runs collect beside it, a run never takes its snapshots from a batch older
\* than one it collected itself (MarketDataRepository.list_latest_batch).
THEOREM SnapshotsAreFresh == Spec => []NoStaleSnapshot
<1>1. OperationsInv => NoStaleSnapshot
  BY DEF OperationsInv, SnapInv, Covers, NoStaleSnapshot
<1> QED
  BY <1>1, OperationsHold, PTL

\* What was analysed is still a COMPLETED chain with priced quotes, however attempts
\* fail, are retried or are marked failed late (OptionCollectionStage.execute,
\* OptionChainCollector.collect, fail_run, OptionAnalyticsStage.execute).
THEOREM AnalysedChainsStand == Spec => []AnalyticsRestOnCompleteChains
<1>1. OperationsInv => AnalyticsRestOnCompleteChains
  BY DEF OperationsInv, ChainInv, AnalysedRest, Analysable, AnalyticsRestOnCompleteChains
<1> QED
  BY <1>1, OperationsHold, PTL

\* A run that reports COMPLETED although symbols failed accounts for each of them: it
\* was collected or has a failure of the first stage, never both, and a collected one
\* was analysed or has a failure of the second, both only when a call raised after its
\* commit (OptionCollectionStage.run, OptionAnalyticsStage.run, Pipeline.start).
THEOREM EverySymbolAccounted == Spec => []SymbolsAccounted
<1>1. OperationsInv => SymbolsAccounted
  <2> SUFFICES ASSUME OperationsInv, NEW r \in Options, row[r].status = "COMPLETED", NEW s \in Symbol
               PROVE  /\ (result[r][s] # 0) # Failed(r, 1, s)
                      /\ result[r][s] # 0 => <<r, s, result[r][s]>> \in analytics \/ Failed(r, 2, s)
                      /\ <<r, s, result[r][s]>> \in analytics /\ Failed(r, 2, s) => faults # 0
    BY DEF SymbolsAccounted
  <2>1. Collected(r, s) /\ Analysed(r, s)
    BY DEF OperationsInv, AccountInv, Settled
  <2>2. <<r, s, result[r][s]>> \in analytics => result[r][s] # 0
    <3>1. <<r, s, 0>> \notin ChainRun
      BY AttemptsArePositive DEF ChainRun
    <3> QED
      BY <3>1 DEF OperationsInv, ChainInv, AnalysedRest
  <2> QED
    BY <2>1, <2>2 DEF Collected, Analysed, Uncertain, Failed
<1> QED
  BY <1>1, OperationsHold, PTL

LEMMA SchemaHolds == Spec => []SchemaInv
<1>1. Init => SchemaInv
  BY SchemaInitially DEF Init
<1>2. SchemaInv /\ [Next]_operationsVars => SchemaInv'
  <2>1. [Next]_operationsVars => SchemaStep \/ UNCHANGED schemaVars
    BY DEF Next, MarketRuns, OptionRuns, Alerts, Repairs, Imports, Migrations, operationsVars
  <2> QED
    BY <2>1, SchemaKeeps
<1> QED
  BY <1>1, <1>2, PTL DEF Spec

\* However runs of the migration runner overlap and die while developers add and edit
\* files, a version is executed once and recorded with it; in order, as long as no file is
\* added below another; and with the contents that the release check compares, unless its
\* file changed while a run was under way (MigrationRunner.run, _apply).
THEOREM MigrationsStayApplied == Spec => []MigrationsApplyOnce
<1> QED
  BY SchemaHolds, SchemaSuffices, PTL

---------------------------------------------------------------------------
\* Completed runs. What a run has written by a stage and a step of it stays as it wrote
\* it: nobody else writes the counts and copies of a run, and saved quotes do not change.
Beyond(r, n, m) == at[r] > n \/ (at[r] = n /\ step[r] > m)

WholeSoFar(r) ==
    /\ at[r] >= 3 => saved # {}
    /\ Beyond(r, 3, 1) => batch[r] \in saved /\ stamps[batch[r]].quotes = inserted[r]
    /\ Beyond(r, 3, 3) => snapshots[r] = batch[r]
    /\ Beyond(r, 4, 1) => features[r] = snapshots[r]
    /\ phase[r] = "completing" \/ row[r].status = "COMPLETED" => at[r] > 4

WholeInv ==
    /\ DOMAIN inserted = Market /\ DOMAIN features = Market
    /\ \A r \in Market : WholeSoFar(r)

\* Saved quotes stay what they are, and more are saved.
QuotesStay == saved \subseteq saved' /\ \A k \in saved : stamps'[k].quotes = stamps[k].quotes

LEMMA SavedStay == ASSUME SnapInv, NEW r \in Market, MarketStep(r) PROVE QuotesStay
<1>1. CASE FetchBatch(r)
  <2>1. PICK n \in BatchQuotes : stamps' = Append(stamps, [by |-> r, quotes |-> n]) BY <1>1 DEF FetchBatch
  <2>2. [by |-> r, quotes |-> n] \in [by : Market, quotes : BatchQuotes] OBVIOUS
  <2>3. \A k \in DOMAIN stamps : stamps'[k] = stamps[k]
    <3>1. Len(stamps) \in Nat /\ DOMAIN stamps = 1..Len(stamps) BY LenProperties DEF SnapInv
    <3> QED BY <2>1, <2>2, <3>1, AppendProperties DEF SnapInv
  <2>4. saved' = saved BY <1>1 DEF FetchBatch
  <2> QED BY <2>3, <2>4 DEF QuotesStay, SnapInv
<1>2. CASE UNCHANGED stamps /\ saved \subseteq saved' BY <1>2 DEF QuotesStay
<1>3. CASE ~ FetchBatch(r)
  <2>1. UNCHANGED stamps /\ saved \subseteq saved'
    BY <1>3 DEF MarketStep, PassThrough, SaveQuotes, NothingCollected, ReadLatestBatch, BatchDisagrees, StartSnapshots,
                InsertSnapshots, CompleteSnapshots, InsertFeatures, CompleteFeatures, MarketCallFails, marketVars
  <2> QED BY <1>2, <2>1
<1> QED BY <1>1, <1>3

\* What belongs to a run that rests is as whole as it was.
LEMMA OthersStayWhole ==
    ASSUME WholeInv, NEW q \in Market, QuotesStay,
           at'[q] = at[q], step'[q] = step[q], phase'[q] = phase[q], row'[q] = row[q],
           inserted'[q] = inserted[q], batch'[q] = batch[q], snapshots'[q] = snapshots[q], features'[q] = features[q]
    PROVE  WholeSoFar(q)'
<1>1. WholeSoFar(q) BY DEF WholeInv
<1> QED BY <1>1 DEF WholeSoFar, Beyond, QuotesStay

\* A run alone writes its columns.
LEMMA ColumnsAreOwn ==
    ASSUME SnapInv, WholeInv, NEW r \in Market, MarketStep(r)
    PROVE  /\ DOMAIN inserted' = Market /\ DOMAIN features' = Market
           /\ \A q \in Market \ {r} : /\ inserted'[q] = inserted[q] /\ batch'[q] = batch[q]
                                      /\ snapshots'[q] = snapshots[q] /\ features'[q] = features[q]
<1>0. DOMAIN batch = Market /\ DOMAIN snapshots = Market /\ DOMAIN inserted = Market /\ DOMAIN features = Market
  BY DEF SnapInv, WholeInv
<1>1. CASE SaveQuotes(r) BY <1>0, <1>1 DEF SaveQuotes
<1>2. CASE ReadLatestBatch(r) BY <1>0, <1>2 DEF ReadLatestBatch
<1>3. CASE InsertSnapshots(r) BY <1>0, <1>3 DEF InsertSnapshots
<1>4. CASE InsertFeatures(r) BY <1>0, <1>4 DEF InsertFeatures, UpsertFeatures, FeatureInputs
<1>5. CASE UNCHANGED <<inserted, batch, snapshots, features>> BY <1>0, <1>5
<1>6. CASE ~ (SaveQuotes(r) \/ ReadLatestBatch(r) \/ InsertSnapshots(r) \/ InsertFeatures(r))
  <2>1. UNCHANGED <<inserted, batch, snapshots, features>>
    BY <1>6 DEF MarketStep, PassThrough, FetchBatch, NothingCollected, BatchDisagrees, StartSnapshots,
                CompleteSnapshots, CompleteFeatures, MarketCallFails, marketVars
  <2> QED BY <1>5, <2>1
<1> QED BY <1>1, <1>2, <1>3, <1>4, <1>6

LEMMA WholeKeeps ==
    ASSUME RunInv, Placed, SnapInv, WholeInv, NEW r \in Market, MarketStep(r)
    PROVE  WholeInv'
<1>0. r \in Run /\ Moves(r) /\ QuotesStay BY PipelinesDiffer, MarketMoves, SavedStay
<1>1. \A q \in Market \ {r} : WholeSoFar(q)'
  <2> SUFFICES ASSUME NEW q \in Market, q # r PROVE WholeSoFar(q)' OBVIOUS
  <2>1. /\ at'[q] = at[q] /\ step'[q] = step[q] /\ phase'[q] = phase[q] /\ row'[q] = row[q]
    BY <1>0, PipelinesDiffer DEF Moves
  <2> QED BY <1>0, <2>1, ColumnsAreOwn, OthersStayWhole
<1>2. /\ phase \in [Run -> Phases] /\ at \in [Run -> Nat] /\ step \in [Run -> Nat]
      /\ row \in [Run -> [status : Statuses, dated : BOOLEAN]] /\ at[r] \in Nat /\ step[r] \in Nat
      /\ phase[r] = "stage" => at[r] \in 1..7
      /\ phase[r] = "new" => at[r] = 0
  BY <1>0 DEF RunInv, RunTypes, Placed, RowFits
<1>3. /\ DOMAIN batch = Market /\ DOMAIN snapshots = Market /\ DOMAIN inserted = Market /\ DOMAIN features = Market
      /\ saved \subseteq DOMAIN stamps
  BY DEF SnapInv, WholeInv
<1>4. WholeSoFar(r) BY DEF WholeInv
<1>5. phase[r] = "stage" => /\ MarketStages[at[r]] = "Collector" => at[r] = 2
                            /\ MarketStages[at[r]] = "Snapshot Engine" => at[r] = 3
                            /\ MarketStages[at[r]] = "Feature Engine" => at[r] = 4
  BY <1>2, SnapshotStage
<1>6. ASSUME NEW n \in Nat, StageReturns(r, MarketStages), phase[r] = "stage", at[r] = n
      PROVE  at'[r] = n + 1 /\ step'[r] = 1 /\ (phase'[r] = "completing" => n = 7)
  BY <1>0, <1>2, <1>6, SnapshotStage DEF StageReturns, NextStage, Goto
<1>7. WholeSoFar(r)'
  <2>1. CASE SaveQuotes(r)
    <3>1. phase[r] = "stage" /\ at[r] = 2 /\ saved' # {} /\ StageReturns(r, MarketStages) /\ row' = row
      BY <1>5, <2>1 DEF SaveQuotes, AtStep, InStage, MarketStageEnds
    <3>2. at'[r] = 3 /\ step'[r] = 1 /\ phase'[r] # "completing" BY <1>2, <1>6, <3>1
    <3> QED BY <1>4, <3>1, <3>2 DEF WholeSoFar, Beyond
  <2>2. CASE ReadLatestBatch(r)
    <3>1. /\ phase[r] = "stage" /\ at[r] = 3 /\ step[r] = 1 /\ UNCHANGED <<phase, at, row, saved, stamps, inserted, snapshots, features>>
          /\ step' = [step EXCEPT ![r] = @ + 1]
      BY <1>5, <2>2 DEF ReadLatestBatch, AtStep, InStage, Step
    <3>2. step'[r] = 2 BY <1>0, <1>2, <3>1
    <3>3. batch'[r] = LatestBatch(saved) BY <1>3, <2>2 DEF ReadLatestBatch
    <3>4. LatestBatch(saved) \in saved
      <4>1. saved # {} /\ HasLast(saved) BY <1>4, <3>1 DEF WholeSoFar, SnapInv
      <4> QED BY <4>1 DEF HasLast, LatestBatch
    <3>5. stamps[LatestBatch(saved)].quotes = inserted[r] BY <2>2 DEF ReadLatestBatch
    <3> QED BY <1>4, <3>1, <3>2, <3>3, <3>4, <3>5 DEF WholeSoFar, Beyond
  <2>3. CASE InsertSnapshots(r)
    <3>1. /\ phase[r] = "stage" /\ at[r] = 3 /\ step[r] = 3 /\ UNCHANGED <<phase, at, row, saved, stamps, inserted, batch, features>>
          /\ step' = [step EXCEPT ![r] = @ + 1]
      BY <1>5, <2>3 DEF InsertSnapshots, AtStep, InStage, Step
    <3>2. step'[r] = 4 BY <1>0, <1>2, <3>1
    <3>3. snapshots'[r] = batch[r] BY <1>3, <2>3 DEF InsertSnapshots
    <3> QED BY <1>4, <3>1, <3>2, <3>3 DEF WholeSoFar, Beyond
  <2>4. CASE InsertFeatures(r)
    <3>1. /\ phase[r] = "stage" /\ at[r] = 4 /\ UNCHANGED <<phase, at, row, saved, stamps, inserted, batch, snapshots>>
      BY <1>5, <2>4 DEF InsertFeatures, AtStep, InStage, Step
    <3>2. features'[r] = snapshots[r] BY <1>3, <2>4 DEF InsertFeatures, UpsertFeatures, FeatureInputs
    <3> QED BY <1>4, <3>1, <3>2 DEF WholeSoFar, Beyond
  <2>5. CASE StartSnapshots(r)
    <3>1. /\ phase[r] = "stage" /\ at[r] = 3 /\ step[r] = 2 /\ UNCHANGED <<phase, at>> /\ UNCHANGED marketVars
          /\ step' = [step EXCEPT ![r] = @ + 1] /\ WriteStatus(r, "RUNNING", FALSE)
      BY <1>5, <2>5 DEF StartSnapshots, AtStep, InStage, Step
    <3>2. step'[r] = 3 /\ row'[r].status = "RUNNING" BY <1>0, <1>2, <3>1 DEF WriteStatus
    <3> QED BY <1>4, <3>1, <3>2 DEF WholeSoFar, Beyond, marketVars
  <2>6. CASE CompleteSnapshots(r)
    <3>1. /\ phase[r] = "stage" /\ at[r] = 3 /\ step[r] = 4 /\ UNCHANGED marketVars
          /\ StageReturns(r, MarketStages) /\ WriteStatus(r, "SNAPSHOT_COMPLETE", TRUE)
      BY <1>5, <2>6 DEF CompleteSnapshots, AtStep, InStage, MarketStageEnds
    <3>2. at'[r] = 4 /\ step'[r] = 1 /\ phase'[r] # "completing" BY <1>2, <1>6, <3>1
    <3>3. row'[r].status = "SNAPSHOT_COMPLETE" BY <1>0, <1>2, <3>1 DEF WriteStatus
    <3> QED BY <1>4, <3>1, <3>2, <3>3 DEF WholeSoFar, Beyond, marketVars
  <2>7. CASE CompleteFeatures(r)
    <3>1. /\ phase[r] = "stage" /\ at[r] = 4 /\ step[r] = 2 /\ UNCHANGED marketVars
          /\ StageReturns(r, MarketStages) /\ WriteStatus(r, "FEATURE_COMPLETE", TRUE)
      BY <1>5, <2>7 DEF CompleteFeatures, AtStep, InStage, MarketStageEnds
    <3>2. at'[r] = 5 /\ step'[r] = 1 BY <1>2, <1>6, <3>1
    <3> QED BY <1>4, <3>1, <3>2 DEF WholeSoFar, Beyond, marketVars
  <2>8. CASE FetchBatch(r)
    <3>1. phase[r] = "stage" /\ at[r] = 2 /\ UNCHANGED <<phase, at, row, saved, inserted, batch, snapshots, features>>
      BY <1>5, <2>8 DEF FetchBatch, InStage, Step
    <3> QED BY <1>4, <3>1 DEF WholeSoFar, Beyond
  <2>9. CASE PassThrough(r)
    <3>1. /\ phase[r] = "stage" /\ MarketStages[at[r]] \in {"Database", "Ranking Engine", "Risk Engine", "Signal Engine"}
          /\ StageReturns(r, MarketStages) /\ row' = row /\ UNCHANGED marketVars
      BY <2>9 DEF PassThrough, InStage, MarketStageEnds
    <3>2. at[r] = 1 \/ at[r] >= 5
      <4>1. MarketStages[2] = "Collector" /\ MarketStages[3] = "Snapshot Engine" /\ MarketStages[4] = "Feature Engine"
        BY DEF MarketStages
      <4>2. at[r] # 2 /\ at[r] # 3 /\ at[r] # 4 BY <3>1, <4>1
      <4>3. at[r] \in 1..7 BY <1>2, <3>1
      <4> QED BY <4>2, <4>3
    <3>3. at'[r] = at[r] + 1 /\ step'[r] = 1 /\ (phase'[r] = "completing" => at[r] = 7) BY <1>2, <1>6, <3>1
    <3>4. CASE at[r] = 1
      <4>1. at'[r] = 2 /\ phase'[r] # "completing" BY <3>3, <3>4
      <4>2. ~ (at[r] > 4) /\ ~ (at'[r] >= 3) /\ ~ (at'[r] > 3) /\ ~ (at'[r] > 4) /\ at'[r] # 3 /\ at'[r] # 4
        BY <3>4, <4>1
      <4>3. row'[r].status # "COMPLETED" BY <1>4, <3>1, <4>2 DEF WholeSoFar
      <4> QED BY <4>1, <4>2, <4>3 DEF WholeSoFar, Beyond
    <3>5. CASE at[r] >= 5
      <4>1. at'[r] > 4 /\ at'[r] # 3 /\ at'[r] # 4 /\ at'[r] >= 3 /\ at[r] > 4 /\ at[r] >= 3 /\ at[r] > 3 /\ at'[r] > 3
        BY <1>2, <3>3, <3>5
      <4> QED BY <1>4, <3>1, <4>1 DEF WholeSoFar, Beyond, marketVars
    <3> QED BY <3>2, <3>4, <3>5
  <2>10. ASSUME UNCHANGED <<at, step>>, UNCHANGED marketVars, phase'[r] # "completing",
                row'[r].status = "COMPLETED" => row[r].status = "COMPLETED" \/ phase[r] = "completing"
         PROVE  WholeSoFar(r)'
    BY <1>4, <2>10 DEF WholeSoFar, Beyond, marketVars
  <2>11. CASE NothingCollected(r) \/ BatchDisagrees(r)
    <3>1. UNCHANGED <<at, step, row>> /\ UNCHANGED marketVars /\ phase'[r] = "unwinding"
      BY <1>0, <1>2, <2>11 DEF NothingCollected, BatchDisagrees, RaiseHere, Unwind, Goto
    <3> QED BY <2>10, <3>1
  <2>12. CASE MarketCallFails(r)
    <3>1. UNCHANGED <<at, step>> /\ UNCHANGED marketVars /\ phase'[r] = "unwinding"
      BY <1>0, <1>2, <2>12 DEF MarketCallFails, CallFails, Unwind, Goto
    <3>2. row' = row \/ row'[r].status \in {"SNAPSHOT_COMPLETE", "FEATURE_COMPLETE"}
      <4>1. ASSUME NEW status, WriteStatus(r, status, TRUE) PROVE row'[r].status = status
        BY <1>0, <1>2, <4>1 DEF WriteStatus
      <4> QED BY <2>12, <4>1 DEF MarketCallFails
    <3> QED BY <2>10, <3>1, <3>2
  <2>13. CASE MarketCommon(r) /\ UNCHANGED marketVars
    <3>1. CASE StartPipeline(r)
      <4>1. at'[r] = 1 /\ phase'[r] = "stage" /\ row'[r].status = "RUNNING"
        BY <1>0, <1>2, <3>1 DEF StartPipeline, NextStage, Goto, StartRunRow
      <4> QED BY <2>13, <4>1 DEF WholeSoFar, Beyond, marketVars
    <3>2. CASE StartRaises(r)
      <4>1. UNCHANGED <<at, step>> /\ phase'[r] = "raised" /\ (row' = row \/ row'[r].status = "RUNNING")
        BY <1>0, <1>2, <3>2 DEF StartRaises, Goto, StartRunRow
      <4> QED BY <2>10, <2>13, <4>1
    <3>3. CASE StageRaises(r, MarketStages) \/ RecordFailure(r, MarketStages, NoSymbol) \/ CrashRun(r)
      <4>1. UNCHANGED <<at, step, row>> /\ phase'[r] # "completing"
        BY <1>0, <1>2, <3>3 DEF StageRaises, RecordFailure, CrashRun, Goto
      <4> QED BY <2>10, <2>13, <4>1
    <3>4. CASE FailRun(r)
      <4>1. UNCHANGED <<at, step>> /\ phase'[r] = "raised" /\ (row' = row \/ row'[r].status = "FAILED")
        BY <1>0, <1>2, <3>4 DEF FailRun, Goto, WriteRaises, WriteStatus
      <4> QED BY <2>10, <2>13, <4>1
    <3>5. CASE CompleteRun(r)
      <4>1. UNCHANGED <<at, step>> /\ phase[r] = "completing" /\ phase'[r] # "completing"
        BY <1>0, <1>2, <3>5 DEF CompleteRun, Goto
      <4> QED BY <2>10, <2>13, <4>1
    <3> QED BY <2>13, <3>1, <3>2, <3>3, <3>4, <3>5 DEF MarketCommon
  <2> QED BY <2>1, <2>2, <2>3, <2>4, <2>5, <2>6, <2>7, <2>8, <2>9, <2>11, <2>12, <2>13 DEF MarketStep, MarketCommon
<1>8. \A q \in Market : WholeSoFar(q)'
  BY <1>1, <1>7
<1> QED BY <1>8, ColumnsAreOwn DEF WholeInv

\* Nothing of it is touched from outside.
LEMMA WholeRests ==
    ASSUME RunInv, WholeInv, UNCHANGED marketVars, NEW r \in Run \ Market, Moves(r)
    PROVE  WholeInv'
<1>1. QuotesStay BY DEF QuotesStay, marketVars
<1>2. ASSUME NEW q \in Market PROVE WholeSoFar(q)'
  <2>1. q \in Run \ {r} BY PipelinesDiffer
  <2>2. at'[q] = at[q] /\ step'[q] = step[q] /\ phase'[q] = phase[q] /\ row'[q] = row[q] BY <2>1 DEF Moves
  <2> QED BY <1>1, <2>2, OthersStayWhole DEF marketVars
<1> QED BY <1>2 DEF WholeInv, marketVars

LEMMA WholeInitially == RunInit /\ MarketInit => WholeInv
<1> SUFFICES ASSUME RunInit, MarketInit PROVE WholeInv OBVIOUS
<1>1. \A r \in Market : at[r] = 0 /\ phase[r] = "new" /\ row[r].status = "none"
  BY PipelinesDiffer DEF RunInit, NoRow
<1> QED BY <1>1 DEF WholeInv, WholeSoFar, Beyond, MarketInit

LEMMA WholeHolds == Spec => []WholeInv
<1>1. Init => WholeInv BY WholeInitially DEF Init
<1>2. OperationsInv /\ WholeInv /\ [Next]_operationsVars => WholeInv'
  <2> SUFFICES ASSUME OperationsInv, WholeInv, [Next]_operationsVars PROVE WholeInv' OBVIOUS
  <2>1. CASE MarketRuns BY <2>1, WholeKeeps DEF MarketRuns, OperationsInv
  <2>2. CASE OptionRuns
    <3>1. PICK r \in Options : OptionStep(r) BY <2>2 DEF OptionRuns
    <3>2. r \in Run \ Market /\ Moves(r) BY <3>1, OptionMoves, PipelinesDiffer DEF OperationsInv
    <3> QED BY <2>2, <3>2, WholeRests DEF OptionRuns, OperationsInv
  <2>3. CASE UNCHANGED <<runVars, marketVars>>
    <3>1. UNCHANGED <<at, step, phase, row, stamps, saved, inserted, batch, snapshots, features>>
      BY <2>3 DEF runVars, marketVars
    <3> QED BY <3>1 DEF WholeInv, WholeSoFar, Beyond
  <2> QED BY <2>1, <2>2, <2>3 DEF Next, Alerts, Imports, Repairs, Migrations, operationsVars
<1> QED BY <1>1, <1>2, OperationsHold, PTL DEF Spec

\* A COMPLETED production run has one snapshot per quote it inserted, and features of
\* exactly these, whatever runs collect beside it.
THEOREM CompletedRunsAreWhole == Spec => []CompletedRunIsWhole
<1>1. OperationsInv /\ WholeInv => CompletedRunIsWhole
  <2> SUFFICES ASSUME OperationsInv, WholeInv, NEW r \in Market, row[r].status = "COMPLETED"
      PROVE  snapshots[r] \in saved /\ stamps[snapshots[r]].quotes = inserted[r] /\ features[r] = snapshots[r]
    BY DEF CompletedRunIsWhole
  <2>1. WholeSoFar(r) /\ at[r] \in Nat BY PipelinesDiffer DEF WholeInv, OperationsInv, RunInv, RunTypes
  <2> QED BY <2>1 DEF WholeSoFar, Beyond
<1> QED BY <1>1, OperationsHold, WholeHolds, PTL

---------------------------------------------------------------------------
\* Deliveries. A call that is about to deliver has a row of its own already: the rows of
\* an alert on a channel are at least what was sent and what is about to be.
IsCall(me) == me \in [pc : {me.pc}, todo : {me.todo}, channel : {me.channel}, attempt : {me.attempt}, ok : {me.ok}]

\* Calls that are about to deliver alert s on channel c.
Pending(calls, s, c) ==
    {n \in Notifier : calls[n].pc = "deliver" /\ Head(calls[n].todo).source = s /\ Channels[calls[n].channel] = c}

Marks == {"PENDING", "DELIVERED", "FAILED"}

AlertTypes ==
    /\ attempts \in [Source -> [Channel -> Seq(Marks)]]
    /\ sent \in [Source -> [Channel -> Nat]]
    /\ DOMAIN caller = Notifier /\ \A n \in Notifier : IsCall(caller[n])

OnRecord(calls, s, c, rows, arrived) == arrived + Cardinality(Pending(calls, s, c)) <= Len(rows)

AlertInv ==
    AlertTypes /\ \A s \in Source, c \in Channel : OnRecord(caller, s, c, attempts[s][c], sent[s][c])

LEMMA PendingIsFinite ==
    ASSUME NEW calls, NEW s, NEW c
    PROVE  IsFiniteSet(Pending(calls, s, c)) /\ Cardinality(Pending(calls, s, c)) \in Nat
<1>1. Pending(calls, s, c) \subseteq Notifier BY DEF Pending
<1>2. IsFiniteSet(Pending(calls, s, c)) BY <1>1, NotifiersAreFinite, FS_Subset
<1> QED BY <1>2, FS_CardinalityType

LEMMA CallsAreTyped ==
    ASSUME NEW me, IsCall(me)
    PROVE  /\ IsCall(Idle) /\ IsCall(Advance(me)) /\ Advance(me).pc # "deliver" /\ Idle.pc # "deliver"
<1>1. IsCall(Idle) /\ Idle.pc # "deliver" BY DEF IsCall, Idle
<1>2. CASE me.channel < Len(Channels)
  <2>1. PICK on : on = [me EXCEPT !.pc = "check", !.channel = @ + 1] OBVIOUS
  <2>2. IsCall(on) /\ on.pc = "check" BY <2>1 DEF IsCall
  <2>3. Advance(me) = on BY <1>2, <2>1 DEF Advance
  <2> QED BY <1>1, <2>2, <2>3
<1>3. CASE ~ (me.channel < Len(Channels))
  <2>1. PICK on : on = [Idle EXCEPT !.pc = "ensure", !.todo = Tail(me.todo)] OBVIOUS
  <2>2. IsCall(on) /\ on.pc = "ensure" BY <2>1 DEF IsCall, Idle
  <2>3. Advance(me) = on \/ Advance(me) = Idle BY <1>3, <2>1 DEF Advance
  <2> QED BY <1>1, <2>2, <2>3
<1> QED BY <1>2, <1>3

\* A call goes on to anything but a delivery: no more of them are pending than before.
LEMMA CallGoesOn ==
    ASSUME AlertInv, NEW n \in Notifier, NEW next, IsCall(next), next.pc # "deliver", Becomes(n, next)
    PROVE  /\ DOMAIN caller' = Notifier /\ \A m \in Notifier : IsCall(caller'[m])
           /\ \A s, c : Pending(caller', s, c) = Pending(caller, s, c) \ {n}
           /\ \A s, c : Cardinality(Pending(caller', s, c)) <= Cardinality(Pending(caller, s, c))
<1>1. \A m \in Notifier : caller'[m] = IF m = n THEN next ELSE caller[m]
  BY DEF AlertInv, AlertTypes, Becomes
<1>2. DOMAIN caller' = Notifier /\ \A m \in Notifier : IsCall(caller'[m])
  BY <1>1 DEF AlertInv, AlertTypes, Becomes
<1>3. ASSUME NEW s, NEW c PROVE Pending(caller', s, c) = Pending(caller, s, c) \ {n}
  BY <1>1 DEF Pending
<1>4. ASSUME NEW s, NEW c PROVE Cardinality(Pending(caller', s, c)) <= Cardinality(Pending(caller, s, c))
  <2>1. Pending(caller', s, c) \subseteq Pending(caller, s, c) BY <1>3
  <2> QED BY <2>1, PendingIsFinite, FS_Subset
<1> QED BY <1>2, <1>3, <1>4

\* The rows and what was sent stay, or grow.
LEMMA GoingOnKeeps ==
    ASSUME AlertInv, NEW n \in Notifier, NEW next, IsCall(next), next.pc # "deliver", Becomes(n, next),
           sent' = sent, attempts' \in [Source -> [Channel -> Seq(Marks)]],
           \A s \in Source, c \in Channel : Len(attempts'[s][c]) = Len(attempts[s][c])
    PROVE  AlertInv'
<1>1. AlertTypes' BY CallGoesOn DEF AlertInv, AlertTypes
<1>2. ASSUME NEW s \in Source, NEW c \in Channel PROVE OnRecord(caller', s, c, attempts'[s][c], sent'[s][c])
  <2>1. OnRecord(caller, s, c, attempts[s][c], sent[s][c]) BY DEF AlertInv
  <2>2. Cardinality(Pending(caller', s, c)) <= Cardinality(Pending(caller, s, c)) BY CallGoesOn
  <2>3. Cardinality(Pending(caller', s, c)) \in Nat /\ Cardinality(Pending(caller, s, c)) \in Nat BY PendingIsFinite
  <2>4. sent[s][c] \in Nat /\ Len(attempts[s][c]) \in Nat
    BY LenProperties DEF AlertInv, AlertTypes
  <2> QED BY <2>1, <2>2, <2>3, <2>4 DEF OnRecord
<1> QED BY <1>1, <1>2 DEF AlertInv

LEMMA CountsAreTyped ==
    ASSUME AlertInv, NEW s \in Source, NEW c \in Channel
    PROVE  /\ sent[s][c] \in Nat /\ attempts[s][c] \in Seq(Marks) /\ Len(attempts[s][c]) \in Nat
           /\ OnRecord(caller, s, c, attempts[s][c], sent[s][c])
BY LenProperties DEF AlertInv, AlertTypes

\* The row is inserted before the delivery.
LEMMA StartKeeps == ASSUME AlertInv, NEW n \in Notifier, StartDelivery(n) PROVE AlertInv'
<1>1. PICK s0, c0 : s0 = Subject(n) /\ c0 = Via(n) OBVIOUS
<1>2. /\ sent' = sent /\ caller[n].pc = "start"
      /\ attempts' = [attempts EXCEPT ![s0][c0] = Append(@, "PENDING")]
  BY <1>1 DEF StartDelivery, At
<1>3. PICK next : next = [caller[n] EXCEPT !.pc = "deliver", !.attempt = Len(Rows(n)) + 1] OBVIOUS
<1>4. IsCall(caller[n]) BY DEF AlertInv, AlertTypes
<1>5. IsCall(next) /\ next.pc = "deliver" /\ next.todo = caller[n].todo /\ next.channel = caller[n].channel
  BY <1>3, <1>4 DEF IsCall
<1>6. \A m \in Notifier : caller'[m] = IF m = n THEN next ELSE caller[m]
  BY <1>3 DEF AlertInv, AlertTypes, StartDelivery, Becomes
<1>7. DOMAIN caller' = Notifier BY DEF AlertInv, AlertTypes, StartDelivery, Becomes
<1>8. ASSUME NEW s \in Source, NEW c \in Channel
      PROVE  /\ attempts'[s][c] \in Seq(Marks) /\ sent'[s][c] \in Nat
             /\ OnRecord(caller', s, c, attempts'[s][c], sent'[s][c])
  <2>1. /\ sent[s][c] \in Nat /\ attempts[s][c] \in Seq(Marks) /\ Len(attempts[s][c]) \in Nat
        /\ OnRecord(caller, s, c, attempts[s][c], sent[s][c])
    BY CountsAreTyped
  <2>2. CASE s = s0 /\ c = c0
    <3>1. attempts'[s][c] = Append(attempts[s][c], "PENDING")
      BY <1>2, <2>2 DEF AlertInv, AlertTypes
    <3>2. attempts'[s][c] \in Seq(Marks) /\ Len(attempts'[s][c]) = Len(attempts[s][c]) + 1
      BY <2>1, <3>1, AppendProperties DEF Marks
    <3>3. Pending(caller', s, c) = Pending(caller, s, c) \union {n}
      BY <1>1, <1>5, <1>6, <2>2 DEF Pending, Subject, Via
    <3>4. n \notin Pending(caller, s, c) BY <1>2 DEF Pending
    <3>5. Cardinality(Pending(caller', s, c)) = Cardinality(Pending(caller, s, c)) + 1
      BY <3>3, <3>4, PendingIsFinite, FS_AddElement
    <3>6. Cardinality(Pending(caller, s, c)) \in Nat BY PendingIsFinite
    <3> QED BY <1>2, <2>1, <3>2, <3>5, <3>6 DEF OnRecord
  <2>3. CASE ~ (s = s0 /\ c = c0)
    <3>1. attempts'[s][c] = attempts[s][c] BY <1>2, <2>3 DEF AlertInv, AlertTypes
    <3>2. Pending(caller', s, c) = Pending(caller, s, c)
      BY <1>1, <1>2, <1>5, <1>6, <2>3 DEF Pending, Subject, Via
    <3> QED BY <1>2, <2>1, <3>1, <3>2 DEF OnRecord
  <2> QED BY <2>2, <2>3
<1>9. AlertTypes'
  <2>1. DOMAIN attempts' = Source /\ \A s \in Source : DOMAIN attempts'[s] = Channel
    BY <1>2 DEF AlertInv, AlertTypes
  <2>2. attempts' = [s \in Source |-> [c \in Channel |-> attempts'[s][c]]]
    BY <1>2 DEF AlertInv, AlertTypes
  <2>3. attempts' \in [Source -> [Channel -> Seq(Marks)]] BY <2>2, <1>8
  <2> QED BY <1>2, <1>4, <1>5, <1>6, <1>7, <2>3 DEF AlertInv, AlertTypes
<1> QED BY <1>8, <1>9 DEF AlertInv

\* What arrives was pending.
LEMMA DeliveryKeeps == ASSUME AlertInv, NEW n \in Notifier, Deliver(n) PROVE AlertInv'
<1>1. PICK s0, c0 : s0 = Subject(n) /\ c0 = Via(n) OBVIOUS
<1>2. PICK arrives \in BOOLEAN, ok \in BOOLEAN :
        /\ sent' = [sent EXCEPT ![s0][c0] = @ + IF arrives THEN 1 ELSE 0]
        /\ Becomes(n, [caller[n] EXCEPT !.pc = "finish", !.ok = ok])
  BY <1>1 DEF Deliver
<1>3. attempts' = attempts /\ caller[n].pc = "deliver" BY DEF Deliver, At
<1>4. PICK next : next = [caller[n] EXCEPT !.pc = "finish", !.ok = ok] OBVIOUS
<1>5. IsCall(next) /\ next.pc # "deliver"
  <2>1. IsCall(caller[n]) BY DEF AlertInv, AlertTypes
  <2> QED BY <2>1, <1>4 DEF IsCall
<1>6. /\ DOMAIN caller' = Notifier /\ \A m \in Notifier : IsCall(caller'[m])
      /\ \A s, c : Pending(caller', s, c) = Pending(caller, s, c) \ {n}
      /\ \A s, c : Cardinality(Pending(caller', s, c)) <= Cardinality(Pending(caller, s, c))
  BY <1>2, <1>4, <1>5, CallGoesOn
<1>7. ASSUME NEW s \in Source, NEW c \in Channel
      PROVE  /\ attempts'[s][c] \in Seq(Marks) /\ sent'[s][c] \in Nat
             /\ OnRecord(caller', s, c, attempts'[s][c], sent'[s][c])
  <2>1. /\ sent[s][c] \in Nat /\ attempts[s][c] \in Seq(Marks) /\ Len(attempts[s][c]) \in Nat
        /\ OnRecord(caller, s, c, attempts[s][c], sent[s][c])
    BY CountsAreTyped
  <2>2. Cardinality(Pending(caller, s, c)) \in Nat /\ Cardinality(Pending(caller', s, c)) \in Nat BY PendingIsFinite
  <2>3. CASE s = s0 /\ c = c0
    <3>1. sent'[s][c] = sent[s][c] \/ sent'[s][c] = sent[s][c] + 1
      <4>1. sent'[s][c] = sent[s][c] + IF arrives THEN 1 ELSE 0 BY <1>2, <2>3 DEF AlertInv, AlertTypes
      <4> QED BY <4>1, <2>1
    <3>2. n \in Pending(caller, s, c) BY <1>1, <1>3, <2>3 DEF Pending, Subject, Via
    <3>3. Cardinality(Pending(caller', s, c)) = Cardinality(Pending(caller, s, c)) - 1
      BY <1>6, <3>2, PendingIsFinite, FS_RemoveElement
    <3> QED BY <1>3, <2>1, <2>2, <3>1, <3>3 DEF OnRecord
  <2>4. CASE ~ (s = s0 /\ c = c0)
    <3>1. sent'[s][c] = sent[s][c] BY <1>2, <2>4 DEF AlertInv, AlertTypes
    <3>2. Cardinality(Pending(caller', s, c)) <= Cardinality(Pending(caller, s, c)) BY <1>6
    <3> QED BY <1>3, <2>1, <2>2, <3>1, <3>2 DEF OnRecord
  <2> QED BY <2>3, <2>4
<1>8. sent' \in [Source -> [Channel -> Nat]]
  <2>1. sent' = [s \in Source |-> [c \in Channel |-> sent'[s][c]]] BY <1>2 DEF AlertInv, AlertTypes
  <2> QED BY <2>1, <1>7
<1> QED BY <1>3, <1>6, <1>7, <1>8 DEF AlertInv, AlertTypes

\* The verdict of a row is written in place.
LEMMA RecordKeepsLength ==
    ASSUME AlertInv, NEW n \in Notifier, Record(n)
    PROVE  /\ attempts' \in [Source -> [Channel -> Seq(Marks)]]
           /\ \A s \in Source, c \in Channel : Len(attempts'[s][c]) = Len(attempts[s][c])
<1>1. PICK s0, c0, k, mark : s0 = Subject(n) /\ c0 = Via(n) /\ k = caller[n].attempt
                             /\ mark = (IF caller[n].ok THEN "DELIVERED" ELSE "FAILED") OBVIOUS
<1>2. attempts' = [attempts EXCEPT ![s0][c0][k] = mark] /\ mark \in Marks BY <1>1 DEF Record, Marks
<1>3. ASSUME NEW s \in Source, NEW c \in Channel
      PROVE  attempts'[s][c] \in Seq(Marks) /\ Len(attempts'[s][c]) = Len(attempts[s][c])
  <2>1. PICK rows : rows = attempts[s][c] OBVIOUS
  <2>2. rows \in Seq(Marks) /\ Len(rows) \in Nat /\ DOMAIN rows = 1..Len(rows)
    BY <2>1, CountsAreTyped, LenProperties
  <2>3. CASE s = s0 /\ c = c0
    <3>1. attempts'[s][c] = [rows EXCEPT ![k] = mark] BY <1>2, <2>1, <2>3 DEF AlertInv, AlertTypes
    <3>2. PICK new : new = [rows EXCEPT ![k] = mark] OBVIOUS
    <3>3. new \in [1..Len(rows) -> Marks]
      <4>1. \A j \in 1..Len(rows) : rows[j] \in Marks BY <2>2, ElementOfSeq
      <4> QED BY <1>2, <2>2, <3>2, <4>1
    <3>4. new \in Seq(Marks) BY <2>2, <3>3, SeqDef
    <3>5. Len(new) = Len(rows) BY <2>2, <3>3, <3>4, LenProperties
    <3> QED BY <2>1, <3>1, <3>2, <3>4, <3>5
  <2>4. CASE ~ (s = s0 /\ c = c0)
    <3>1. attempts'[s][c] = rows BY <1>2, <2>1, <2>4 DEF AlertInv, AlertTypes
    <3> QED BY <2>1, <2>2, <3>1
  <2> QED BY <2>3, <2>4
<1>4. attempts' = [s \in Source |-> [c \in Channel |-> attempts'[s][c]]] BY <1>2 DEF AlertInv, AlertTypes
<1> QED BY <1>3, <1>4

LEMMA CallerKeeps == ASSUME AlertInv, NEW n \in Notifier, NotifierStep(n) \/ Abort(n) PROVE AlertInv'
<1>1. IsCall(caller[n]) BY DEF AlertInv, AlertTypes
<1>2. /\ attempts \in [Source -> [Channel -> Seq(Marks)]]
      /\ \A s \in Source, c \in Channel : Len(attempts[s][c]) = Len(attempts[s][c])
  BY DEF AlertInv, AlertTypes
<1>3. ASSUME NEW next, IsCall(next), next.pc # "deliver", Becomes(n, next), sent' = sent,
             attempts' = attempts \/ Record(n)
      PROVE  AlertInv'
  <2>1. CASE attempts' = attempts BY <1>2, <1>3, <2>1, GoingOnKeeps
  <2>2. CASE Record(n) BY <1>3, <2>2, RecordKeepsLength, GoingOnKeeps
  <2> QED BY <1>3, <2>1, <2>2
<1>4. CASE ListCandidates(n)
  <2>1. PICK next : next = [Idle EXCEPT !.pc = "ensure", !.todo = Candidates] OBVIOUS
  <2>2. IsCall(next) /\ next.pc # "deliver" BY <2>1 DEF IsCall, Idle
  <2> QED BY <1>3, <1>4, <2>1, <2>2 DEF ListCandidates
<1>5. CASE EnsureAlert(n)
  <2>1. PICK next : next = [caller[n] EXCEPT !.pc = "check", !.channel = 1] OBVIOUS
  <2>2. IsCall(next) /\ next.pc # "deliver" BY <1>1, <2>1 DEF IsCall
  <2> QED BY <1>3, <1>5, <2>1, <2>2 DEF EnsureAlert
<1>6. CASE FindUndelivered(n)
  <2>1. PICK next : next = [caller[n] EXCEPT !.pc = "start"] OBVIOUS
  <2>2. IsCall(next) /\ next.pc # "deliver" BY <1>1, <2>1 DEF IsCall
  <2> QED BY <1>3, <1>6, <2>1, <2>2 DEF FindUndelivered
<1>7. PICK on : on = Advance(caller[n]) OBVIOUS
<1>8. IsCall(on) /\ on.pc # "deliver" BY <1>1, <1>7, CallsAreTyped
<1>9. CASE SkipDelivered(n) BY <1>3, <1>7, <1>8, <1>9 DEF SkipDelivered
<1>10. CASE FinishDelivery(n) BY <1>3, <1>7, <1>8, <1>10 DEF FinishDelivery
<1>11. IsCall(Idle) /\ Idle.pc # "deliver" BY <1>1, CallsAreTyped
<1>12. CASE SecondDeliveryRefused(n) BY <1>3, <1>11, <1>12 DEF SecondDeliveryRefused
<1>13. CASE Abort(n) BY <1>3, <1>11, <1>13 DEF Abort
<1> QED BY <1>4, <1>5, <1>6, <1>9, <1>10, <1>12, <1>13, StartKeeps, DeliveryKeeps DEF NotifierStep

LEMMA AlertInitially == AlertInit => AlertInv
<1> SUFFICES ASSUME AlertInit PROVE AlertInv OBVIOUS
<1>1. attempts \in [Source -> [Channel -> Seq(Marks)]] BY EmptySeq DEF AlertInit
<1>2. sent \in [Source -> [Channel -> Nat]] BY DEF AlertInit
<1>3. AlertTypes BY <1>1, <1>2 DEF AlertInit, AlertTypes, IsCall, Idle
<1>4. ASSUME NEW s \in Source, NEW c \in Channel PROVE OnRecord(caller, s, c, attempts[s][c], sent[s][c])
  <2>1. Pending(caller, s, c) = {} BY DEF Pending, AlertInit, Idle
  <2>2. Cardinality(Pending(caller, s, c)) = 0 BY <2>1, FS_EmptySet
  <2>3. attempts[s][c] = <<>> /\ sent[s][c] = 0 BY DEF AlertInit
  <2>4. Len(<<>>) = 0 BY EmptySeq
  <2> QED BY <2>2, <2>3, <2>4 DEF OnRecord
<1> QED BY <1>3, <1>4 DEF AlertInv

LEMMA AlertsHold == Spec => []AlertInv
<1>1. Init => AlertInv BY AlertInitially DEF Init
<1>2. AlertInv /\ [Next]_operationsVars => AlertInv'
  <2> SUFFICES ASSUME AlertInv, [Next]_operationsVars PROVE AlertInv' OBVIOUS
  <2>1. CASE UNCHANGED <<attempts, sent, caller>> BY <2>1 DEF AlertInv, AlertTypes
  <2>2. CASE Alerts
    <3>1. ASSUME NEW s \in Source, SourceAppears(s) \/ RunTurnsFailed(s) PROVE AlertInv'
      BY <2>1, <3>1 DEF SourceAppears, RunTurnsFailed
    <3> QED BY <2>2, <3>1, CallerKeeps DEF Alerts, AlertStep
  <2>3. CASE ~ Alerts
    <3>1. UNCHANGED alertVars BY <2>3 DEF Next, MarketRuns, OptionRuns, Imports, Repairs, Migrations, operationsVars
    <3> QED BY <2>1, <3>1 DEF alertVars
  <2> QED BY <2>2, <2>3
<1> QED BY <1>1, <1>2, PTL DEF Spec

\* Nothing reaches a channel without a row of its own, whatever calls overlap, raise or
\* die between the row and the delivery (deliver_alert, start_delivery).
THEOREM DeliveriesStayOnRecord == Spec => []DeliveriesAreOnRecord
<1>1. AlertInv => DeliveriesAreOnRecord
  <2> SUFFICES ASSUME AlertInv, NEW s \in Source, NEW c \in Channel PROVE sent[s][c] <= Len(attempts[s][c])
    BY DEF DeliveriesAreOnRecord
  <2>1. Cardinality(Pending(caller, s, c)) \in Nat BY PendingIsFinite
  <2> QED BY <2>1, CountsAreTyped DEF OnRecord
<1> QED BY <1>1, AlertsHold, PTL

---------------------------------------------------------------------------
\* Contracts. What an import that wrote its contracts finds of them later is told by the
\* imports that wrote since; while none has, the rows are its own.
Lists(i) == Ids(importing[i].parsed)
Upserted(i) == importing[i].at \in {"deactivate", "complete"} \/ importRuns[i].status = "COMPLETED"
Cleaned(i) == importing[i].at = "complete" \/ importRuns[i].status = "COMPLETED"

IsImport(x) == x \in [at : {x.at}, parsed : {x.parsed}, rejected : {x.rejected},
                      upserted : {x.upserted}, deactivated : {x.deactivated}]
IsImportRun(x) == x \in [status : {x.status}, dated : {x.dated}, upserted : {x.upserted}, deactivated : {x.deactivated}]
IsListed(x) == x \in [active : BOOLEAN, trading : {x.trading}, underlying : {x.underlying}, expiry : {x.expiry}]

\* A list of contracts, by their places.
IsList(parsed) == Ids(parsed) \subseteq Id /\ \E c \in Nat : DOMAIN parsed = 1..c

ImportTyped(i) ==
    /\ IsImport(importing[i]) /\ IsImportRun(importRuns[i])
    /\ IsList(importing[i].parsed)
    /\ importing[i].at = "new" => Lists(i) = {}
    /\ importRuns[i].status = "COMPLETED" => importing[i].at \in {"failing", "over"}
    /\ since[i] \subseteq Importer /\ \A j \in since[i] : importing[j].at # "new"

\* What is inactive now some later import did not list; what no later import wrote is there.
ImportFollowed(i) ==
    /\ Upserted(i) => \A id \in Lists(i) : contracts[id].active = TRUE \/ \E j \in since[i] : id \notin Lists(j)
    /\ Upserted(i) /\ since[i] = {} => \A id \in Lists(i) : contracts[id] = Row(Of(importing[i].parsed, id))
    /\ Cleaned(i) /\ since[i] = {} => \A id \in Id : contracts[id].active = TRUE => id \in Lists(i)

\* After the first deactivation nothing is active that no import listed.
OnlyListed ==
    (\E i \in Importer : Cleaned(i)) =>
        \A id \in Id : contracts[id].active = TRUE => \E i \in Importer : id \in Lists(i)

SymbolsDistinct(table) ==
    \A id, other \in Id :
        table[id] # Unlisted /\ table[other] # Unlisted /\ table[id].trading = table[other].trading => id = other

ContractInv ==
    /\ DOMAIN importing = Importer /\ DOMAIN since = Importer /\ DOMAIN contracts = Id
    /\ importRuns = [i \in Importer |-> importRuns[i]]
    /\ \A i \in Importer : ImportTyped(i) /\ ImportFollowed(i)
    /\ \A id \in Id : contracts[id] = Unlisted \/ IsListed(contracts[id])
    /\ OnlyListed
    /\ SymbolsDistinct(contracts)

\* The rows of a list are contracts of the master it was parsed from.
LEMMA ParsedIsListed ==
    ASSUME NEW m \in Master, NEW supported, NEW asOf, NEW list, list = Parse(m, supported, asOf).contracts
    PROVE  IsList(list)
<1>1. PICK accepted : accepted = Accepted(m, supported, asOf) OBVIOUS
<1>2. accepted \subseteq DOMAIN m BY <1>1 DEF Accepted
<1>3. m \in Seq(MasterRows) BY MastersAreSequences
<1>4. DOMAIN m = 1..Len(m) /\ Len(m) \in Nat /\ \A n \in DOMAIN m : m[n] \in MasterRows BY <1>3, LenProperties, ElementOfSeq
<1>5. IsFiniteSet(DOMAIN m)
  <2>1. PICK c \in Nat : c = Len(m) BY <1>4
  <2>2. IsFiniteSet(1..c) BY FS_Interval
  <2> QED BY <1>4, <2>1, <2>2
<1>6. accepted \in SUBSET Int /\ IsFiniteSet(accepted)
  <2>1. \A n \in accepted : n \in Int BY <1>2, <1>4
  <2> QED BY <2>1, <1>2, <1>5, FS_Subset
<1>7. DOMAIN list = 1..Cardinality(accepted)
      /\ \A k \in DOMAIN list :
            list[k] = Contract(m[CHOOSE n \in accepted : Cardinality({x \in accepted : x <= n}) = k])
  BY <1>1 DEF Parse
<1>8. ASSUME NEW k \in DOMAIN list PROVE list[k].id \in Id
  <2>1. \E n \in accepted : Cardinality({x \in accepted : x <= n}) = k BY <1>6, <1>7, EveryPlaceIsTaken
  <2>2. PICK n \in accepted : list[k] = Contract(m[n]) BY <1>7, <2>1
  <2>3. m[n] \in MasterRows BY <1>2, <1>4
  <2>4. list[k].id = m[n].id BY <2>2 DEF Contract
  <2> QED BY <2>3, <2>4 DEF Id
<1>9. Cardinality(accepted) \in Nat BY <1>6, FS_CardinalityType
<1> QED BY <1>7, <1>8, <1>9 DEF Ids, IsList

\* Moving on without a contract or its history being written.
LEMMA ImportGoesOn ==
    ASSUME ContractInv, NEW i \in Importer, NEW next, NEW entry,
           UNCHANGED <<contracts, since>>,
           importing' = [importing EXCEPT ![i] = next], importRuns' = [importRuns EXCEPT ![i] = entry],
           IsImport(next), IsImportRun(entry),
           next.parsed = importing[i].parsed, next.at \notin {"new", "deactivate", "complete"},
           entry.status = "COMPLETED" => Cleaned(i) /\ next.at \in {"failing", "over"}
    PROVE  ContractInv'
<1>1. /\ \A j \in Importer : importing'[j] = IF j = i THEN next ELSE importing[j]
      /\ \A j \in Importer : importRuns'[j] = IF j = i THEN entry ELSE importRuns[j]
      /\ DOMAIN importing' = Importer /\ DOMAIN importRuns' = Importer
      /\ importRuns' = [j \in Importer |-> importRuns'[j]]
  BY DEF ContractInv
<1>2. \A j \in Importer : importing'[j].parsed = importing[j].parsed BY <1>1
<1>3. \A j \in Importer : Lists(j)' = Lists(j) BY <1>2 DEF Lists
<1>4. \A j \in Importer : importing'[j].at = "new" => importing[j].at = "new" BY <1>1
<1>5. \A j \in Importer : (Upserted(j)' => Upserted(j)) /\ (Cleaned(j)' => Cleaned(j))
  BY <1>1 DEF Upserted, Cleaned
<1>6. ASSUME NEW j \in Importer PROVE ImportTyped(j)' /\ ImportFollowed(j)'
  <2>1. ImportTyped(j) /\ ImportFollowed(j) BY DEF ContractInv
  <2>2. since[j] \subseteq Importer BY <2>1 DEF ImportTyped
  <2>3. ImportTyped(j)' BY <1>1, <1>3, <1>4, <2>1, <2>2 DEF ImportTyped
  <2>4. ImportFollowed(j)' BY <1>2, <1>3, <1>5, <2>1, <2>2 DEF ImportFollowed
  <2> QED BY <2>3, <2>4
<1>7. OnlyListed' BY <1>3, <1>5 DEF ContractInv, OnlyListed
<1> QED BY <1>1, <1>6, <1>7 DEF ContractInv

LEMMA BeginningKeeps == ASSUME ContractInv, NEW i \in Importer, BeginImport(i) PROVE ContractInv'
<1>1. PICK m \in Master, asOf \in AsOf, dry \in BOOLEAN :
        LET parsed == Parse(m, universe, asOf)
            go == universe # {} /\ parsed.contracts # <<>> /\ ~ dry
        IN  importing' = [importing EXCEPT ![i] = [NoImport EXCEPT
                !.at = IF go THEN "start" ELSE "over",
                !.parsed = IF go THEN parsed.contracts ELSE <<>>,
                !.rejected = IF go THEN parsed.rejected ELSE 0]]
  BY DEF BeginImport
<1>2. PICK list : list = Parse(m, universe, asOf).contracts OBVIOUS
<1>3. IsList(list) BY <1>2, ParsedIsListed
<1>4. PICK next :
        /\ importing' = [importing EXCEPT ![i] = next] /\ IsImport(next)
        /\ next.at \in {"start", "over"} /\ next.parsed \in {list, <<>>}
  <2>1. PICK go, rejected :
          importing' = [importing EXCEPT ![i] = [NoImport EXCEPT
              !.at = IF go THEN "start" ELSE "over", !.parsed = IF go THEN list ELSE <<>>, !.rejected = rejected]]
    <3>1. CASE universe # {} /\ list # <<>> /\ ~ dry BY <1>1, <1>2, <3>1
    <3>2. CASE ~ (universe # {} /\ list # <<>> /\ ~ dry) BY <1>1, <1>2, <3>2
    <3> QED BY <3>1, <3>2
  <2>2. PICK next : next = [NoImport EXCEPT
              !.at = IF go THEN "start" ELSE "over", !.parsed = IF go THEN list ELSE <<>>, !.rejected = rejected] OBVIOUS
  <2>3. next = [at |-> IF go THEN "start" ELSE "over", parsed |-> IF go THEN list ELSE <<>>, rejected |-> rejected,
                upserted |-> 0, deactivated |-> 0]
    BY <2>2 DEF NoImport
  <2>4. IsImport(next) BY <2>3 DEF IsImport
  <2>5. next.at \in {"start", "over"} /\ next.parsed \in {list, <<>>} BY <2>3
  <2> QED BY <2>1, <2>2, <2>4, <2>5
<1>5. UNCHANGED <<contracts, importRuns, since>> /\ importing[i].at = "new" BY DEF BeginImport, ImportAt
<1>6. /\ \A j \in Importer : importing'[j] = IF j = i THEN next ELSE importing[j]
      /\ DOMAIN importing' = Importer
  BY <1>4 DEF ContractInv
<1>7. \A j \in Importer \ {i} : Lists(j)' = Lists(j) /\ (Upserted(j)' <=> Upserted(j)) /\ (Cleaned(j)' <=> Cleaned(j))
  BY <1>5, <1>6 DEF Lists, Upserted, Cleaned
<1>8. IsList(next.parsed) /\ Lists(i) = {} /\ importRuns[i].status # "COMPLETED"
  <2>1. ImportTyped(i) BY DEF ContractInv
  <2>2. IsList(<<>>)
    <3>1. DOMAIN <<>> = 1..0 /\ 0 \in Nat OBVIOUS
    <3>2. Ids(<<>>) \subseteq Id BY DEF Ids
    <3> QED BY <3>1, <3>2 DEF IsList
  <2> QED BY <1>3, <1>4, <1>5, <2>1, <2>2 DEF ImportTyped
<1>9. ~ Upserted(i)' /\ ~ Cleaned(i)' BY <1>4, <1>5, <1>6, <1>8 DEF Upserted, Cleaned
<1>10. ASSUME NEW j \in Importer PROVE ImportTyped(j)' /\ ImportFollowed(j)'
  <2>1. ImportTyped(j) /\ ImportFollowed(j) /\ since[j] \subseteq Importer \ {i}
    BY <1>5 DEF ContractInv, ImportTyped
  <2>2. CASE j = i
    <3>1. ImportTyped(j)' BY <1>4, <1>5, <1>6, <1>8, <2>1, <2>2 DEF ImportTyped
    <3>2. ImportFollowed(j)' BY <1>9, <2>2 DEF ImportFollowed
    <3> QED BY <3>1, <3>2
  <2>3. CASE j # i
    <3>1. ImportTyped(j)' BY <1>5, <1>6, <1>7, <2>1, <2>3 DEF ImportTyped
    <3>2. importing'[j].parsed = importing[j].parsed BY <1>6, <2>3
    <3>3. ImportFollowed(j)' BY <1>5, <1>7, <2>1, <2>3, <3>2 DEF ImportFollowed
    <3> QED BY <3>1, <3>3
  <2> QED BY <2>2, <2>3
<1>11. OnlyListed'
  <2> SUFFICES ASSUME NEW q \in Importer, Cleaned(q)', NEW id \in Id, contracts[id].active = TRUE
      PROVE  \E j \in Importer : id \in Lists(j)'
    BY <1>5 DEF OnlyListed
  <2>1. Cleaned(q) BY <1>7, <1>9
  <2>2. PICK j \in Importer : id \in Lists(j) BY <2>1 DEF ContractInv, OnlyListed
  <2> QED BY <1>7, <1>8, <2>2
<1> QED BY <1>5, <1>6, <1>10, <1>11 DEF ContractInv

\* What a table of contracts becomes by an upsert of a list keeps symbols apart.
LEMMA UpsertKeepsSymbols ==
    ASSUME SymbolsDistinct(contracts), NEW list, IsList(list), ~ SymbolTaken(list), NEW table,
           table = [id \in Id |-> IF id \in Ids(list) THEN Row(Of(list, id)) ELSE contracts[id]]
    PROVE  SymbolsDistinct(table)
<1>0. PICK c \in Nat : Ids(list) \subseteq Id /\ DOMAIN list = 1..c BY DEF IsList
<1>1. ASSUME NEW id \in Ids(list) PROVE \E n \in DOMAIN list : list[n].id = id /\ table[id].trading = list[n].trading
  <2>1. \E n \in DOMAIN list : list[n].id = id BY <1>1 DEF Ids
  <2>2. PICK n \in DOMAIN list : list[n].id = id /\ Of(list, id) = list[n] BY <2>1 DEF Of
  <2>3. table[id] = Row(list[n]) BY <1>0, <2>2
  <2>4. table[id].trading = list[n].trading BY <2>3 DEF Row
  <2> QED BY <2>2, <2>4
<1>2. ASSUME NEW m \in DOMAIN list, NEW n \in DOMAIN list, m < n, list[m].id # list[n].id
      PROVE  list[m].trading # list[n].trading
  <2>1. m \in 1..(n - 1)
    <3>1. m \in 1..c /\ n \in 1..c BY <1>0
    <3> QED BY <3>1, <1>2
  <2>2. list[m].id \in Id \ {list[n].id} BY <1>0, <1>2 DEF Ids
  <2> QED BY <2>1, <2>2 DEF SymbolTaken
<1>3. ASSUME NEW n \in DOMAIN list, NEW other \in Id, other \notin Ids(list)
      PROVE  contracts[other].trading # list[n].trading
  <2>1. \A k \in 1..(n - 1) : k \in DOMAIN list => list[k].id # other BY <1>3 DEF Ids
  <2>2. other \in Id \ {list[n].id} BY <1>3 DEF Ids
  <2>3. \A k \in 1..(n - 1) : k \in DOMAIN list
    <3>1. n \in 1..c BY <1>0
    <3> QED BY <1>0, <3>1
  <2>4. \A k \in 1..(n - 1) : list[k].id # other BY <2>1, <2>3
  <2> QED BY <2>2, <2>4 DEF SymbolTaken
<1>4. ASSUME NEW id \in Id, NEW other \in Id, table[id] # Unlisted, table[other] # Unlisted,
             table[id].trading = table[other].trading, id # other, id \in Ids(list)
      PROVE  FALSE
  <2>1. PICK n \in DOMAIN list : list[n].id = id /\ table[id].trading = list[n].trading BY <1>1, <1>4
  <2>2. CASE other \in Ids(list)
    <3>1. PICK m \in DOMAIN list : list[m].id = other /\ table[other].trading = list[m].trading BY <1>1, <2>2
    <3>2. m \in 1..c /\ n \in 1..c /\ m # n BY <1>0, <1>4, <2>1, <3>1
    <3>3. m < n \/ n < m BY <3>2
    <3> QED BY <1>2, <1>4, <2>1, <3>1, <3>3
  <2>3. CASE other \notin Ids(list)
    <3>1. table[other] = contracts[other] BY <2>3
    <3> QED BY <1>3, <1>4, <2>1, <2>3, <3>1
  <2> QED BY <2>2, <2>3
<1>5. ASSUME NEW id \in Id, NEW other \in Id, table[id] # Unlisted, table[other] # Unlisted,
             table[id].trading = table[other].trading
      PROVE  id = other
  <2>1. CASE id \in Ids(list) BY <1>4, <1>5, <2>1
  <2>2. CASE other \in Ids(list) BY <1>4, <1>5, <2>2
  <2>3. CASE id \notin Ids(list) /\ other \notin Ids(list)
    <3>1. table[id] = contracts[id] /\ table[other] = contracts[other] BY <2>3
    <3> QED BY <1>5, <3>1 DEF SymbolsDistinct
  <2> QED BY <2>1, <2>2, <2>3
<1> QED BY <1>5 DEF SymbolsDistinct

\* The upsert, whether its call returns or raises after the commit.
LEMMA UpsertKeeps ==
    ASSUME ContractInv, NEW i \in Importer, BulkUpsert(i)
    PROVE  ContractInv'
<1>1. PICK list : list = importing[i].parsed OBVIOUS
<1>2. /\ importing[i].at = "upsert" /\ ~ SymbolTaken(list) /\ UNCHANGED importRuns
      /\ contracts' = [id \in Id |-> IF id \in Ids(list) THEN Row(Of(list, id)) ELSE contracts[id]]
      /\ since' = [j \in Importer |-> IF j = i THEN {} ELSE since[j] \union {i}]
  BY <1>1 DEF BulkUpsert, ImportAt, Wrote
<1>3. ImportTyped(i) /\ IsList(list) /\ Ids(list) \subseteq Id BY <1>1 DEF ContractInv, ImportTyped, IsList
<1>4. PICK next :
        /\ importing' = [importing EXCEPT ![i] = next] /\ IsImport(next)
        /\ next.at \in {"deactivate", "failing"} /\ next.parsed = list
  <2>1. PICK on : on = [importing[i] EXCEPT !.at = "deactivate", !.upserted = Len(list)] OBVIOUS
  <2>2. IsImport(on) /\ on.at = "deactivate" /\ on.parsed = list BY <1>1, <1>3, <2>1 DEF ImportTyped, IsImport
  <2>3. PICK off : off = [importing[i] EXCEPT !.at = "failing"] OBVIOUS
  <2>4. IsImport(off) /\ off.at = "failing" /\ off.parsed = list BY <1>1, <1>3, <2>3 DEF ImportTyped, IsImport
  <2>5. importing' = [importing EXCEPT ![i] = on] \/ importing' = [importing EXCEPT ![i] = off]
    BY <1>1, <2>1, <2>3 DEF BulkUpsert, Proceeds, Stage
  <2> QED BY <2>2, <2>4, <2>5
<1>5. /\ \A j \in Importer : importing'[j] = IF j = i THEN next ELSE importing[j]
      /\ DOMAIN importing' = Importer
  BY <1>4 DEF ContractInv
<1>6. \A j \in Importer : importing'[j].parsed = importing[j].parsed BY <1>1, <1>4, <1>5
<1>7. \A j \in Importer : Lists(j)' = Lists(j) BY <1>6 DEF Lists
<1>8. \A id \in Ids(list) : IsListed(Row(Of(list, id))) /\ Row(Of(list, id)).active = TRUE BY DEF Row, IsListed
<1>9. \A id \in Id : /\ id \in Ids(list) => contracts'[id] = Row(Of(list, id)) /\ contracts'[id].active = TRUE
                     /\ id \notin Ids(list) => contracts'[id] = contracts[id]
  BY <1>2, <1>8
<1>10. \A j \in Importer : since'[j] = IF j = i THEN {} ELSE since[j] \union {i} BY <1>2
<1>11. importRuns[i].status # "COMPLETED" BY <1>2, <1>3 DEF ImportTyped
<1>12. ~ Cleaned(i)' /\ \A j \in Importer \ {i} : (Upserted(j)' <=> Upserted(j)) /\ (Cleaned(j)' <=> Cleaned(j))
  BY <1>2, <1>4, <1>5, <1>11 DEF Upserted, Cleaned
<1>13. ASSUME NEW j \in Importer PROVE ImportTyped(j)' /\ ImportFollowed(j)'
  <2>1. ImportTyped(j) /\ ImportFollowed(j) BY DEF ContractInv
  <2>2. since[j] \subseteq Importer /\ since'[j] \subseteq Importer BY <1>10, <2>1 DEF ImportTyped
  <2>3. \A q \in since'[j] : importing'[q].at # "new"
    <3>1. \A q \in since[j] : importing[q].at # "new" BY <2>1 DEF ImportTyped
    <3>2. \A q \in since'[j] : q \in since[j] \/ q = i BY <1>10
    <3> QED BY <1>4, <1>5, <2>2, <3>1, <3>2
  <2>4. ImportTyped(j)'
    <3>1. importing'[j].at = "new" => importing[j].at = "new" BY <1>4, <1>5
    <3>2. importRuns[j].status = "COMPLETED" => j # i BY <1>11
    <3> QED BY <1>1, <1>2, <1>4, <1>5, <1>6, <1>7, <2>1, <2>2, <2>3, <3>1, <3>2 DEF ImportTyped
  <2>5. CASE j = i
    <3>1. since'[j] = {} /\ Lists(j)' = Ids(list) BY <1>1, <1>7, <1>10, <2>5 DEF Lists
    <3>2. importing'[j].parsed = list BY <1>1, <1>6, <2>5
    <3>3. \A id \in Ids(list) : contracts'[id].active = TRUE /\ contracts'[id] = Row(Of(list, id)) BY <1>3, <1>9
    <3>4. ImportFollowed(j)' BY <1>12, <2>5, <3>1, <3>2, <3>3 DEF ImportFollowed
    <3> QED BY <2>4, <3>4
  <2>6. CASE j # i
    <3>1. since'[j] = since[j] \union {i} /\ (Upserted(j)' <=> Upserted(j)) BY <1>10, <1>12, <2>6
    <3>2. since'[j] # {} BY <3>1
    <3>3. ASSUME Upserted(j)', NEW id \in Lists(j)
          PROVE  contracts'[id].active = TRUE \/ \E q \in since'[j] : id \notin Lists(q)'
      <4>1. id \in Id BY <2>1 DEF ImportTyped, IsList, Lists
      <4>2. CASE contracts[id].active = TRUE BY <1>9, <4>1, <4>2
      <4>3. CASE \E q \in since[j] : id \notin Lists(q) BY <1>7, <2>2, <3>1, <4>3
      <4> QED BY <2>1, <3>1, <3>3, <4>2, <4>3 DEF ImportFollowed
    <3>4. ImportFollowed(j)' BY <1>7, <3>2, <3>3 DEF ImportFollowed
    <3> QED BY <2>4, <3>4
  <2> QED BY <2>5, <2>6
<1>14. OnlyListed'
  <2> SUFFICES ASSUME NEW q \in Importer, Cleaned(q)', NEW id \in Id, contracts'[id].active = TRUE
      PROVE  \E j \in Importer : id \in Lists(j)'
    BY DEF OnlyListed
  <2>1. Cleaned(q) BY <1>12
  <2>2. CASE id \in Ids(list)
    <3>1. id \in Lists(i)' BY <1>1, <1>7, <2>2 DEF Lists
    <3> QED BY <3>1
  <2>3. CASE id \notin Ids(list)
    <3>1. contracts[id].active = TRUE BY <1>9, <2>3
    <3>2. PICK j \in Importer : id \in Lists(j) BY <2>1, <3>1 DEF ContractInv, OnlyListed
    <3> QED BY <1>7, <3>2
  <2> QED BY <2>2, <2>3
<1>15. SymbolsDistinct(contracts')
  <2>1. PICK table : table = contracts' OBVIOUS
  <2>2. table = [id \in Id |-> IF id \in Ids(list) THEN Row(Of(list, id)) ELSE contracts[id]] BY <1>2, <2>1
  <2>3. SymbolsDistinct(contracts) BY DEF ContractInv
  <2>4. SymbolsDistinct(table) BY <1>2, <1>3, <2>2, <2>3, UpsertKeepsSymbols
  <2> QED BY <2>1, <2>4
<1>16. \A id \in Id : contracts'[id] = Unlisted \/ IsListed(contracts'[id]) BY <1>8, <1>9 DEF ContractInv
<1>17. DOMAIN contracts' = Id /\ DOMAIN since' = Importer /\ importRuns' = [j \in Importer |-> importRuns'[j]]
  BY <1>2 DEF ContractInv
<1> QED BY <1>5, <1>13, <1>14, <1>15, <1>16, <1>17 DEF ContractInv

\* The deactivation: what is active afterwards the import listed.
LEMMA DeactivationKeeps ==
    ASSUME ContractInv, NEW i \in Importer, DeactivateMissing(i)
    PROVE  ContractInv'
<1>1. PICK list : list = importing[i].parsed OBVIOUS
<1>2. PICK missing : missing = {id \in Id : contracts[id].active /\ id \notin Ids(list)} OBVIOUS
<1>3. /\ importing[i].at = "deactivate" /\ UNCHANGED importRuns
      /\ contracts' = [id \in Id |-> IF id \in missing THEN [contracts[id] EXCEPT !.active = FALSE] ELSE contracts[id]]
      /\ since' = [j \in Importer |-> IF j = i THEN since[i] ELSE since[j] \union {i}]
  BY <1>1, <1>2 DEF DeactivateMissing, ImportAt, Wrote
<1>4. ImportTyped(i) /\ IsList(list) BY <1>1 DEF ContractInv, ImportTyped
<1>5. PICK next :
        /\ importing' = [importing EXCEPT ![i] = next] /\ IsImport(next)
        /\ next.at \in {"complete", "failing"} /\ next.parsed = list
  <2>1. PICK on : on = [importing[i] EXCEPT !.at = "complete", !.deactivated = Cardinality(missing)] OBVIOUS
  <2>2. IsImport(on) /\ on.at = "complete" /\ on.parsed = list BY <1>1, <1>4, <2>1 DEF ImportTyped, IsImport
  <2>3. PICK off : off = [importing[i] EXCEPT !.at = "failing"] OBVIOUS
  <2>4. IsImport(off) /\ off.at = "failing" /\ off.parsed = list BY <1>1, <1>4, <2>3 DEF ImportTyped, IsImport
  <2>5. importing' = [importing EXCEPT ![i] = on] \/ importing' = [importing EXCEPT ![i] = off]
    BY <1>1, <1>2, <2>1, <2>3 DEF DeactivateMissing, Proceeds, Stage
  <2> QED BY <2>2, <2>4, <2>5
<1>6. /\ \A j \in Importer : importing'[j] = IF j = i THEN next ELSE importing[j]
      /\ DOMAIN importing' = Importer
  BY <1>5 DEF ContractInv
<1>7. \A j \in Importer : importing'[j].parsed = importing[j].parsed BY <1>1, <1>5, <1>6
<1>8. \A j \in Importer : Lists(j)' = Lists(j) BY <1>7 DEF Lists
<1>9. \A id \in Id : contracts[id] = Unlisted \/ IsListed(contracts[id]) BY DEF ContractInv
<1>10. ASSUME NEW id \in missing
       PROVE  /\ id \in Id /\ IsListed(contracts[id]) /\ contracts[id].active = TRUE
              /\ IsListed(contracts'[id]) /\ contracts'[id].active = FALSE
              /\ contracts'[id].trading = contracts[id].trading
  <2>1. id \in Id /\ contracts[id].active BY <1>2
  <2>2. IsListed(contracts[id])
    <3>1. Unlisted.active = FALSE BY DEF Unlisted
    <3> QED BY <1>9, <2>1, <3>1
  <2>3. PICK old : old = contracts[id] OBVIOUS
  <2>4. PICK new : new = [old EXCEPT !.active = FALSE] OBVIOUS
  <2>5. IsListed(new) /\ new.active = FALSE /\ new.trading = old.trading BY <2>2, <2>3, <2>4 DEF IsListed
  <2>6. old.active = TRUE BY <2>1, <2>2, <2>3 DEF IsListed
  <2>7. contracts'[id] = new BY <1>3, <2>1, <2>3, <2>4
  <2> QED BY <2>1, <2>2, <2>3, <2>5, <2>6, <2>7
<1>11. \A id \in Id \ missing : contracts'[id] = contracts[id] BY <1>3
<1>12. \A id \in Id : contracts'[id].active = TRUE => contracts[id].active = TRUE /\ id \in Ids(list)
  <2> SUFFICES ASSUME NEW id \in Id, contracts'[id].active = TRUE
      PROVE  contracts[id].active = TRUE /\ id \in Ids(list) OBVIOUS
  <2>1. id \notin missing BY <1>10
  <2>2. contracts[id].active = TRUE BY <1>11, <2>1
  <2> QED BY <1>2, <2>1, <2>2
<1>13. \A j \in Importer : since'[j] = IF j = i THEN since[i] ELSE since[j] \union {i} BY <1>3
<1>14. importRuns[i].status # "COMPLETED" BY <1>3, <1>4 DEF ImportTyped
<1>15. /\ Upserted(i) /\ \A j \in Importer : Upserted(j)' => Upserted(j)
       /\ \A j \in Importer \ {i} : Cleaned(j)' <=> Cleaned(j)
  BY <1>3, <1>5, <1>6 DEF Upserted, Cleaned
<1>16. ASSUME NEW j \in Importer PROVE ImportTyped(j)' /\ ImportFollowed(j)'
  <2>1. ImportTyped(j) /\ ImportFollowed(j) BY DEF ContractInv
  <2>2. since[j] \subseteq Importer /\ since'[j] \subseteq Importer /\ since[j] \subseteq since'[j] BY <1>13, <2>1 DEF ImportTyped
  <2>3. \A q \in since'[j] : importing'[q].at # "new"
    <3>1. \A q \in since[j] : importing[q].at # "new" BY <2>1 DEF ImportTyped
    <3>2. \A q \in since'[j] : q \in since[j] \/ q = i BY <1>13
    <3> QED BY <1>5, <1>6, <2>2, <3>1, <3>2
  <2>4. ImportTyped(j)'
    <3>1. importing'[j].at = "new" => importing[j].at = "new" BY <1>5, <1>6
    <3>2. importRuns[j].status = "COMPLETED" => j # i BY <1>14
    <3> QED BY <1>1, <1>3, <1>5, <1>6, <1>7, <1>8, <2>1, <2>2, <2>3, <3>1, <3>2 DEF ImportTyped
  <2>5. ASSUME Upserted(j)', NEW id \in Lists(j)
        PROVE  contracts'[id].active = TRUE \/ \E q \in since'[j] : id \notin Lists(q)'
    <3>1. id \in Id BY <2>1 DEF ImportTyped, IsList, Lists
    <3>2. CASE \E q \in since[j] : id \notin Lists(q) BY <1>8, <2>2, <3>2
    <3>3. CASE contracts[id].active = TRUE /\ id \notin missing BY <1>11, <3>1, <3>3
    <3>4. CASE id \in missing
      <4>1. id \notin Lists(i) BY <1>1, <1>2, <3>4 DEF Lists
      <4>2. i \in since'[j] BY <1>13, <2>5, <4>1
      <4> QED BY <1>8, <4>1, <4>2
    <3> QED BY <1>15, <2>1, <2>5, <3>2, <3>3, <3>4 DEF ImportFollowed
  <2>6. CASE j = i
    <3>1. since'[j] = since[j] BY <1>13, <2>6
    <3>2. \A id \in Lists(j) : id \in Id /\ id \notin missing
      <4>1. Lists(j) = Ids(list) BY <1>1, <2>6 DEF Lists
      <4> QED BY <1>2, <1>4, <4>1 DEF IsList
    <3>3. since'[j] = {} => \A id \in Lists(j) : contracts'[id] = Row(Of(importing'[j].parsed, id))
      <4>1. since[j] = {} => \A id \in Lists(j) : contracts[id] = Row(Of(importing[j].parsed, id))
        BY <1>15, <2>1, <2>6 DEF ImportFollowed
      <4> QED BY <1>7, <1>11, <3>1, <3>2, <4>1
    <3>4. \A id \in Id : contracts'[id].active = TRUE => id \in Lists(j) BY <1>1, <1>12, <2>6 DEF Lists
    <3>5. ImportFollowed(j)' BY <1>8, <2>5, <3>3, <3>4 DEF ImportFollowed
    <3> QED BY <2>4, <3>5
  <2>7. CASE j # i
    <3>1. since'[j] # {} BY <1>13, <2>7
    <3>2. ImportFollowed(j)' BY <1>8, <2>5, <3>1 DEF ImportFollowed
    <3> QED BY <2>4, <3>2
  <2> QED BY <2>6, <2>7
<1>17. OnlyListed'
  <2>1. Lists(i)' = Ids(list) BY <1>1, <1>8 DEF Lists
  <2> QED BY <1>12, <2>1 DEF OnlyListed
<1>18. SymbolsDistinct(contracts')
  <2>1. \A id \in Id : contracts'[id] # Unlisted =>
            contracts[id] # Unlisted /\ contracts'[id].trading = contracts[id].trading
    <3> SUFFICES ASSUME NEW id \in Id, contracts'[id] # Unlisted
        PROVE contracts[id] # Unlisted /\ contracts'[id].trading = contracts[id].trading OBVIOUS
    <3>1. CASE id \in missing
      <4>1. Unlisted.active = FALSE BY DEF Unlisted
      <4> QED BY <1>10, <3>1, <4>1
    <3>2. CASE id \notin missing BY <1>11, <3>2
    <3> QED BY <3>1, <3>2
  <2> QED BY <2>1 DEF SymbolsDistinct, ContractInv
<1>19. \A id \in Id : contracts'[id] = Unlisted \/ IsListed(contracts'[id]) BY <1>9, <1>10, <1>11
<1>20. DOMAIN contracts' = Id /\ DOMAIN since' = Importer /\ importRuns' = [j \in Importer |-> importRuns'[j]]
  BY <1>3 DEF ContractInv
<1> QED BY <1>6, <1>16, <1>17, <1>18, <1>19, <1>20 DEF ContractInv

LEMMA ImportKeeps ==
    ASSUME ContractInv, NEW i \in Importer,
           \/ BeginImport(i) \/ StartImportRun(i) \/ InsertImportFailures(i) \/ BulkUpsert(i) \/ UpsertRefused(i)
           \/ DeactivateMissing(i) \/ CompleteImportRun(i) \/ ImportCallRaises(i) \/ FailImportRun(i) \/ ImportCrashes(i)
    PROVE  ContractInv'
<1>1. ImportTyped(i) /\ importRuns = [j \in Importer |-> importRuns[j]] BY DEF ContractInv
<1>2. importRuns = [importRuns EXCEPT ![i] = importRuns[i]] BY <1>1
<1>3. ASSUME NEW place \in {"failing", "over", "failures", "upsert"}, NEW next, NEW entry,
             next = [importing[i] EXCEPT !.at = place], importing' = [importing EXCEPT ![i] = next],
             importRuns' = [importRuns EXCEPT ![i] = entry], IsImportRun(entry), UNCHANGED <<contracts, since>>,
             entry.status = "COMPLETED" => Cleaned(i) /\ place \in {"failing", "over"}
      PROVE  ContractInv'
  <2>1. IsImport(next) /\ next.at = place /\ next.parsed = importing[i].parsed BY <1>1, <1>3 DEF ImportTyped, IsImport
  <2> QED BY <1>3, <2>1, ImportGoesOn
<1>4. ASSUME NEW place \in {"failing", "over"}, Stage(i, place), UNCHANGED <<importRuns, contracts, since>>
      PROVE  ContractInv'
  <2>1. PICK next : next = [importing[i] EXCEPT !.at = place] OBVIOUS
  <2>2. importing' = [importing EXCEPT ![i] = next] BY <1>4, <2>1 DEF Stage
  <2>3. IsImportRun(importRuns[i]) BY <1>1 DEF ImportTyped
  <2>4. importRuns' = [importRuns EXCEPT ![i] = importRuns[i]] BY <1>2, <1>4
  <2>5. importRuns[i].status = "COMPLETED" => Cleaned(i) BY DEF Cleaned
  <2> QED BY <1>3, <1>4, <2>1, <2>2, <2>3, <2>4, <2>5
<1>5. CASE UpsertRefused(i) \/ ImportCallRaises(i) \/ ImportCrashes(i)
  BY <1>4, <1>5 DEF UpsertRefused, ImportCallRaises, ImportCrashes
<1>6. CASE StartImportRun(i)
  <2>1. PICK place \in {"failures", "over"} : Stage(i, place) BY <1>6 DEF StartImportRun
  <2>2. PICK next : next = [importing[i] EXCEPT !.at = place] OBVIOUS
  <2>3. importing' = [importing EXCEPT ![i] = next] BY <2>1, <2>2 DEF Stage
  <2>4. PICK entry : entry = [importRuns[i] EXCEPT !.status = "RUNNING"] OBVIOUS
  <2>5. IsImportRun(entry) /\ entry.status = "RUNNING" BY <1>1, <2>4 DEF ImportTyped, IsImportRun
  <2>6. importRuns' = [importRuns EXCEPT ![i] = entry] BY <1>6, <2>4 DEF StartImportRun
  <2>7. UNCHANGED <<contracts, since>> BY <1>6 DEF StartImportRun
  <2> QED BY <1>3, <2>2, <2>3, <2>5, <2>6, <2>7
<1>7. CASE InsertImportFailures(i)
  <2>1. UNCHANGED <<importRuns, contracts, since>> /\ importing[i].at = "failures"
    BY <1>7 DEF InsertImportFailures, ImportAt
  <2>2. CASE Stage(i, "failing") BY <1>4, <2>1, <2>2
  <2>3. CASE ~ Stage(i, "failing")
    <3>1. PICK next : next = [importing[i] EXCEPT !.at = "upsert"] OBVIOUS
    <3>2. importing' = [importing EXCEPT ![i] = next] BY <1>7, <2>3, <3>1 DEF InsertImportFailures, Proceeds
    <3>3. IsImportRun(importRuns[i]) /\ importRuns[i].status # "COMPLETED" BY <1>1, <2>1 DEF ImportTyped
    <3>4. importRuns' = [importRuns EXCEPT ![i] = importRuns[i]] BY <1>2, <2>1
    <3> QED BY <1>3, <2>1, <3>1, <3>2, <3>3, <3>4
  <2> QED BY <2>2, <2>3
<1>8. ASSUME NEW status, FinishRun(i, status)
      PROVE  \E entry : /\ importRuns' = [importRuns EXCEPT ![i] = entry]
                        /\ IsImportRun(entry) /\ entry.status = status
  <2>1. PICK entry : entry = [status |-> status, dated |-> TRUE,
                              upserted |-> importing[i].upserted, deactivated |-> importing[i].deactivated] OBVIOUS
  <2>2. IsImportRun(entry) /\ entry.status = status BY <2>1 DEF IsImportRun
  <2> QED BY <1>8, <2>1, <2>2 DEF FinishRun
<1>9. CASE CompleteImportRun(i)
  <2>1. PICK entry : importRuns' = [importRuns EXCEPT ![i] = entry] /\ IsImportRun(entry)
    BY <1>8, <1>9 DEF CompleteImportRun
  <2>2. PICK place \in {"failing", "over"} : importing' = [importing EXCEPT ![i] = [importing[i] EXCEPT !.at = place]]
    BY <1>9 DEF CompleteImportRun, Proceeds, Stage
  <2>3. PICK next : next = [importing[i] EXCEPT !.at = place] OBVIOUS
  <2>4. Cleaned(i) /\ UNCHANGED <<contracts, since>> BY <1>9 DEF CompleteImportRun, ImportAt, Cleaned
  <2> QED BY <1>3, <2>1, <2>2, <2>3, <2>4
<1>10. CASE FailImportRun(i)
  <2>1. PICK entry : importRuns' = [importRuns EXCEPT ![i] = entry] /\ IsImportRun(entry) /\ entry.status = "FAILED"
    BY <1>8, <1>10 DEF FailImportRun
  <2>2. PICK next : next = [importing[i] EXCEPT !.at = "over"] OBVIOUS
  <2>3. importing' = [importing EXCEPT ![i] = next] /\ UNCHANGED <<contracts, since>>
    BY <1>10, <2>2 DEF FailImportRun, Stage
  <2> QED BY <1>3, <2>1, <2>2, <2>3
<1> QED BY <1>5, <1>6, <1>7, <1>9, <1>10, BeginningKeeps, UpsertKeeps, DeactivationKeeps

LEMMA ContractsInitially == DerivativeInit => ContractInv
<1> SUFFICES ASSUME DerivativeInit PROVE ContractInv OBVIOUS
<1>1. PICK m \in Master \union {<<>>}, missing \in SUBSET Id :
        LET past == Parse(m, universe, 0).contracts
        IN  /\ SymbolsAreUnique(past)
            /\ contracts = [id \in Id |-> IF id \notin Ids(past) THEN Unlisted
                                          ELSE [Row(Of(past, id)) EXCEPT !.active = id \notin missing]]
  BY DEF DerivativeInit
<1>2. PICK past : past = Parse(m, universe, 0).contracts OBVIOUS
<1>3. /\ SymbolsAreUnique(past)
      /\ contracts = [id \in Id |-> IF id \notin Ids(past) THEN Unlisted
                                    ELSE [Row(Of(past, id)) EXCEPT !.active = id \notin missing]]
  BY <1>1, <1>2
<1>4. ASSUME NEW id \in Id, id \in Ids(past)
      PROVE  IsListed(contracts[id]) /\ contracts[id].trading = Of(past, id).trading
  <2>1. PICK entry : entry = [Row(Of(past, id)) EXCEPT !.active = id \notin missing] OBVIOUS
  <2>2. IsListed(entry) /\ entry.trading = Of(past, id).trading
    <3>1. PICK live \in BOOLEAN : live = (id \notin missing) OBVIOUS
    <3>2. entry = [Row(Of(past, id)) EXCEPT !.active = live] BY <2>1, <3>1
    <3>3. entry = [active |-> live, trading |-> Of(past, id).trading, underlying |-> Of(past, id).underlying,
                   expiry |-> Of(past, id).expiry]
      BY <3>2 DEF Row
    <3> QED BY <3>3 DEF IsListed
  <2>3. contracts[id] = entry BY <1>3, <1>4, <2>1
  <2> QED BY <2>2, <2>3
<1>5. \A id \in Id : id \notin Ids(past) => contracts[id] = Unlisted BY <1>3
<1>6. SymbolsDistinct(contracts)
  <2> SUFFICES ASSUME NEW id \in Id, NEW other \in Id, contracts[id] # Unlisted, contracts[other] # Unlisted,
                      contracts[id].trading = contracts[other].trading
      PROVE  id = other
    BY DEF SymbolsDistinct
  <2>1. id \in Ids(past) /\ other \in Ids(past) BY <1>5
  <2>2. (\E n \in DOMAIN past : past[n].id = id) /\ (\E n \in DOMAIN past : past[n].id = other) BY <2>1 DEF Ids
  <2>3. PICK j \in DOMAIN past : past[j].id = id /\ Of(past, id) = past[j] BY <2>2 DEF Of
  <2>4. PICK k \in DOMAIN past : past[k].id = other /\ Of(past, other) = past[k] BY <2>2 DEF Of
  <2>5. past[j].trading = past[k].trading BY <1>4, <2>1, <2>3, <2>4
  <2> QED BY <1>3, <2>3, <2>4, <2>5 DEF SymbolsAreUnique
<1>7. ASSUME NEW i \in Importer PROVE ImportTyped(i) /\ ~ Upserted(i) /\ ~ Cleaned(i)
  <2>1. importing[i] = [at |-> "new", parsed |-> <<>>, rejected |-> 0, upserted |-> 0, deactivated |-> 0]
        /\ importRuns[i] = [status |-> "none", dated |-> FALSE, upserted |-> 0, deactivated |-> 0] /\ since[i] = {}
    BY DEF DerivativeInit, NoImport
  <2>2. IsList(<<>>) /\ Ids(<<>>) = {}
    <3>1. DOMAIN <<>> = 1..0 /\ 0 \in Nat OBVIOUS
    <3>2. Ids(<<>>) = {} BY DEF Ids
    <3> QED BY <3>1, <3>2 DEF IsList
  <2>3. IsImport(importing[i]) /\ IsImportRun(importRuns[i]) BY <2>1 DEF IsImport, IsImportRun
  <2>4. importing[i].parsed = <<>> /\ importing[i].at = "new" /\ importRuns[i].status = "none" BY <2>1
  <2>5. ImportTyped(i) BY <2>1, <2>2, <2>3, <2>4 DEF ImportTyped, Lists
  <2> QED BY <2>4, <2>5 DEF Upserted, Cleaned
<1>8. \A i \in Importer : ImportFollowed(i) BY <1>7 DEF ImportFollowed
<1>9. OnlyListed BY <1>7 DEF OnlyListed
<1>10. \A id \in Id : contracts[id] = Unlisted \/ IsListed(contracts[id]) BY <1>4, <1>5
<1>11. DOMAIN importing = Importer /\ importRuns = [i \in Importer |-> importRuns[i]] /\ DOMAIN since = Importer /\ DOMAIN contracts = Id
  BY <1>3 DEF DerivativeInit
<1> QED BY <1>6, <1>7, <1>8, <1>9, <1>10, <1>11 DEF ContractInv

LEMMA ContractsSuffice == ContractInv => ContractsFollowImports
<1> SUFFICES ASSUME ContractInv PROVE ContractsFollowImports OBVIOUS
<1>0. \A id \in Id : contracts[id].active <=> contracts[id].active = TRUE
  <2>1. Unlisted.active = FALSE BY DEF Unlisted
  <2>2. ASSUME NEW id \in Id PROVE contracts[id].active \in BOOLEAN
    <3>1. CASE contracts[id] = Unlisted BY <2>1, <3>1
    <3>2. CASE IsListed(contracts[id]) BY <3>2 DEF IsListed
    <3> QED BY <3>1, <3>2 DEF ContractInv
  <2> QED BY <2>2
<1>1. \A id : id \in Active <=> id \in Id /\ contracts[id].active = TRUE BY <1>0 DEF Active
<1>2. ASSUME NEW i \in Importer, importRuns[i].status = "COMPLETED"
      PROVE  /\ since[i] = {} => /\ Active = Ids(importing[i].parsed)
                                 /\ \A id \in Active : contracts[id] = Row(Of(importing[i].parsed, id))
             /\ \A id \in Ids(importing[i].parsed) \ Active : \E j \in since[i] : id \notin Ids(importing[j].parsed)
  <2>1. Upserted(i) /\ Cleaned(i) BY <1>2 DEF Upserted, Cleaned
  <2>2. ImportFollowed(i) /\ Lists(i) \subseteq Id BY DEF ContractInv, ImportTyped, IsList, Lists
  <2>3. ASSUME since[i] = {} PROVE Active = Lists(i) /\ \A id \in Lists(i) : contracts[id] = Row(Of(importing[i].parsed, id))
    BY <1>1, <2>1, <2>2, <2>3 DEF ImportFollowed
  <2>4. \A id \in Lists(i) : id \notin Active => \E j \in since[i] : id \notin Lists(j)
    BY <1>1, <2>1, <2>2 DEF ImportFollowed
  <2> QED BY <2>3, <2>4 DEF Lists
<1>3. ASSUME NEW q \in Importer, importRuns[q].status = "COMPLETED", NEW id \in Active
      PROVE  \E i \in Importer : id \in Ids(importing[i].parsed)
  <2>1. Cleaned(q) BY <1>3 DEF Cleaned
  <2> QED BY <1>1, <2>1 DEF ContractInv, OnlyListed, Lists
<1>4. \A id, other \in {d \in Id : contracts[d] # Unlisted} : contracts[id].trading = contracts[other].trading => id = other
  BY DEF ContractInv, SymbolsDistinct
<1> QED BY <1>2, <1>3, <1>4 DEF ContractsFollowImports

LEMMA ContractsHold == Spec => []ContractInv
<1>1. Init => ContractInv BY ContractsInitially DEF Init
<1>2. ContractInv /\ [Next]_operationsVars => ContractInv'
  <2> SUFFICES ASSUME ContractInv, [Next]_operationsVars PROVE ContractInv' OBVIOUS
  <2>1. CASE UNCHANGED <<contracts, importRuns, importing, since>>
    BY <2>1 DEF ContractInv, ImportTyped, ImportFollowed, OnlyListed, Upserted, Cleaned, Lists
  <2>2. CASE Imports
    <3>1. ASSUME NEW f \in Refresher, BeginRefresh(f) \/ DeleteAll(f) \/ InsertInstruments(f) \/ RefreshEnds(f)
          PROVE ContractInv'
      BY <2>1, <3>1 DEF BeginRefresh, DeleteAll, InsertInstruments, RefreshEnds
    <3> QED BY <2>2, <3>1, ImportKeeps DEF Imports, DerivativeStep
  <2>3. CASE ~ Imports
    <3>1. UNCHANGED derivativeVars BY <2>3 DEF Next, MarketRuns, OptionRuns, Alerts, Repairs, Migrations, operationsVars
    <3> QED BY <2>1, <3>1 DEF derivativeVars
  <2> QED BY <2>2, <2>3
<1> QED BY <1>1, <1>2, PTL DEF Spec

\* The contract table follows its imports, however they overlap, raise and die between
\* their own transactions (import_master, bulk_upsert, deactivate_missing): an undisturbed
\* COMPLETED one left exactly its file, and what every file lists is never lost.
THEOREM ContractsStayWithImports == Spec => []ContractsFollowImports
<1> QED BY ContractsHold, ContractsSuffice, PTL
=================================================================================
