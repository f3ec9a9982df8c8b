-------------------------- MODULE TimelyScheduler_proofs --------------------------
(***************************************************************************)
(* Under TimingAssumption the run lock prevents overlap: proof, for every  *)
(* set of runs, lease length, lag and number of tolerated misses.          *)
(*                                                                         *)
(* The argument counts the time a lease has left. Each committed write     *)
(* leaves at least MaxMisses + 1 beat cycles, each missed heartbeat costs  *)
(* at most one, so the lease of a call inside its pipeline never lapses    *)
(* and nobody may take its row.                                            *)
(***************************************************************************)
EXTENDS TimelyScheduler, SchedulerLock_proofs

\* The beat cycles that the heartbeats of r may still miss.
Slack(r) == (MaxMisses - misses[r]) * BeatCycle

CheckedLately(r) == phase[r] = "checked" => now <= checkedAt[r] + Lag

\* A call inside its pipeline owns the row and its heartbeat thread lives.
InsideOwns(r) == Inside(r) => lockOwner = r /\ beat[r] # "none"

\* Until the next heartbeat is committed the lease cannot run out.
LeaseOutlastsWait(r) ==
    Inside(r) /\ beat[r] = "waiting" =>
        /\ now <= beatTime[r] + Lag
        /\ lease[r] > beatTime[r] + 2 * Lag + Slack(r)

LeaseOutlastsSend(r) ==
    Inside(r) /\ beat[r] = "sending" =>
        /\ now <= beatTime[r] + Lag
        /\ lease[r] > beatTime[r] + Lag + Slack(r)

Timely(r) ==
    /\ CheckedLately(r)
    /\ InsideOwns(r)
    /\ LeaseOutlastsWait(r)
    /\ LeaseOutlastsSend(r)

TimelyInv == \A r \in Run : Timely(r)

\* The facts of every step's proof.
Context == TypeOK /\ LeaseInv /\ TimelyInv

---------------------------------------------------------------------------
LEMMA CycleType == Lag \in Nat /\ BeatCycle \in Nat
BY HeartbeatIntervalType, TimingAssumption DEF BeatCycle

LEMMA ProductsOfCycles ==
    /\ \A k \in Nat : k * BeatCycle \in Nat
    /\ \A k \in Nat : (k + 1) * BeatCycle = k * BeatCycle + BeatCycle
<1> DEFINE C == BeatCycle
<1>1. C \in Nat
  BY CycleType
<1> HIDE DEF C
<1>2. \A k \in Nat : k * C \in Nat /\ (k + 1) * C = k * C + C
  BY <1>1
<1> QED
  BY <1>2 DEF C

LEMMA SlackType ==
    ASSUME TypeOK, NEW r \in Run
    PROVE  Slack(r) \in Nat
<1>1. MaxMisses - misses[r] \in Nat
  BY ConstantsAssumption DEF TypeOK
<1> QED
  BY <1>1, ProductsOfCycles DEF Slack

\* A write of the row no later than Lag after the moment it records leaves
\* the whole slack and the coming cycle.
LEMMA LeaseAfterWrite ==
    ASSUME NEW moment \in Nat, NEW time \in Nat, time <= moment + Lag,
           NEW k \in 0..MaxMisses
    PROVE  moment + Ttl > time + BeatCycle + (MaxMisses - k) * BeatCycle
<1>1. (MaxMisses + 1) * BeatCycle = MaxMisses * BeatCycle + BeatCycle
  BY ConstantsAssumption, ProductsOfCycles
<1>2. (MaxMisses - k) * BeatCycle <= MaxMisses * BeatCycle
  <2> DEFINE C == BeatCycle
  <2>1. C \in Nat
    BY CycleType
  <2> HIDE DEF C
  <2>2. (MaxMisses - k) * C <= MaxMisses * C
    BY <2>1, ConstantsAssumption
  <2> QED
    BY <2>2 DEF C
<1>3. /\ MaxMisses * BeatCycle \in Nat
      /\ (MaxMisses - k) * BeatCycle \in Nat
  BY ConstantsAssumption, ProductsOfCycles
<1> DEFINE Whole == MaxMisses * BeatCycle
           Part == (MaxMisses - k) * BeatCycle
<1>4. Lag + Whole + BeatCycle < Ttl /\ Part <= Whole /\ Whole \in Nat /\ Part \in Nat
  BY <1>1, <1>2, <1>3, TimingAssumption, CycleType
<1> HIDE DEF Whole, Part
<1>5. moment + Ttl > time + BeatCycle + Part
  BY <1>4, CycleType, ConstantsAssumption
<1> QED
  BY <1>5 DEF Part

\* The lease of a call inside its pipeline has not lapsed.
LEMMA InsideIsFresh ==
    ASSUME Context, NEW r \in Run, Inside(r)
    PROVE  lockOwner = r /\ lockExpires = lease[r] /\ lease[r] > now
<1>1. lockOwner = r /\ lockExpires = lease[r]
  BY ConstantsAssumption
  DEF Context, TimelyInv, Timely, InsideOwns, LeaseInv, RowRecordsLease
<1>2. lease[r] > now
  <2>1. Slack(r) \in Nat
    BY SlackType DEF Context
  <2>2. beat[r] \in {"waiting", "sending"}
    BY DEF Context, TimelyInv, Timely, InsideOwns, TypeOK
  <2>3. now \in Nat /\ beatTime[r] \in Nat /\ lease[r] \in Nat
    BY DEF Context, TypeOK
  <2>4. CASE beat[r] = "waiting"
    BY <2>1, <2>3, <2>4, CycleType DEF Context, TimelyInv, Timely, LeaseOutlastsWait
  <2>5. CASE beat[r] = "sending"
    BY <2>1, <2>3, <2>5, CycleType DEF Context, TimelyInv, Timely, LeaseOutlastsSend
  <2> QED
    BY <2>2, <2>4, <2>5
<1> QED
  BY <1>1, <1>2

---------------------------------------------------------------------------
\* What a step by one call does to another: its own variables are left
\* alone, and so are its row and lease while it is inside its pipeline.
LEMMA StepSparesOthers ==
    ASSUME Context, NEW r \in Run, RunOnceStep(r) \/ BeatStep(r),
           NEW o \in Run, o # r
    PROVE  /\ now' = now
           /\ phase'[o] = phase[o] /\ checkedAt'[o] = checkedAt[o]
           /\ beat'[o] = beat[o] /\ beatTime'[o] = beatTime[o]
           /\ misses'[o] = misses[o]
           /\ lease'[o] = lease[o]
<1> USE DEF Context, TypeOK
<1>1. CASE RunOnceStep(r)
  BY <1>1
  DEF RunOnceStep, CheckCalendar, Acquire, AcquireRefused, AcquireRaises,
      PipelineEnds, Release, ReleaseRaises, Crash, AcquireRow, WriteRow,
      DeleteRow, Forget, ThreadEnds, lockVars, beatVars
<1>2. CASE BeatStep(r)
  BY <1>2
  DEF BeatStep, BeatDue, BeatStops, BeatRenews, BeatFindsLoss, BeatRaises,
      RenewRow, WriteRow, WaitAgain, ThreadEnds, lockVars, beatVars
<1> QED
  BY <1>1, <1>2

LEMMA RowStaysWithInside ==
    ASSUME Context, NEW r \in Run, RunOnceStep(r) \/ BeatStep(r),
           NEW o \in Run, o # r, Inside(o)
    PROVE  lockOwner' = o
<1>1. lockOwner = o /\ lockExpires > now /\ o # NoRun
  BY InsideIsFresh, ConstantsAssumption
<1>2. checkedAt[r] <= now /\ checkedAt[r] \in Nat /\ now \in Nat /\ lockExpires \in Nat
  BY DEF Context, TypeOK, LeaseInv, CheckedInThePast
<1>3. ~AcquireRow(r) /\ ~RenewRow(r)
  BY <1>1, <1>2 DEF AcquireRow, Acquirable, RenewRow
<1>4. CASE RunOnceStep(r)
  BY <1>1, <1>3, <1>4
  DEF RunOnceStep, CheckCalendar, Acquire, AcquireRefused, AcquireRaises,
      PipelineEnds, Release, ReleaseRaises, Crash, DeleteRow, lockVars
<1>5. CASE BeatStep(r)
  BY <1>1, <1>3, <1>5
  DEF BeatStep, BeatDue, BeatStops, BeatRenews, BeatFindsLoss, BeatRaises,
      lockVars
<1> QED
  BY <1>4, <1>5

LEMMA StepKeepsOthersTimely ==
    ASSUME Context, NEW r \in Run, RunOnceStep(r) \/ BeatStep(r),
           NEW o \in Run, o # r
    PROVE  Timely(o)'
<1>1. Timely(o)
  BY DEF Context, TimelyInv
<1> QED
  BY <1>1, StepSparesOthers, RowStaysWithInside
  DEF Timely, CheckedLately, InsideOwns, LeaseOutlastsWait, LeaseOutlastsSend,
      Inside, Slack

---------------------------------------------------------------------------
\* A committed write at most Lag late opens a wait that the lease outlasts.
LEMMA WriteMakesTimely ==
    ASSUME Context, NEW r \in Run, NEW moment \in Nat, WriteRow(r, moment),
           now <= moment + Lag, WaitAgain(r), misses'[r] \in 0..MaxMisses,
           phase'[r] # "checked", now' = now
    PROVE  Timely(r)'
<1>1. /\ lockOwner' = r
      /\ lease'[r] = moment + Ttl
      /\ beat'[r] = "waiting"
      /\ beatTime'[r] = now + HeartbeatInterval
  BY DEF WriteRow, WaitAgain, Context, TypeOK
<1>2. now \in Nat
  BY DEF Context, TypeOK
<1>3. PICK k \in 0..MaxMisses : k = misses'[r]
  OBVIOUS
<1>4. PICK time \in Nat : time = now
  BY <1>2
<1>5. moment + Ttl > time + BeatCycle + (MaxMisses - k) * BeatCycle
  BY <1>4, LeaseAfterWrite
<1>6. Slack(r)' = (MaxMisses - k) * BeatCycle /\ Slack(r)' \in Nat
  BY <1>3, ProductsOfCycles, ConstantsAssumption DEF Slack, BeatCycle, HeartbeatInterval
<1>7. lease'[r] > now + BeatCycle + Slack(r)'
  BY <1>1, <1>4, <1>5, <1>6
<1>8. now + BeatCycle + Slack(r)' = beatTime'[r] + 2 * Lag + Slack(r)'
  BY <1>1, <1>2, <1>6, CycleType, HeartbeatIntervalType DEF BeatCycle
<1>9. now' <= beatTime'[r] + Lag
  BY <1>1, <1>2, CycleType, HeartbeatIntervalType
<1>10. LeaseOutlastsWait(r)'
  BY <1>7, <1>8, <1>9 DEF LeaseOutlastsWait
<1> QED
  BY <1>1, <1>10 DEF Timely, CheckedLately, InsideOwns, LeaseOutlastsSend

LEMMA RunOnceStepTimely ==
    ASSUME Context, NEW r \in Run, RunOnceStep(r)
    PROVE  Timely(r)'
<1> USE DEF Context, TypeOK
<1>1. Timely(r)
  BY DEF TimelyInv
<1>2. ASSUME NEW force \in BOOLEAN, CheckCalendar(r, force)
      PROVE  Timely(r)'
  BY <1>2, CycleType
  DEF CheckCalendar, Timely, CheckedLately, InsideOwns, LeaseOutlastsWait,
      LeaseOutlastsSend, Inside
<1>3. CASE Acquire(r)
  <2>1. PICK moment \in Nat : moment = checkedAt[r]
    OBVIOUS
  <2>2. WriteRow(r, moment)
    BY <1>3, <2>1 DEF Acquire, AcquireRow, WriteRow
  <2>3. now <= moment + Lag
    BY <1>1, <1>3, <2>1 DEF Acquire, Timely, CheckedLately
  <2>4. /\ WaitAgain(r)
        /\ misses'[r] \in 0..MaxMisses
        /\ phase'[r] # "checked"
        /\ now' = now
    BY <1>3 DEF Acquire, WaitAgain
  <2> QED
    BY <2>2, <2>3, <2>4, WriteMakesTimely
<1>4. CASE \/ AcquireRefused(r) \/ AcquireRaises(r) \/ PipelineEnds(r)
           \/ Release(r) \/ ReleaseRaises(r) \/ Crash(r)
  BY <1>4
  DEF AcquireRefused, AcquireRaises, PipelineEnds, Release, ReleaseRaises, Crash,
      Timely, CheckedLately, InsideOwns, LeaseOutlastsWait, LeaseOutlastsSend,
      Inside
<1> QED
  BY <1>2, <1>3, <1>4 DEF RunOnceStep

LEMMA BeatStepTimely ==
    ASSUME Context, NEW r \in Run, BeatStep(r)
    PROVE  Timely(r)'
<1> USE DEF Context, TypeOK
<1>1. Timely(r)
  BY DEF TimelyInv
<1>2. phase[r] # "checked" \/ beat[r] = "none"
  BY DEF LeaseInv, ThreadBelongsToRun
<1>3. Slack(r) \in Nat
  BY SlackType
<1>4. CASE BeatDue(r)
  <2>1. Slack(r)' = Slack(r) /\ lease'[r] = lease[r] /\ lockOwner' = lockOwner
    BY <1>4 DEF BeatDue, Slack, lockVars, BeatCycle, HeartbeatInterval
  <2>2. /\ Inside(r) /\ beat[r] = "waiting"
        /\ beat'[r] = "sending" /\ beatTime'[r] = now
        /\ now' = now /\ phase' = phase
    BY <1>4 DEF BeatDue, Inside
  <2> QED
    BY <1>1, <1>3, <2>1, <2>2, CycleType
    DEF Timely, CheckedLately, InsideOwns, LeaseOutlastsWait, LeaseOutlastsSend,
        Inside
<1>5. CASE BeatStops(r)
  BY <1>5
  DEF BeatStops, ThreadEnds, Timely, CheckedLately, InsideOwns,
      LeaseOutlastsWait, LeaseOutlastsSend, Inside
<1>6. CASE beat[r] = "sending" /\ ~Inside(r) /\ phase' = phase
  BY <1>2, <1>6
  DEF Timely, CheckedLately, InsideOwns, LeaseOutlastsWait, LeaseOutlastsSend,
      Inside
<1>7. CASE BeatFindsLoss(r)
  BY <1>1, <1>6, <1>7 DEF BeatFindsLoss, Timely, InsideOwns
<1>8. ASSUME beat[r] = "sending", Inside(r), RenewRow(r), WaitAgain(r),
             misses'[r] \in 0..MaxMisses, UNCHANGED <<now, phase>>
      PROVE  Timely(r)'
  <2>1. PICK moment \in Nat : moment = beatTime[r]
    OBVIOUS
  <2>2. WriteRow(r, moment) /\ now <= moment + Lag
    BY <1>1, <1>8, <2>1 DEF RenewRow, WriteRow, Timely, LeaseOutlastsSend
  <2>3. phase'[r] # "checked"
    BY <1>8 DEF Inside
  <2> QED
    BY <1>8, <2>2, <2>3, WriteMakesTimely
<1>9. CASE BeatRenews(r)
  BY <1>6, <1>8, <1>9, ConstantsAssumption DEF BeatRenews
<1>10. ASSUME BeatRaises(r), Inside(r), UNCHANGED lockVars
       PROVE  Timely(r)'
  <2>1. PICK m \in 0..MaxMisses : m = misses[r]
    OBVIOUS
  <2>2. m < MaxMisses /\ misses'[r] = m + 1
    BY <1>10, <2>1 DEF BeatRaises
  <2>3. /\ Slack(r) = (MaxMisses - m) * BeatCycle
        /\ Slack(r)' = (MaxMisses - (m + 1)) * BeatCycle
    BY <2>1, <2>2 DEF Slack, BeatCycle, HeartbeatInterval
  <2>4. PICK j \in Nat : j = MaxMisses - (m + 1)
    BY <2>2, ConstantsAssumption
  <2>5. MaxMisses - m = j + 1
    BY <2>4, ConstantsAssumption
  <2>6. Slack(r) = Slack(r)' + BeatCycle /\ Slack(r)' \in Nat
    BY <2>3, <2>4, <2>5, ProductsOfCycles
  <2>7. /\ beat'[r] = "waiting"
        /\ beatTime'[r] = now + HeartbeatInterval
        /\ lease'[r] = lease[r] /\ lockOwner' = lockOwner
        /\ phase' = phase /\ now' = now
    BY <1>10 DEF BeatRaises, WaitAgain, lockVars
  <2>8. lockOwner = r /\ now <= beatTime[r] + Lag /\ lease[r] > beatTime[r] + Lag + Slack(r)
    BY <1>1, <1>10 DEF BeatRaises, Timely, InsideOwns, LeaseOutlastsSend
  <2>9. lease'[r] > beatTime'[r] + 2 * Lag + Slack(r)'
    BY <2>6, <2>7, <2>8, CycleType, HeartbeatIntervalType DEF BeatCycle
  <2>10. now' <= beatTime'[r] + Lag
    BY <2>7, CycleType, HeartbeatIntervalType
  <2> QED
    BY <1>10, <2>7, <2>8, <2>9, <2>10
    DEF Timely, CheckedLately, InsideOwns, LeaseOutlastsWait, LeaseOutlastsSend,
        Inside
<1>11. CASE BeatRaises(r)
  <2>1. misses'[r] \in 0..MaxMisses
    BY <1>11, ConstantsAssumption DEF BeatRaises
  <2> QED
    BY <1>6, <1>8, <1>10, <1>11, <2>1 DEF BeatRaises
<1> QED
  BY <1>4, <1>5, <1>7, <1>9, <1>11 DEF BeatStep

---------------------------------------------------------------------------
LEMMA InitTimely == Init => TimelyInv
BY DEF Init, TimelyInv, Timely, CheckedLately, InsideOwns, LeaseOutlastsWait,
       LeaseOutlastsSend, Inside

LEMMA NextTimely == Context /\ [TimelyNext]_vars => TimelyInv'
<1> SUFFICES ASSUME Context, [TimelyNext]_vars, NEW o \in Run
             PROVE  Timely(o)'
  BY DEF TimelyInv
<1>1. Timely(o)
  BY DEF Context, TimelyInv
<1>2. ASSUME NEW r \in Run, RunOnceStep(r) \/ BeatStep(r)
      PROVE  Timely(o)'
  BY <1>2, StepKeepsOthersTimely, RunOnceStepTimely, BeatStepTimely
<1>3. CASE TimelyTick
  <2>1. OnTime(o) /\ now' = now + 1 /\ UNCHANGED <<lockVars, phase, checkedAt, beatVars>>
    BY <1>3 DEF TimelyTick, Tick
  <2>2. beatTime[o] \in Nat /\ checkedAt[o] \in Nat /\ now \in Nat
    BY DEF Context, TypeOK
  <2> QED
    BY <1>1, <2>1, <2>2, CycleType
    DEF OnTime, Timely, CheckedLately, InsideOwns, LeaseOutlastsWait,
        LeaseOutlastsSend, Inside, Slack, lockVars, beatVars
<1>4. CASE UNCHANGED vars
  BY <1>1, <1>4
  DEF vars, Timely, CheckedLately, InsideOwns, LeaseOutlastsWait,
      LeaseOutlastsSend, Inside, Slack, lockVars, beatVars
<1> QED
  BY <1>2, <1>3, <1>4 DEF TimelyNext, CallStep, Quiescent

\* The timing restriction only removes behaviours, so everything proved of
\* the run lock holds here too.
THEOREM TimelyIsScheduler == TimelySpec => Spec
<1>1. [TimelyNext]_vars => [Next]_vars
  BY DEF TimelyNext, TimelyTick, Next
<1> QED
  BY <1>1, PTL DEF TimelySpec, Spec

\* Under TimingAssumption no two pipelines ever run at the same time.
THEOREM TimelyPreventsOverlap == TimelySpec => []NoOverlap
<1>1. Context => NoOverlap
  BY DEF Context, TimelyInv, Timely, InsideOwns, NoOverlap
<1>2. TypeOK /\ LeaseInv /\ TimelyInv /\ [TimelyNext]_vars => TimelyInv'
  BY NextTimely DEF Context
<1>3. Context <=> TypeOK /\ LeaseInv /\ TimelyInv
  BY DEF Context
<1> QED
  BY <1>1, <1>2, <1>3, InitTimely, LeaseInvariant, TimelyIsScheduler, PTL
  DEF TimelySpec
===================================================================================
