--------------------------- MODULE SchedulerLock_proofs ---------------------------
(***************************************************************************)
(* Proofs about SchedulerLock for every set of calls, every lease length,  *)
(* calendar and bound. Nothing is assumed of the timing of any step.       *)
(***************************************************************************)
EXTENDS SchedulerLock, TLAPS

\* The heartbeat interval is a whole number of seconds, at least one.
LEMMA HeartbeatIntervalType == HeartbeatInterval \in Nat \ {0}
BY ConstantsAssumption DEF HeartbeatInterval

---------------------------------------------------------------------------
\* Type correctness.
LEMMA InitTypeOK == Init => TypeOK
BY ConstantsAssumption DEF Init, TypeOK, Phase

LEMMA NextTypeOK == TypeOK /\ [Next]_vars => TypeOK'
<1> SUFFICES ASSUME TypeOK, [Next]_vars
             PROVE  TypeOK'
  OBVIOUS
<1> USE ConstantsAssumption, HeartbeatIntervalType DEF TypeOK, Phase
<1>1. ASSUME NEW r \in Run, RunOnceStep(r)
      PROVE  TypeOK'
  <2>1. ASSUME NEW force \in BOOLEAN, CheckCalendar(r, force)
        PROVE  TypeOK'
    BY <2>1 DEF CheckCalendar, lockVars, beatVars
  <2>2. CASE Acquire(r)
    BY <2>2 DEF Acquire, AcquireRow, WriteRow, Forget
  <2>3. CASE AcquireRefused(r)
    BY <2>3 DEF AcquireRefused, Forget, lockVars, beatVars
  <2>4. CASE AcquireRaises(r)
    BY <2>4 DEF AcquireRaises, AcquireRow, WriteRow, Forget, lockVars, beatVars
  <2>5. CASE PipelineEnds(r)
    BY <2>5 DEF PipelineEnds, lockVars, beatVars
  <2>6. CASE Release(r)
    BY <2>6 DEF Release, DeleteRow, beatVars
  <2>7. CASE ReleaseRaises(r)
    BY <2>7 DEF ReleaseRaises, lockVars, beatVars
  <2>8. CASE Crash(r)
    BY <2>8 DEF Crash, ThreadEnds, Forget, lockVars
  <2> QED
    BY <1>1, <2>1, <2>2, <2>3, <2>4, <2>5, <2>6, <2>7, <2>8 DEF RunOnceStep
<1>2. ASSUME NEW r \in Run, BeatStep(r)
      PROVE  TypeOK'
  <2>1. CASE BeatDue(r)
    BY <2>1 DEF BeatDue, lockVars
  <2>2. CASE BeatStops(r)
    BY <2>2 DEF BeatStops, ThreadEnds, lockVars
  <2>3. CASE BeatRenews(r)
    BY <2>3 DEF BeatRenews, RenewRow, WriteRow, WaitAgain
  <2>4. CASE BeatFindsLoss(r)
    BY <2>4 DEF BeatFindsLoss, ThreadEnds, lockVars
  <2>5. CASE BeatRaises(r)
    BY <2>5 DEF BeatRaises, RenewRow, WriteRow, WaitAgain, lockVars
  <2> QED
    BY <1>2, <2>1, <2>2, <2>3, <2>4, <2>5 DEF BeatStep
<1>3. CASE Tick
  BY <1>3 DEF Tick, lockVars, beatVars
<1>4. CASE UNCHANGED vars
  BY <1>4 DEF vars, lockVars, beatVars
<1> QED
  BY <1>1, <1>2, <1>3, <1>4 DEF Next, CallStep, Quiescent

\* Every reachable state is well typed, whatever the constants.
THEOREM TypeCorrect == Spec => []TypeOK
BY InitTypeOK, NextTypeOK, PTL DEF Spec

---------------------------------------------------------------------------
(***************************************************************************)
(* The inductive invariant. The row records the expiry its owner last      *)
(* committed; a call that read the calendar read it in the past; a call    *)
(* that has not acquired yet never wrote a lease; only a call that did     *)
(* acquire has a heartbeat thread; and a call inside its pipeline either   *)
(* still owns the row or has outlived its lease.                           *)
(***************************************************************************)
RowRecordsLease == lockOwner # NoRun => lockExpires = lease[lockOwner]

CheckedInThePast == \A r \in Run : checkedAt[r] <= now

FreshWithoutLease ==
    \A r \in Run : phase[r] \in {"idle", "checked"} => lease[r] = 0

ThreadBelongsToRun ==
    \A r \in Run :
        beat[r] # "none" => phase[r] \in {"running", "stopping", "done"}

InsideOwnsOrLapsed ==
    \A r \in Run : Inside(r) => lockOwner = r \/ lease[r] <= now

LeaseInv ==
    /\ RowRecordsLease
    /\ CheckedInThePast
    /\ FreshWithoutLease
    /\ ThreadBelongsToRun
    /\ InsideOwnsOrLapsed

LEMMA InitLeaseInv == Init => LeaseInv
BY ConstantsAssumption DEF Init, LeaseInv, RowRecordsLease, CheckedInThePast,
   FreshWithoutLease, ThreadBelongsToRun, InsideOwnsOrLapsed, Inside

\* A write of the row by a call that may write it: the acquirer, when there is
\* no row or an expired one, or the owner. Every other call inside its
\* pipeline is left without an unexpired lease.
LEMMA WriteRowKeepsLeaseInv ==
    ASSUME TypeOK, LeaseInv, NEW r \in Run, NEW moment \in Nat,
           WriteRow(r, moment),
           lockOwner = r \/ (Acquirable(moment) /\ moment <= now),
           phase' \in [Run -> Phase], phase'[r] \notin {"idle", "checked"},
           \A o \in Run : o # r => phase'[o] = phase[o],
           \A o \in Run : checkedAt'[o] <= now,
           ThreadBelongsToRun',
           now' = now
    PROVE  LeaseInv'
<1> USE ConstantsAssumption
<1>1. /\ lockOwner' = r
      /\ lockExpires' = moment + Ttl
      /\ lease'[r] = moment + Ttl
      /\ \A o \in Run : o # r => lease'[o] = lease[o]
  BY DEF WriteRow, TypeOK
<1>2. RowRecordsLease'
  BY <1>1 DEF RowRecordsLease
<1>3. CheckedInThePast'
  BY DEF CheckedInThePast
<1>4. FreshWithoutLease'
  BY <1>1 DEF LeaseInv, FreshWithoutLease
<1>5. ASSUME NEW o \in Run, Inside(o)', o # r
      PROVE  lease'[o] <= now'
  <2>1. Inside(o) /\ lease'[o] = lease[o]
    BY <1>1, <1>5 DEF Inside
  <2>2. CASE lockOwner = o
    <3>1. lockExpires = lease[o] /\ lockExpires <= moment /\ moment <= now
      BY <1>5, <2>2 DEF Acquirable, LeaseInv, RowRecordsLease
    <3> QED
      BY <2>1, <3>1 DEF TypeOK
  <2>3. CASE lockOwner # o
    BY <2>1, <2>3 DEF LeaseInv, InsideOwnsOrLapsed
  <2> QED
    BY <2>2, <2>3
<1>6. InsideOwnsOrLapsed'
  BY <1>1, <1>5 DEF InsideOwnsOrLapsed, Inside
<1> QED
  BY <1>2, <1>3, <1>4, <1>6 DEF LeaseInv

\* A step that leaves row, leases and clock alone and lets no call into its
\* pipeline.
LEMMA QuietStepKeepsLeaseInv ==
    ASSUME TypeOK, LeaseInv, UNCHANGED <<now, lockVars>>,
           \A o \in Run : checkedAt'[o] <= now,
           \A o \in Run : Inside(o)' => Inside(o),
           \A o \in Run : phase'[o] \in {"idle", "checked"} =>
                               phase[o] \in {"idle", "checked"},
           ThreadBelongsToRun'
    PROVE  LeaseInv'
BY DEF LeaseInv, RowRecordsLease, CheckedInThePast, FreshWithoutLease,
       InsideOwnsOrLapsed, Inside, lockVars

\* A heartbeat that found its row.
LEMMA RenewKeepsLeaseInv ==
    ASSUME TypeOK, LeaseInv, NEW r \in Run, beat[r] = "sending", RenewRow(r),
           WaitAgain(r), UNCHANGED <<now, phase, checkedAt>>
    PROVE  LeaseInv'
<1>1. PICK moment \in Nat : moment = beatTime[r]
  BY DEF TypeOK
<1>2. lockOwner = r /\ WriteRow(r, moment)
  BY <1>1 DEF RenewRow, WriteRow
<1>3. phase[r] \in {"running", "stopping", "done"}
  BY DEF LeaseInv, ThreadBelongsToRun
<1>4. /\ phase' \in [Run -> Phase]
      /\ phase'[r] \notin {"idle", "checked"}
  BY <1>3 DEF TypeOK
<1>5. \A o \in Run : o # r => phase'[o] = phase[o]
  OBVIOUS
<1>6. \A o \in Run : checkedAt'[o] <= now
  BY DEF LeaseInv, CheckedInThePast
<1>7. ThreadBelongsToRun'
  BY <1>3 DEF LeaseInv, ThreadBelongsToRun, WaitAgain, TypeOK
<1>8. now' = now
  OBVIOUS
<1>9. lockOwner = r \/ (Acquirable(moment) /\ moment <= now)
  BY <1>2
<1> QED
  BY <1>2, <1>4, <1>5, <1>6, <1>7, <1>8, <1>9, WriteRowKeepsLeaseInv

LEMMA NextLeaseInv == TypeOK /\ LeaseInv /\ [Next]_vars => LeaseInv'
<1> SUFFICES ASSUME TypeOK, LeaseInv, [Next]_vars
             PROVE  LeaseInv'
  OBVIOUS
<1>1. \A o \in Run : checkedAt[o] <= now /\ checkedAt[o] \in Nat /\ now \in Nat
  BY DEF TypeOK, LeaseInv, CheckedInThePast
<1>2. \A o \in Run :
        beat[o] # "none" => phase[o] \in {"running", "stopping", "done"}
  BY DEF LeaseInv, ThreadBelongsToRun
<1>3. ASSUME NEW r \in Run, RunOnceStep(r)
      PROVE  LeaseInv'
  <2> USE <1>1, <1>2 DEF TypeOK, Phase
  <2>1. ASSUME NEW force \in BOOLEAN, CheckCalendar(r, force)
        PROVE  LeaseInv'
    BY <2>1, QuietStepKeepsLeaseInv
    DEF CheckCalendar, ThreadBelongsToRun, Inside, beatVars
  <2>2. CASE Acquire(r)
    BY <2>2, WriteRowKeepsLeaseInv
    DEF Acquire, AcquireRow, Forget, ThreadBelongsToRun
  <2>3. CASE AcquireRefused(r)
    BY <2>3, QuietStepKeepsLeaseInv
    DEF AcquireRefused, Forget, ThreadBelongsToRun, Inside, beatVars
  <2>4. CASE AcquireRaises(r)
    <3>1. CASE AcquireRow(r)
      BY <2>4, <3>1, WriteRowKeepsLeaseInv
      DEF AcquireRaises, AcquireRow, Forget, ThreadBelongsToRun, beatVars
    <3>2. CASE UNCHANGED lockVars
      BY <2>4, <3>2, QuietStepKeepsLeaseInv
      DEF AcquireRaises, Forget, ThreadBelongsToRun, Inside, beatVars
    <3> QED
      BY <2>4, <3>1, <3>2 DEF AcquireRaises
  <2>5. CASE PipelineEnds(r)
    BY <2>5, QuietStepKeepsLeaseInv
    DEF PipelineEnds, ThreadBelongsToRun, Inside, beatVars
  <2>6. CASE Release(r)
    BY <2>6, ConstantsAssumption
    DEF Release, DeleteRow, LeaseInv, RowRecordsLease, CheckedInThePast,
        FreshWithoutLease, ThreadBelongsToRun, InsideOwnsOrLapsed, Inside,
        beatVars
  <2>7. CASE ReleaseRaises(r)
    BY <2>7, QuietStepKeepsLeaseInv
    DEF ReleaseRaises, ThreadBelongsToRun, Inside, beatVars
  <2>8. CASE Crash(r)
    BY <2>8, QuietStepKeepsLeaseInv
    DEF Crash, ThreadEnds, Forget, ThreadBelongsToRun, Inside
  <2> QED
    BY <1>3, <2>1, <2>2, <2>3, <2>4, <2>5, <2>6, <2>7, <2>8 DEF RunOnceStep
<1>4. ASSUME NEW r \in Run, BeatStep(r)
      PROVE  LeaseInv'
  <2> USE <1>1, <1>2 DEF TypeOK, Phase
  <2>1. CASE BeatDue(r)
    BY <2>1, QuietStepKeepsLeaseInv DEF BeatDue, ThreadBelongsToRun, Inside
  <2>2. CASE BeatStops(r)
    BY <2>2, QuietStepKeepsLeaseInv
    DEF BeatStops, ThreadEnds, ThreadBelongsToRun, Inside
  <2>3. CASE BeatRenews(r)
    BY <2>3, RenewKeepsLeaseInv DEF BeatRenews
  <2>4. CASE BeatFindsLoss(r)
    BY <2>4, QuietStepKeepsLeaseInv
    DEF BeatFindsLoss, ThreadEnds, ThreadBelongsToRun, Inside
  <2>5. CASE BeatRaises(r)
    <3>1. CASE RenewRow(r)
      BY <2>5, <3>1, RenewKeepsLeaseInv DEF BeatRaises
    <3>2. CASE UNCHANGED lockVars
      BY <2>5, <3>2, QuietStepKeepsLeaseInv
      DEF BeatRaises, WaitAgain, ThreadBelongsToRun, Inside
    <3> QED
      BY <2>5, <3>1, <3>2 DEF BeatRaises
  <2> QED
    BY <1>4, <2>1, <2>2, <2>3, <2>4, <2>5 DEF BeatStep
<1>5. CASE Tick
  BY <1>1, <1>5
  DEF Tick, TypeOK, LeaseInv, RowRecordsLease, CheckedInThePast, FreshWithoutLease,
      ThreadBelongsToRun, InsideOwnsOrLapsed, Inside, lockVars, beatVars
<1>6. CASE UNCHANGED vars
  BY <1>6
  DEF vars, LeaseInv, RowRecordsLease, CheckedInThePast, FreshWithoutLease,
      ThreadBelongsToRun, InsideOwnsOrLapsed, Inside, lockVars, beatVars
<1> QED
  BY <1>3, <1>4, <1>5, <1>6 DEF Next, CallStep, Quiescent

LEMMA LeaseInvariant == Spec => [](TypeOK /\ LeaseInv)
<1>1. TypeOK /\ LeaseInv /\ [Next]_vars => (TypeOK /\ LeaseInv)'
  BY NextTypeOK, NextLeaseInv
<1> QED
  BY <1>1, InitTypeOK, InitLeaseInv, PTL DEF Spec

\* At most one running call has an unexpired lease, however late heartbeats,
\* acquires and releases commit and whichever calls crash or raise.
THEOREM LeaseExclusionHolds == Spec => []LeaseExclusion
<1>1. TypeOK /\ LeaseInv => LeaseExclusion
  BY DEF LeaseInv, InsideOwnsOrLapsed, LeaseExclusion
<1> QED
  BY <1>1, LeaseInvariant, PTL

---------------------------------------------------------------------------
\* A row once lost is lost for good: only a call still without a lease can
\* take the row from another, and a heartbeat writes it only for its owner.
THEOREM OwnershipNeverRegained == Spec => OwnershipIsNeverRegained
<1> DEFINE A == \A r \in Run : lease[r] > 0 /\ lockOwner # r => lockOwner' # r
<1>1. ASSUME TypeOK, LeaseInv, [Next]_vars
      PROVE  A
  <2> SUFFICES ASSUME NEW r \in Run, lease[r] > 0, lockOwner # r, lockOwner' = r
               PROVE  FALSE
    OBVIOUS
  <2>1. lease[r] # 0
    BY <1>1 DEF TypeOK
  <2>2. phase[r] # "checked"
    BY <1>1, <2>1 DEF LeaseInv, FreshWithoutLease
  <2>3. PICK o \in Run : RunOnceStep(o) \/ BeatStep(o)
    BY <1>1, ConstantsAssumption
    DEF Next, CallStep, Tick, Quiescent, vars, lockVars
  <2>4. ~RunOnceStep(o)
    BY <2>2, ConstantsAssumption
    DEF RunOnceStep, CheckCalendar, Acquire, AcquireRefused, AcquireRaises,
        AcquireRow, WriteRow, PipelineEnds, Release, DeleteRow, ReleaseRaises,
        Crash, lockVars
  <2>5. ~BeatStep(o)
    BY DEF BeatStep, BeatDue, BeatStops, BeatRenews, BeatFindsLoss, BeatRaises,
           RenewRow, WriteRow, lockVars
  <2> QED
    BY <2>3, <2>4, <2>5
<1>2. ASSUME TypeOK, LeaseInv, [Next]_vars
      PROVE  [A]_vars
  BY <1>1, <1>2
<1> QED
  BY <1>2, LeaseInvariant, PTL DEF Spec, OwnershipIsNeverRegained

\* No acquire takes the row before it expired on the wall clock, and no
\* release deletes another call's row.
THEOREM TakeoverOnlyAfterExpiry == Spec => NoEarlyTakeover
<1> DEFINE A == \A r \in Run : lockOwner = r /\ lockOwner' # r =>
                    \/ lockExpires <= now
                    \/ phase[r] = "stopping" /\ phase'[r] = "done"
<1>1. ASSUME TypeOK, LeaseInv, [Next]_vars
      PROVE  A
  <2> SUFFICES ASSUME NEW r \in Run, lockOwner = r, lockOwner' # r,
                      ~(phase[r] = "stopping" /\ phase'[r] = "done")
               PROVE  lockExpires <= now
    OBVIOUS
  <2>1. PICK o \in Run : RunOnceStep(o) \/ BeatStep(o)
    BY <1>1 DEF Next, CallStep, Tick, Quiescent, vars, lockVars
  <2>2. AcquireRow(o)
    BY <1>1, <2>1
    DEF RunOnceStep, CheckCalendar, Acquire, AcquireRefused, AcquireRaises,
        PipelineEnds, Release, JoinIsOver, DeleteRow, ReleaseRaises, Crash, lockVars,
        BeatStep, BeatDue, BeatStops, BeatRenews, BeatFindsLoss, BeatRaises,
        RenewRow, WriteRow, TypeOK
  <2>3. checkedAt[o] \in Nat /\ checkedAt[o] <= now
    BY <1>1 DEF TypeOK, LeaseInv, CheckedInThePast
  <2> QED
    BY <1>1, <2>2, <2>3, ConstantsAssumption DEF AcquireRow, Acquirable, TypeOK
<1>2. ASSUME TypeOK, LeaseInv, [Next]_vars
      PROVE  [A]_vars
  BY <1>1, <1>2
<1> QED
  BY <1>2, LeaseInvariant, PTL DEF Spec, NoEarlyTakeover
==================================================================================
