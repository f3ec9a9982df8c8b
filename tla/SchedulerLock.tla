------------------------------ MODULE SchedulerLock ------------------------------
(***************************************************************************)
(* The run lock of services/scheduler.py and scheduler_repository.py: one  *)
(* row of scheduler_locks, which every call of PipelineScheduler.run_once  *)
(* acquires, keeps alive from a heartbeat thread and deletes at the end.   *)
(*                                                                         *)
(* A run is one call of run_once and its owner token (a fresh uuid4), so a *)
(* member of Run is used once. Calls may come from one looping process or  *)
(* from several. Each repository call is one transaction, one action here. *)
(* A call that raises may or may not have reached its commit.              *)
(***************************************************************************)
EXTENDS Integers

CONSTANTS
    Run,        \* the calls of run_once, each with its own owner token
    NoRun,      \* the absent row
    Ttl,        \* lock_ttl_seconds
    OpenTimes,  \* the times at which the calendar allows a run
    MaxMisses,  \* bound: consecutive heartbeats of a run that may raise
    Horizon     \* bound: the last value of the clock

ASSUME ConstantsAssumption ==
    /\ NoRun \notin Run
    /\ Ttl \in Nat \ {0}
    /\ OpenTimes \subseteq Nat
    /\ MaxMisses \in Nat
    /\ Horizon \in Nat

VARIABLES
    now,          \* the wall clock all processes share
    lockOwner,    \* owner_token of the row, NoRun when there is no row
    lockExpires,  \* expires_at of the row
    phase,        \* where each run_once stands
    checkedAt,    \* market_status.checked_at of a call that goes on to acquire
    beat,         \* the heartbeat thread of each call
    beatTime,     \* "waiting": when its wait ends; "sending": its heartbeat_at;
                  \* 0 without a thread, like every value nothing reads again
    misses,       \* how many heartbeats of the call raised in a row
    lease         \* history: the expiry the call last committed, 0 if none

lockVars == <<lockOwner, lockExpires, lease>>
beatVars == <<beat, beatTime, misses>>
vars == <<now, lockVars, phase, checkedAt, beatVars>>

Phase == {"idle", "checked", "running", "stopping", "done", "skipped",
          "failed", "crashed"}

TypeOK ==
    /\ now \in Nat
    /\ lockOwner \in Run \union {NoRun}
    /\ lockExpires \in Nat
    /\ phase \in [Run -> Phase]
    /\ checkedAt \in [Run -> Nat]
    /\ beat \in [Run -> {"none", "waiting", "sending"}]
    /\ beatTime \in [Run -> Nat]
    /\ misses \in [Run -> 0..MaxMisses]
    /\ lease \in [Run -> Nat]

Init ==
    /\ now = 0
    /\ lockOwner = NoRun
    /\ lockExpires = 0
    /\ phase = [r \in Run |-> "idle"]
    /\ checkedAt = [r \in Run |-> 0]
    /\ beat = [r \in Run |-> "none"]
    /\ beatTime = [r \in Run |-> 0]
    /\ misses = [r \in Run |-> 0]
    /\ lease = [r \in Run |-> 0]

---------------------------------------------------------------------------
\* _heartbeat_interval_seconds: max(1, min(60, ttl // 3)), also the timeout
\* of the join.
HeartbeatInterval ==
    LET third == Ttl \div 3
    IN  IF third < 1 THEN 1 ELSE IF third > 60 THEN 60 ELSE third

\* Bound: a lease written now still expires within the horizon.
Room == now + Ttl <= Horizon

\* Mutant of WriteRow: an expiry in the wrong unit.
WriteRowInMinutes(r, moment) ==
    /\ lockOwner' = r
    /\ lockExpires' = moment + 60 * Ttl
    /\ lease' = [lease EXCEPT ![r] = moment + 60 * Ttl]

\* The row of the lock now belongs to r and expires Ttl after `moment`.
WriteRow(r, moment) ==
    /\ lockOwner' = r
    /\ lockExpires' = moment + Ttl
    /\ lease' = [lease EXCEPT ![r] = moment + Ttl]

\* Mutant of Acquirable: DO UPDATE without its WHERE.
AcquirableAlways(moment) == TRUE

\* The condition of ON CONFLICT DO UPDATE: no row, or one already expired
\* at the moment the caller read from the calendar.
Acquirable(moment) == lockOwner = NoRun \/ lockExpires <= moment

\* INSERT .. ON CONFLICT DO UPDATE .. WHERE expires_at <= acquired_at.
AcquireRow(r) == Acquirable(checkedAt[r]) /\ WriteRow(r, checkedAt[r])

\* Mutants of RenewRow: an upsert, an UPDATE that forgets expires_at.
RenewRowUpsert(r) == WriteRow(r, beatTime[r])

RenewRowWithoutExpiry(r) == lockOwner = r /\ UNCHANGED lockVars

\* UPDATE .. WHERE owner_token = r: the expiry of the row is not looked at.
RenewRow(r) == lockOwner = r /\ WriteRow(r, beatTime[r])

\* Mutant of DeleteRow: DELETE by the lock's name alone.
DeleteRowOfAnyone(r) ==
    /\ lockOwner' = NoRun
    /\ lockExpires' = 0
    /\ UNCHANGED lease

\* DELETE .. WHERE owner_token = r, which may find no row.
DeleteRow(r) ==
    /\ lockOwner' = IF lockOwner = r THEN NoRun ELSE lockOwner
    /\ lockExpires' = IF lockOwner = r THEN 0 ELSE lockExpires
    /\ UNCHANGED lease

---------------------------------------------------------------------------
\* run_once reads the clock and asks the calendar; --force overrules it.
CheckCalendar(r, force) ==
    /\ phase[r] = "idle"
    /\ Room
    /\ \/ /\ force \/ now \in OpenTimes
          /\ phase' = [phase EXCEPT ![r] = "checked"]
          /\ checkedAt' = [checkedAt EXCEPT ![r] = now]
       \/ /\ ~force /\ now \notin OpenTimes
          /\ phase' = [phase EXCEPT ![r] = "skipped"]
          /\ UNCHANGED checkedAt
    /\ UNCHANGED <<now, lockVars, beatVars>>

Forget(r) == checkedAt' = [checkedAt EXCEPT ![r] = 0]

\* acquire returned the caller's own token: the thread starts, then start().
Acquire(r) ==
    /\ phase[r] = "checked"
    /\ AcquireRow(r)
    /\ phase' = [phase EXCEPT ![r] = "running"]
    /\ beat' = [beat EXCEPT ![r] = "waiting"]
    /\ beatTime' = [beatTime EXCEPT ![r] = now + HeartbeatInterval]
    /\ Forget(r)
    /\ UNCHANGED <<now, misses>>

\* acquire returned nothing: SKIPPED, "active run lock".
AcquireRefused(r) ==
    /\ phase[r] = "checked"
    /\ ~Acquirable(checkedAt[r])
    /\ phase' = [phase EXCEPT ![r] = "skipped"]
    /\ Forget(r)
    /\ UNCHANGED <<now, lockVars, beatVars>>

\* acquire raised, before or after its commit: no thread, no pipeline.
AcquireRaises(r) ==
    /\ phase[r] = "checked"
    /\ AcquireRow(r) \/ UNCHANGED lockVars
    /\ phase' = [phase EXCEPT ![r] = "failed"]
    /\ Forget(r)
    /\ UNCHANGED <<now, beatVars>>

\* pipeline.start() returned or raised; either way stop_heartbeat is set.
PipelineEnds(r) ==
    /\ phase[r] = "running"
    /\ phase' = [phase EXCEPT ![r] = "stopping"]
    /\ UNCHANGED <<now, lockVars, checkedAt, beatVars>>

\* Mutant of JoinIsOver: a join without a timeout.
JoinWaitsForThread(r) == phase[r] = "stopping" /\ beat[r] = "none"

\* The join is over, because the thread ended or because its timeout passed.
JoinIsOver(r) == phase[r] = "stopping"

\* The DELETE of the caller's own row commits, finding a row or not.
Release(r) ==
    /\ JoinIsOver(r)
    /\ phase' = [phase EXCEPT ![r] = "done"]
    /\ DeleteRow(r)
    /\ UNCHANGED <<now, checkedAt, beatVars>>

\* release raised before its commit: run_once is over, the row stays.
ReleaseRaises(r) ==
    /\ JoinIsOver(r)
    /\ phase' = [phase EXCEPT ![r] = "done"]
    /\ UNCHANGED <<now, lockVars, checkedAt, beatVars>>

ThreadEnds(r) ==
    /\ beat' = [beat EXCEPT ![r] = "none"]
    /\ beatTime' = [beatTime EXCEPT ![r] = 0]
    /\ misses' = [misses EXCEPT ![r] = 0]

\* The process dies with its daemon thread; the row stays.
Crash(r) ==
    /\ phase[r] \in {"checked", "running", "stopping"}
    /\ phase' = [phase EXCEPT ![r] = "crashed"]
    /\ Forget(r)
    /\ ThreadEnds(r)
    /\ UNCHANGED <<now, lockVars>>

---------------------------------------------------------------------------
\* The heartbeat thread.

\* stop_event.wait timed out with the event unset: the thread reads the clock.
BeatDue(r) ==
    /\ beat[r] = "waiting"
    /\ phase[r] = "running"
    /\ now >= beatTime[r]
    /\ Room
    /\ beat' = [beat EXCEPT ![r] = "sending"]
    /\ beatTime' = [beatTime EXCEPT ![r] = now]
    /\ UNCHANGED <<now, lockVars, phase, checkedAt, misses>>

\* stop_event.wait found the event set: the loop ends.
BeatStops(r) ==
    /\ beat[r] = "waiting"
    /\ phase[r] \in {"stopping", "done"}
    /\ ThreadEnds(r)
    /\ UNCHANGED <<now, lockVars, phase, checkedAt>>

WaitAgain(r) ==
    /\ beat' = [beat EXCEPT ![r] = "waiting"]
    /\ beatTime' = [beatTime EXCEPT ![r] = now + HeartbeatInterval]

\* The UPDATE found the row under the caller's token, expired or not.
BeatRenews(r) ==
    /\ beat[r] = "sending"
    /\ RenewRow(r)
    /\ WaitAgain(r)
    /\ misses' = [misses EXCEPT ![r] = 0]
    /\ UNCHANGED <<now, phase, checkedAt>>

\* The UPDATE found no row of the caller: the thread logs the loss and ends.
\* Nothing tells the pipeline.
BeatFindsLoss(r) ==
    /\ beat[r] = "sending"
    /\ lockOwner # r
    /\ ThreadEnds(r)
    /\ UNCHANGED <<now, lockVars, phase, checkedAt>>

\* The heartbeat raised, before or after its commit: the loop continues.
BeatRaises(r) ==
    /\ beat[r] = "sending"
    /\ misses[r] < MaxMisses
    /\ RenewRow(r) \/ UNCHANGED lockVars
    /\ WaitAgain(r)
    /\ misses' = [misses EXCEPT ![r] = misses[r] + 1]
    /\ UNCHANGED <<now, phase, checkedAt>>

---------------------------------------------------------------------------
Tick ==
    /\ now < Horizon
    /\ now' = now + 1
    /\ UNCHANGED <<lockVars, phase, checkedAt, beatVars>>

RunOnceStep(r) ==
    \/ \E force \in BOOLEAN : CheckCalendar(r, force)
    \/ Acquire(r)
    \/ AcquireRefused(r)
    \/ AcquireRaises(r)
    \/ PipelineEnds(r)
    \/ Release(r)
    \/ ReleaseRaises(r)
    \/ Crash(r)

BeatStep(r) ==
    \/ BeatDue(r)
    \/ BeatStops(r)
    \/ BeatRenews(r)
    \/ BeatFindsLoss(r)
    \/ BeatRaises(r)

CallStep == \E r \in Run : RunOnceStep(r) \/ BeatStep(r)

\* The end of the bounded clock with every call over: the only state in
\* which nothing is left to do.
Quiescent ==
    /\ now = Horizon
    /\ \A r \in Run :
        /\ phase[r] \notin {"checked", "running", "stopping"}
        /\ beat[r] = "none"
    /\ UNCHANGED vars

Next == CallStep \/ Tick \/ Quiescent

Spec == Init /\ [][Next]_vars

\* What the code's scheduling gives: time passes, a called repository
\* operation returns or raises, and a pipeline ends (every stage has its own
\* request timeouts). Nothing is assumed of the heartbeat thread, whose
\* database call may hang, nor of crashes, nor that run_once is called.
FairSpec ==
    /\ Spec
    /\ WF_vars(Tick)
    /\ \A r \in Run :
        /\ WF_vars(Acquire(r) \/ AcquireRefused(r) \/ AcquireRaises(r))
        /\ WF_vars(PipelineEnds(r))
        /\ WF_vars(Release(r) \/ ReleaseRaises(r))

---------------------------------------------------------------------------
Inside(r) == phase[r] = "running"

\* Two pipelines may run at the same time only when at least one of them has
\* outlived the lease it last committed: acquire, a delayed heartbeat and a
\* release never leave two running calls each with an unexpired lease.
LeaseExclusion ==
    \A a, b \in Run :
        a # b /\ Inside(a) /\ Inside(b) => lease[a] <= now \/ lease[b] <= now

\* A call that lost the row, to another acquirer or to its own release, never
\* gets it back: a heartbeat that lands late, after the takeover or after the
\* release that the join timeout let through, must not resurrect it.
OwnershipIsNeverRegained ==
    [][\A r \in Run : lease[r] > 0 /\ lockOwner # r => lockOwner' # r]_vars

\* The row leaves its owner only by the owner's own release or once it has
\* expired on the wall clock, although acquire compares it with the calendar
\* reading of the caller, which may be old by then.
NoEarlyTakeover ==
    [][\A r \in Run : lockOwner = r /\ lockOwner' # r =>
            \/ lockExpires <= now
            \/ phase[r] = "stopping" /\ phase'[r] = "done"]_vars

\* One pipeline at a time: what docs/CHANGELOG.md and docs/ARCHITECTURE.md
\* say the lock gives. Spec violates it; TimelyScheduler says when it holds.
NoOverlap == \A a, b \in Run : a # b => ~(Inside(a) /\ Inside(b))

\* run_once returns even when its heartbeat thread hangs in the database.
RunOnceReturns ==
    \A r \in Run :
        phase[r] \in {"checked", "running", "stopping"}
            ~> phase[r] \in {"done", "skipped", "failed", "crashed"}

\* Stale-lock recovery: a row left behind by a crash, by a release that
\* raised or by an acquire that raised after its commit stops blocking.
AbandonedLockExpires ==
    \A r \in Run :
        lockOwner = r /\ phase[r] \in {"crashed", "done", "failed"}
            ~> lockOwner # r \/ lockExpires <= now
==================================================================================
