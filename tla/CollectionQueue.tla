----------------------------- MODULE CollectionQueue -----------------------------
(***************************************************************************)
(* The work queue of continuous market collection: the tables              *)
(* continuous_collection_work_items and continuous_collection_attempts,    *)
(* the transactions of continuous_collection_repository.py and the worker  *)
(* loop execute_pending of continuous_collection_service.py.               *)
(*                                                                         *)
(* A worker is a process that calls execute_pending again and again. Each  *)
(* repository call is one transaction, one action here. claim_pending      *)
(* uses the clock reading its caller took before it. A claim is a pair     *)
(* <<work, attempt number>>: the snapshot of the row a worker keeps.       *)
(* claimed_by and the quota table are written and never read: left out.    *)
(***************************************************************************)
EXTENDS Integers, FiniteSets

CONSTANTS
    Work,          \* the work items
    Worker,        \* the processes that execute pending work
    NoClaim,       \* the worker deals with no claim in particular
    Rank,          \* the order of claims: priority, creation time, id
    Limit,         \* most items one call claims
    Stale,         \* stale_after_seconds
    MaxAttempts,   \* retry_policy.max_attempts
    Backoff,       \* retry_policy.delay, by attempt number
    MaxClaims,     \* bound: attempts of one item
    MaxFaults,     \* bound: crashes and repository calls that raise
    Horizon        \* bound: the last value of the clock

ASSUME QueueAssumption ==
    /\ Rank \in [Work -> Nat]
    /\ \A v, w \in Work : Rank[v] = Rank[w] => v = w
    /\ Limit \in Nat \ {0}
    /\ Stale \in Nat
    /\ MaxAttempts \in Nat \ {0}
    /\ MaxClaims \in Nat
    /\ Backoff \in [1..MaxClaims -> Nat]
    /\ MaxFaults \in Nat
    /\ Horizon \in Nat
    /\ NoClaim \notin Work \X (1..MaxClaims)

VARIABLES
    now,        \* the wall clock all processes share
    status,     \* the status of each item, "absent" before it is scheduled
    attempts,   \* attempt_count
    due,        \* next_retry_at, 0 for NULL
    claimedAt,  \* claimed_at, 0 for NULL
    outcome,    \* the immutable attempt rows, "none" where there is no row
    imported,   \* the items of which a payload is committed in V3.1
    call,       \* where each worker stands
    readAt,     \* the clock reading its execute_pending began with
    batch,      \* the claims it has still to deal with
    current,    \* the claim whose payload it imported
    step,       \* what the worker has done about `current`
    faults,     \* how many crashes and raised calls there were
    reclaims    \* history: how often each item's claim was found stale

itemVars == <<status, attempts, due, claimedAt>>
workerVars == <<call, readAt, batch, current, step>>
vars == <<now, itemVars, outcome, imported, workerVars, faults, reclaims>>

Successful == {"COMPLETED", "PARTIAL"}
Terminal == Successful \union {"FAILED", "UNAVAILABLE"}
Status == Terminal \union {"absent", "PENDING", "RUNNING", "RETRYING"}
Claim == Work \X (1..MaxClaims)

TypeOK ==
    /\ now \in Nat
    /\ status \in [Work -> Status]
    /\ attempts \in [Work -> 0..MaxClaims]
    /\ due \in [Work -> Nat]
    /\ claimedAt \in [Work -> Nat]
    /\ outcome \in [Claim -> Terminal \union {"RETRYING", "none"}]
    /\ imported \subseteq Work
    /\ call \in [Worker -> {"idle", "claiming", "working"}]
    /\ readAt \in [Worker -> Nat]
    /\ batch \in [Worker -> SUBSET Claim]
    /\ current \in [Worker -> Claim \union {NoClaim}]
    /\ step \in [Worker -> {"between", "imported", "finished", "raised"}]
    /\ faults \in 0..MaxFaults
    /\ reclaims \in [Work -> Nat]

Init ==
    /\ now = 0
    /\ status = [w \in Work |-> "absent"]
    /\ attempts = [w \in Work |-> 0]
    /\ due = [w \in Work |-> 0]
    /\ claimedAt = [w \in Work |-> 0]
    /\ outcome = [c \in Claim |-> "none"]
    /\ imported = {}
    /\ call = [k \in Worker |-> "idle"]
    /\ readAt = [k \in Worker |-> 0]
    /\ batch = [k \in Worker |-> {}]
    /\ current = [k \in Worker |-> NoClaim]
    /\ step = [k \in Worker |-> "between"]
    /\ faults = 0
    /\ reclaims = [w \in Work |-> 0]

---------------------------------------------------------------------------
\* INSERT .. ON CONFLICT(work_id) DO NOTHING: a second insert does nothing.
Schedule(w) ==
    /\ status[w] = "absent"
    /\ status' = [status EXCEPT ![w] = "PENDING"]
    /\ UNCHANGED <<now, attempts, due, claimedAt, outcome, imported,
                   workerVars, faults, reclaims>>

\* execute_pending begins: it reads the clock.
ReadClock(k) ==
    /\ call[k] = "idle"
    /\ call' = [call EXCEPT ![k] = "claiming"]
    /\ readAt' = [readAt EXCEPT ![k] = now]
    /\ UNCHANGED <<now, itemVars, outcome, imported, batch, current, step,
                   faults, reclaims>>

\* Mutants of StaleAt: no lease, no recovery.
StaleAtOnce(moment) ==
    {w \in Work : status[w] = "RUNNING" /\ claimedAt[w] < moment}

StaleNever(moment) == {}

\* status='RUNNING' AND claimed_at < now - stale_after_seconds.
StaleAt(moment) ==
    {w \in Work : status[w] = "RUNNING" /\ claimedAt[w] < moment - Stale}

\* Mutants of ReadyAt: retries forgotten, failed work taken up again.
ReadyWhenPending(moment) ==
    {w \in Work : status[w] = "PENDING" /\ due[w] <= moment} \union StaleAt(moment)

ReadyWhenFailed(moment) ==
    {w \in Work : status[w] \in {"PENDING", "RETRYING", "FAILED"} /\ due[w] <= moment}
        \union StaleAt(moment)

\* What the SELECT of the same transaction then finds: pending and due work,
\* and the work just returned to RETRYING, due at once.
ReadyAt(moment) ==
    {w \in Work : status[w] \in {"PENDING", "RETRYING"} /\ due[w] <= moment}
        \union StaleAt(moment)

\* ORDER BY .. LIMIT: the first Limit of `ready`.
FirstOf(chosen, ready) ==
    /\ Cardinality(chosen) <= Limit
    /\ chosen = ready \/ Cardinality(chosen) = Limit
    /\ \A v \in chosen, w \in ready \ chosen : Rank[v] < Rank[w]

\* Mutant of NextAttempt: a claim is counted only the first time.
NextAttemptOnce(w) == IF attempts[w] = 0 THEN 1 ELSE attempts[w]

\* attempt_count + 1
NextAttempt(w) == attempts[w] + 1

\* claim_pending: stale claims are returned, then the first items claimed.
ClaimPending(k) ==
    LET moment == readAt[k]
        stale == StaleAt(moment)
        ready == ReadyAt(moment)
    IN  /\ call[k] = "claiming"
        /\ \E chosen \in SUBSET ready :
            /\ FirstOf(chosen, ready)
            /\ \A w \in chosen : attempts[w] < MaxClaims
            /\ status' = [w \in Work |->
                    IF w \in chosen THEN "RUNNING"
                    ELSE IF w \in stale THEN "RETRYING" ELSE status[w]]
            /\ attempts' = [w \in Work |->
                    IF w \in chosen THEN NextAttempt(w) ELSE attempts[w]]
            /\ due' = [w \in Work |-> IF w \in stale THEN moment ELSE due[w]]
            /\ claimedAt' = [w \in Work |->
                    IF w \in chosen THEN moment
                    ELSE IF w \in stale THEN 0 ELSE claimedAt[w]]
            /\ batch' = [batch EXCEPT ![k] = {<<w, NextAttempt(w)>> : w \in chosen}]
            /\ call' = [call EXCEPT ![k] = IF chosen = {} THEN "idle" ELSE "working"]
            /\ readAt' = [readAt EXCEPT ![k] = IF chosen = {} THEN 0 ELSE moment]
        /\ reclaims' = [w \in Work |->
                IF w \in stale THEN reclaims[w] + 1 ELSE reclaims[w]]
        /\ UNCHANGED <<now, outcome, imported, current, step, faults>>

---------------------------------------------------------------------------
\* One iteration of the loop over the claimed work. UPDATE .. RETURNING gives
\* the rows in no particular order, so the next claim is any of the batch.

\* c is the claim worker k is dealing with, or may take up next.
Handles(k, c) == c \in batch[k] /\ current[k] \in {NoClaim, c}

\* The iteration over c is over; without work left execute_pending returns.
Drop(k, c) ==
    /\ batch' = [batch EXCEPT ![k] = batch[k] \ {c}]
    /\ call' = [call EXCEPT ![k] = IF batch[k] = {c} THEN "idle" ELSE "working"]
    /\ readAt' = [readAt EXCEPT ![k] = IF batch[k] = {c} THEN 0 ELSE readAt[k]]
    /\ current' = [current EXCEPT ![k] = NoClaim]
    /\ step' = [step EXCEPT ![k] = "between"]

\* The process died or an exception left execute_pending: the claims of the
\* batch are forgotten and stay RUNNING in the table.
Abandon(k) ==
    /\ batch' = [batch EXCEPT ![k] = {}]
    /\ call' = [call EXCEPT ![k] = "idle"]
    /\ readAt' = [readAt EXCEPT ![k] = 0]
    /\ current' = [current EXCEPT ![k] = NoClaim]
    /\ step' = [step EXCEPT ![k] = "between"]

StepTo(k, c, s) ==
    /\ current' = [current EXCEPT ![k] = c]
    /\ step' = [step EXCEPT ![k] = s]
    /\ UNCHANGED <<call, readAt, batch>>

Fault == faults < MaxFaults /\ faults' = faults + 1

\* Mutant of FinishAttempt: a forgotten UPDATE of the work item.
FinishAttemptRowOnly(c, s) ==
    /\ outcome[c] = "none"
    /\ outcome' = [outcome EXCEPT ![c] = s]
    /\ UNCHANGED itemVars

\* The transaction of finish_attempt: the attempt row is new, and the item is
\* updated by its id alone, whatever its status and whoever claimed it.
FinishAttempt(c, s) ==
    LET w == c[1]
    IN  /\ outcome[c] = "none"
        /\ outcome' = [outcome EXCEPT ![c] = s]
        /\ status' = [status EXCEPT ![w] = s]
        /\ due' = [due EXCEPT ![w] = IF s = "RETRYING" THEN now + Backoff[c[2]] ELSE 0]
        /\ claimedAt' = [claimedAt EXCEPT ![w] = 0]
        /\ UNCHANGED attempts

\* Mutant of AfterError: one retry too many.
AfterErrorInclusive(c) == IF c[2] <= MaxAttempts THEN "RETRYING" ELSE "FAILED"

\* The status after an error: retried below max_attempts, by the attempt
\* number of the worker's own snapshot.
AfterError(c) == IF c[2] < MaxAttempts THEN "RETRYING" ELSE "FAILED"

\* Mutant of ImportPayload: the payload is not committed.
ImportPayloadUncommitted(k, c) ==
    /\ Handles(k, c)
    /\ step[k] = "between"
    /\ StepTo(k, c, "imported")
    /\ UNCHANGED <<now, itemVars, outcome, imported, faults, reclaims>>

\* The provider returned a batch and V3.1 committed its payload.
ImportPayload(k, c) ==
    /\ Handles(k, c)
    /\ step[k] = "between"
    /\ imported' = imported \union {c[1]}
    /\ StepTo(k, c, "imported")
    /\ UNCHANGED <<now, itemVars, outcome, faults, reclaims>>

\* import_payload committed but raised.
ImportRaises(k, c) ==
    /\ Handles(k, c)
    /\ step[k] = "between"
    /\ imported' = imported \union {c[1]}
    /\ StepTo(k, c, "raised")
    /\ Fault
    /\ UNCHANGED <<now, itemVars, outcome, reclaims>>

\* The finish_attempt that follows an import.
FinishImported(k, c) ==
    /\ Handles(k, c)
    /\ step[k] = "imported"
    /\ \E s \in Successful : FinishAttempt(c, s)
    /\ StepTo(k, c, "finished")
    /\ UNCHANGED <<now, imported, faults, reclaims>>

\* It raised, before or after its commit: `except Exception` takes over.
FinishImportedRaises(k, c) ==
    /\ Handles(k, c)
    /\ step[k] = "imported"
    /\ \/ \E s \in Successful : FinishAttempt(c, s)
       \/ UNCHANGED <<itemVars, outcome>>
    /\ StepTo(k, c, "raised")
    /\ Fault
    /\ UNCHANGED <<now, imported, reclaims>>

\* set_quota after a success, or none to record: the iteration is over.
RecordQuota(k, c) ==
    /\ Handles(k, c)
    /\ step[k] = "finished"
    /\ Drop(k, c)
    /\ UNCHANGED <<now, itemVars, outcome, imported, faults, reclaims>>

\* set_quota raised: `except Exception` treats the finished work as failed.
RecordQuotaRaises(k, c) ==
    /\ Handles(k, c)
    /\ step[k] = "finished"
    /\ StepTo(k, c, "raised")
    /\ Fault
    /\ UNCHANGED <<now, itemVars, outcome, imported, reclaims>>

\* No provider, ProviderUnavailableError, quota or another error: the attempt
\* is finished without a manifest.
FinishUnsuccessful(k, c) ==
    /\ Handles(k, c)
    /\ \/ step[k] \in {"between", "raised"} /\ FinishAttempt(c, AfterError(c))
       \/ step[k] = "between" /\ FinishAttempt(c, "UNAVAILABLE")
    /\ Drop(k, c)
    /\ UNCHANGED <<now, imported, faults, reclaims>>

\* The same attempt is finished a second time: its row exists, the INSERT
\* raises and the exception leaves execute_pending.
FinishTwice(k, c) ==
    /\ Handles(k, c)
    /\ step[k] = "raised"
    /\ outcome[c] # "none"
    /\ Abandon(k)
    /\ UNCHANGED <<now, itemVars, outcome, imported, faults, reclaims>>

\* A finish_attempt outside the try, or in a handler, raised after its commit.
FinishUnsuccessfulRaises(k, c) ==
    /\ Handles(k, c)
    /\ \/ step[k] \in {"between", "raised"} /\ FinishAttempt(c, AfterError(c))
       \/ step[k] = "between" /\ FinishAttempt(c, "UNAVAILABLE")
    /\ Abandon(k)
    /\ Fault
    /\ UNCHANGED <<now, imported, reclaims>>

\* The process dies, claim_pending raises, or a finish_attempt or set_quota in
\* a handler raises before its commit.
Crash(k) ==
    /\ call[k] # "idle"
    /\ Abandon(k)
    /\ Fault
    /\ UNCHANGED <<now, itemVars, outcome, imported, reclaims>>

---------------------------------------------------------------------------
Tick ==
    /\ now < Horizon
    /\ now' = now + 1
    /\ UNCHANGED <<itemVars, outcome, imported, workerVars, faults, reclaims>>

ClaimStep(k) == ReadClock(k) \/ ClaimPending(k) \/ Crash(k)

AttemptStep(k, c) ==
    \/ ImportPayload(k, c)
    \/ ImportRaises(k, c)
    \/ FinishImported(k, c)
    \/ FinishImportedRaises(k, c)
    \/ RecordQuota(k, c)
    \/ RecordQuotaRaises(k, c)
    \/ FinishUnsuccessful(k, c)
    \/ FinishTwice(k, c)
    \/ FinishUnsuccessfulRaises(k, c)

QueueStep ==
    \/ \E w \in Work : Schedule(w)
    \/ \E k \in Worker : ClaimStep(k) \/ \E c \in batch[k] : AttemptStep(k, c)

Next == QueueStep \/ Tick

Spec == Init /\ [][Next]_vars

\* What the code's scheduling gives: time passes, execute_pending is called
\* again and again (the command is safe to rerun, and a scheduler entry would
\* repeat it), and its provider and repository calls return or raise.
FairSpec ==
    /\ Spec
    /\ WF_vars(Tick)
    /\ \A k \in Worker :
        /\ WF_vars(ReadClock(k))
        /\ WF_vars(ClaimPending(k))
        /\ WF_vars(\E c \in batch[k] : AttemptStep(k, c))

---------------------------------------------------------------------------
\* Attempt numbers are handed out once: however many workers claim, crash and
\* come back late, no two of them work on the same attempt, none works on an
\* attempt whose row is written (but the one it wrote itself), and no row is
\* of an attempt nobody claimed.
AttemptsAreUnique ==
    /\ \A j, k \in Worker : j # k => batch[j] \intersect batch[k] = {}
    /\ \A k \in Worker : \A c \in batch[k] :
        /\ c[2] <= attempts[c[1]]
        /\ outcome[c] # "none" =>
                current[k] = c /\ step[k] \in {"finished", "raised"}
    /\ \A c \in Claim : outcome[c] # "none" => c[2] <= attempts[c[1]]

\* An attempt row tells of success only when V3.1 has the payload.
SuccessIsImported ==
    \A c \in Claim : outcome[c] \in Successful => c[1] \in imported

\* The configured limit can be exceeded only by recovering stale claims, once
\* for each: late finishes and failing handlers add no attempt of their own.
RetriesAreBounded ==
    \A w \in Work : attempts[w] <= MaxAttempts + reclaims[w]

\* Running work is claimed again only when its claim is stale on the wall
\* clock, although claim_pending judges by its caller's older reading.
NoEarlyReclaim ==
    [][\A w \in Work : status[w] = "RUNNING" /\ attempts'[w] # attempts[w] =>
            claimedAt[w] < now - Stale]_vars

\* Two workers hold the same work only when the older claim has become stale:
\* "atomic claims prevent overlap" (docs/ARCHITECTURE.md). Spec violates it:
\* the late finish of a stale claim takes the work from the fresh one.
FreshClaimsExclusive ==
    \A j, k \in Worker : \A c \in batch[j], d \in batch[k] :
        c[1] = d[1] /\ c[2] < d[2] => readAt[j] < now - Stale

\* w is left RUNNING with nobody working on its last attempt, and the clock
\* goes on until the claim is stale.
Abandoned(w) ==
    /\ status[w] = "RUNNING"
    /\ \A k \in Worker : <<w, attempts[w]>> \notin batch[k]
    /\ claimedAt[w] < Horizon - Stale

\* w waits for its next attempt, which is due before the clock ends.
Waiting(w) == status[w] \in {"PENDING", "RETRYING"} /\ due[w] <= Horizon

\* Stale claims recover after interruption: work left RUNNING by a worker that
\* died or was thrown out of its batch is claimed again or finished.
AbandonedClaimRecovers == \A w \in Work : Abandoned(w) ~> ~Abandoned(w)

\* Scheduled work gets its attempt, however many items go before it, unless a
\* late finish settles it or puts it off beyond the end of the clock.
DueWorkIsAttempted == \A w \in Work : Waiting(w) ~> ~Waiting(w)
==================================================================================
