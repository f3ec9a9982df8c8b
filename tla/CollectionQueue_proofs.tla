-------------------------- MODULE CollectionQueue_proofs --------------------------
(***************************************************************************)
(* Proofs about CollectionQueue, for every set of items and workers and    *)
(* every value of the limits and delays; then about PromptQueue, where the *)
(* three promises of the work queue follow from workers that do not        *)
(* outlive the lease of their batch.                                       *)
(***************************************************************************)
EXTENDS PromptQueue, FiniteSetTheorems, TLAPS

LEMMA InitTypeOK == Init => TypeOK
BY QueueAssumption DEF Init, TypeOK, Status, Terminal, Successful

\* The bounds apart from the assumptions on Rank, which no proof needs.
LEMMA BoundsType ==
    /\ MaxClaims \in Nat /\ MaxFaults \in Nat
    /\ Stale \in Nat
    /\ Backoff \in [1..MaxClaims -> Nat]
    /\ NoClaim \notin Claim
BY QueueAssumption DEF Claim

LEMMA FaultType ==
    ASSUME TypeOK, Fault
    PROVE  faults' \in 0..MaxFaults
BY BoundsType DEF TypeOK, Fault

LEMMA ClaimPendingType ==
    ASSUME TypeOK, NEW k \in Worker, ClaimPending(k)
    PROVE  TypeOK'
<1>1. PICK chosen \in SUBSET ReadyAt(readAt[k]) :
        /\ \A w \in chosen : attempts[w] < MaxClaims
        /\ status' = [w \in Work |->
                IF w \in chosen THEN "RUNNING"
                ELSE IF w \in StaleAt(readAt[k]) THEN "RETRYING" ELSE status[w]]
        /\ attempts' = [w \in Work |->
                IF w \in chosen THEN NextAttempt(w) ELSE attempts[w]]
        /\ due' = [w \in Work |-> IF w \in StaleAt(readAt[k]) THEN readAt[k] ELSE due[w]]
        /\ claimedAt' = [w \in Work |->
                IF w \in chosen THEN readAt[k]
                ELSE IF w \in StaleAt(readAt[k]) THEN 0 ELSE claimedAt[w]]
        /\ batch' = [batch EXCEPT ![k] = {<<w, NextAttempt(w)>> : w \in chosen}]
        /\ call' = [call EXCEPT ![k] = IF chosen = {} THEN "idle" ELSE "working"]
        /\ readAt' = [readAt EXCEPT ![k] = IF chosen = {} THEN 0 ELSE readAt[k]]
  BY DEF ClaimPending
<1>2. chosen \subseteq Work
  BY DEF ReadyAt, StaleAt
<1>3. ASSUME NEW w \in chosen
      PROVE  NextAttempt(w) \in 1..MaxClaims
  <2>1. attempts[w] < MaxClaims
    BY <1>1
  <2>2. attempts[w] \in 0..MaxClaims
    BY <1>2 DEF TypeOK
  <2> QED
    BY <2>1, <2>2, BoundsType DEF NextAttempt
<1>4. {<<w, NextAttempt(w)>> : w \in chosen} \subseteq Claim
  BY <1>2, <1>3 DEF Claim
<1>5. UNCHANGED <<now, outcome, imported, current, step, faults>>
  BY DEF ClaimPending
<1>6. reclaims' \in [Work -> Nat]
  BY DEF ClaimPending, TypeOK
<1>7. status' \in [Work -> Status] /\ attempts' \in [Work -> 0..MaxClaims]
  BY <1>1, <1>2, <1>3 DEF TypeOK, Status
<1>8. due' \in [Work -> Nat] /\ claimedAt' \in [Work -> Nat]
  BY <1>1 DEF TypeOK
<1>9. /\ batch' \in [Worker -> SUBSET Claim]
      /\ call' \in [Worker -> {"idle", "claiming", "working"}]
      /\ readAt' \in [Worker -> Nat]
  BY <1>1, <1>4 DEF TypeOK
<1> QED
  BY <1>5, <1>6, <1>7, <1>8, <1>9 DEF TypeOK

LEMMA FinishAttemptType ==
    ASSUME TypeOK, NEW c \in Claim, NEW s \in Terminal \union {"RETRYING"},
           FinishAttempt(c, s)
    PROVE  /\ status' \in [Work -> Status]
           /\ attempts' \in [Work -> 0..MaxClaims]
           /\ due' \in [Work -> Nat]
           /\ claimedAt' \in [Work -> Nat]
           /\ outcome' \in [Claim -> Terminal \union {"RETRYING", "none"}]
<1>1. c[1] \in Work /\ c[2] \in 1..MaxClaims
  BY DEF Claim
<1>2. now + Backoff[c[2]] \in Nat
  BY <1>1, BoundsType DEF TypeOK
<1> QED
  BY <1>1, <1>2 DEF FinishAttempt, TypeOK, Status

\* What every error handler finishes an attempt with.
LEMMA UnsuccessfulStatus ==
    ASSUME NEW c \in Claim, NEW k \in Worker,
           \/ step[k] \in {"between", "raised"} /\ FinishAttempt(c, AfterError(c))
           \/ step[k] = "between" /\ FinishAttempt(c, "UNAVAILABLE")
    PROVE  \E s \in Terminal \union {"RETRYING"} : FinishAttempt(c, s)
BY DEF AfterError, Terminal

LEMMA AttemptStepType ==
    ASSUME TypeOK, NEW k \in Worker, NEW c \in batch[k], AttemptStep(k, c)
    PROVE  TypeOK'
<1>1. c \in Claim /\ c[1] \in Work
  BY DEF TypeOK, Claim
<1>2. CASE ImportPayload(k, c) \/ ImportRaises(k, c)
  BY <1>1, <1>2, FaultType
  DEF ImportPayload, ImportRaises, StepTo, TypeOK, itemVars
<1>3. CASE FinishImported(k, c)
  <2>1. PICK s \in Terminal \union {"RETRYING"} : FinishAttempt(c, s)
    BY <1>3 DEF FinishImported, Terminal
  <2> QED
    BY <1>1, <1>3, <2>1, FinishAttemptType DEF FinishImported, StepTo, TypeOK
<1>4. CASE FinishImportedRaises(k, c)
  <2>1. /\ status' \in [Work -> Status]
        /\ attempts' \in [Work -> 0..MaxClaims]
        /\ due' \in [Work -> Nat]
        /\ claimedAt' \in [Work -> Nat]
        /\ outcome' \in [Claim -> Terminal \union {"RETRYING", "none"}]
    <3>1. CASE \E s \in Successful : FinishAttempt(c, s)
      BY <1>1, <3>1, FinishAttemptType DEF Terminal
    <3>2. CASE UNCHANGED <<itemVars, outcome>>
      BY <3>2 DEF TypeOK, itemVars
    <3> QED
      BY <1>4, <3>1, <3>2 DEF FinishImportedRaises
  <2> QED
    BY <1>1, <1>4, <2>1, FaultType
    DEF FinishImportedRaises, StepTo, TypeOK
<1>5. CASE RecordQuota(k, c) \/ RecordQuotaRaises(k, c) \/ FinishTwice(k, c)
  BY <1>1, <1>5, FaultType
  DEF RecordQuota, RecordQuotaRaises, FinishTwice, Drop, Abandon, StepTo, TypeOK, itemVars
<1>6. CASE FinishUnsuccessful(k, c) \/ FinishUnsuccessfulRaises(k, c)
  <2>1. PICK s \in Terminal \union {"RETRYING"} : FinishAttempt(c, s)
    BY <1>1, <1>6, UnsuccessfulStatus DEF FinishUnsuccessful, FinishUnsuccessfulRaises
  <2> QED
    BY <1>1, <1>6, <2>1, FinishAttemptType, FaultType
    DEF FinishUnsuccessful, FinishUnsuccessfulRaises, Drop, Abandon, TypeOK
<1> QED
  BY <1>2, <1>3, <1>4, <1>5, <1>6 DEF AttemptStep

LEMMA NextTypeOK == TypeOK /\ [Next]_vars => TypeOK'
<1> SUFFICES ASSUME TypeOK, [Next]_vars
             PROVE  TypeOK'
  OBVIOUS
<1>1. ASSUME NEW w \in Work, Schedule(w)
      PROVE  TypeOK'
  BY <1>1 DEF Schedule, TypeOK, Status, workerVars
<1>2. ASSUME NEW k \in Worker, ClaimStep(k)
      PROVE  TypeOK'
  BY <1>2, ClaimPendingType, FaultType
  DEF ClaimStep, ReadClock, Crash, Abandon, TypeOK, itemVars
<1>3. CASE Tick
  BY <1>3 DEF Tick, TypeOK, itemVars, workerVars
<1>4. CASE UNCHANGED vars
  BY <1>4 DEF vars, TypeOK, itemVars, workerVars
<1> QED
  BY <1>1, <1>2, <1>3, <1>4, AttemptStepType DEF Next, QueueStep

\* Every reachable state is well typed, whatever the constants.
THEOREM TypeCorrect == Spec => []TypeOK
BY InitTypeOK, NextTypeOK, PTL DEF Spec

---------------------------------------------------------------------------
(***************************************************************************)
(* AttemptsAreUnique is inductive. A claim takes the next number of every  *)
(* item it chooses, which is larger than every number handed out and has   *)
(* no row; an attempt is finished by the worker that holds it.             *)
(***************************************************************************)

\* What a step of worker k on its claims does to the others.
LEMMA AttemptStepFrame ==
    ASSUME TypeOK, NEW k \in Worker, NEW c \in batch[k], AttemptStep(k, c)
    PROVE  /\ \A j \in Worker : j # k =>
                /\ batch'[j] = batch[j]
                /\ current'[j] = current[j] /\ step'[j] = step[j]
                /\ call'[j] = call[j] /\ readAt'[j] = readAt[j]
           /\ batch'[k] \subseteq batch[k]
           /\ \A d \in Claim : d # c => outcome'[d] = outcome[d]
           /\ attempts' = attempts /\ now' = now /\ reclaims' = reclaims
BY DEF AttemptStep, ImportPayload, ImportRaises, FinishImported,
       FinishImportedRaises, RecordQuota, RecordQuotaRaises, FinishUnsuccessful,
       FinishTwice, FinishUnsuccessfulRaises, FinishAttempt, Drop, Abandon, StepTo,
       TypeOK, itemVars

\* After the step a claim of k with a row is the one k is dealing with.
LEMMA AttemptStepOwnRow ==
    ASSUME TypeOK, AttemptsAreUnique, NEW k \in Worker, NEW c \in batch[k],
           AttemptStep(k, c), NEW d \in batch'[k], outcome'[d] # "none"
    PROVE  current'[k] = d /\ step'[k] \in {"finished", "raised"}
<1>1. d \in batch[k] /\ c \in Claim /\ d \in Claim /\ d # NoClaim
  BY AttemptStepFrame, BoundsType DEF TypeOK
<1>2. d # c => outcome[d] # "none"
  BY <1>1, AttemptStepFrame
<1>3. outcome[d] # "none" => current[k] = d /\ step[k] \in {"finished", "raised"}
  BY <1>1 DEF AttemptsAreUnique
<1>4. Handles(k, c)
  BY DEF AttemptStep, ImportPayload, ImportRaises, FinishImported,
         FinishImportedRaises, RecordQuota, RecordQuotaRaises,
         FinishUnsuccessful, FinishTwice, FinishUnsuccessfulRaises
<1>5. d = c
  BY <1>1, <1>2, <1>3, <1>4 DEF Handles
<1>6. CASE ImportPayload(k, c) \/ ImportRaises(k, c)
  BY <1>3, <1>5, <1>6 DEF ImportPayload, ImportRaises
<1>7. CASE FinishImported(k, c) \/ FinishImportedRaises(k, c)
  BY <1>5, <1>7 DEF FinishImported, FinishImportedRaises, StepTo, TypeOK
<1>8. CASE RecordQuotaRaises(k, c)
  BY <1>5, <1>8 DEF RecordQuotaRaises, StepTo, TypeOK
<1>9. CASE \/ RecordQuota(k, c) \/ FinishUnsuccessful(k, c)
           \/ FinishTwice(k, c) \/ FinishUnsuccessfulRaises(k, c)
  BY <1>5, <1>9
  DEF RecordQuota, FinishUnsuccessful, FinishTwice, FinishUnsuccessfulRaises,
      Drop, Abandon, TypeOK
<1> QED
  BY <1>6, <1>7, <1>8, <1>9 DEF AttemptStep

LEMMA AttemptStepUnique ==
    ASSUME TypeOK, AttemptsAreUnique, NEW k \in Worker, NEW c \in batch[k],
           AttemptStep(k, c)
    PROVE  AttemptsAreUnique'
<1>1. \A j \in Worker : batch'[j] \subseteq batch[j]
  BY AttemptStepFrame
<1>2. \A i, j \in Worker : i # j => batch'[i] \intersect batch'[j] = {}
  BY <1>1 DEF AttemptsAreUnique
<1>3. ASSUME NEW j \in Worker, NEW d \in batch'[j]
      PROVE  /\ d[2] <= attempts'[d[1]]
             /\ outcome'[d] # "none" =>
                    current'[j] = d /\ step'[j] \in {"finished", "raised"}
  <2>1. d \in batch[j] /\ d \in Claim
    BY <1>1 DEF TypeOK
  <2>2. d[2] <= attempts'[d[1]]
    BY <2>1, AttemptStepFrame DEF AttemptsAreUnique
  <2>3. CASE j = k
    BY <2>2, <2>3, AttemptStepOwnRow
  <2>4. CASE j # k
    <3>1. d # c
      BY <2>1, <2>4 DEF AttemptsAreUnique
    <3> QED
      BY <2>1, <2>2, <2>4, <3>1, AttemptStepFrame DEF AttemptsAreUnique
  <2> QED
    BY <2>3, <2>4
<1>4. ASSUME NEW d \in Claim, outcome'[d] # "none"
      PROVE  d[2] <= attempts'[d[1]]
  BY <1>4, AttemptStepFrame DEF AttemptsAreUnique
<1> QED
  BY <1>2, <1>3, <1>4 DEF AttemptsAreUnique

LEMMA ClaimPendingUnique ==
    ASSUME TypeOK, AttemptsAreUnique, NEW k \in Worker, ClaimPending(k)
    PROVE  AttemptsAreUnique'
<1>1. PICK chosen \in SUBSET Work :
        /\ \A w \in chosen : attempts[w] < MaxClaims
        /\ attempts' = [w \in Work |->
                IF w \in chosen THEN NextAttempt(w) ELSE attempts[w]]
        /\ batch' = [batch EXCEPT ![k] = {<<w, NextAttempt(w)>> : w \in chosen}]
  BY DEF ClaimPending, ReadyAt, StaleAt
<1>2. \A d \in Claim : d[1] \in Work /\ d[2] \in Nat
  BY BoundsType DEF Claim
<1>3. \A w \in Work : /\ attempts[w] \in Nat /\ attempts'[w] \in Nat
                     /\ attempts[w] <= attempts'[w]
  BY <1>1, BoundsType DEF TypeOK, NextAttempt
<1>4. outcome' = outcome /\ current' = current /\ step' = step
  BY DEF ClaimPending
<1>5. \A j \in Worker : j # k => batch'[j] = batch[j]
  BY <1>1 DEF TypeOK
<1>6. \A j \in Worker : batch[j] \subseteq Claim /\ batch'[j] \subseteq Claim
  BY ClaimPendingType DEF TypeOK
<1>7. ASSUME NEW d \in batch'[k]
      PROVE  d[2] = attempts[d[1]] + 1 /\ attempts'[d[1]] = d[2] /\ d \in Claim
  <2>1. PICK w \in chosen : d = <<w, NextAttempt(w)>>
    BY <1>1 DEF TypeOK
  <2> QED
    BY <1>1, <1>6, <2>1 DEF TypeOK, NextAttempt
<1>8. ASSUME NEW d \in batch'[k]
      PROVE  outcome'[d] = "none"
  BY <1>2, <1>3, <1>4, <1>7 DEF AttemptsAreUnique
<1>9. ASSUME NEW d \in batch'[k], NEW j \in Worker, j # k
      PROVE  d \notin batch'[j]
  BY <1>2, <1>3, <1>5, <1>7, <1>9 DEF AttemptsAreUnique
<1>10. \A i, j \in Worker : i # j => batch'[i] \intersect batch'[j] = {}
  BY <1>5, <1>9 DEF AttemptsAreUnique
<1>11. ASSUME NEW j \in Worker, NEW d \in batch'[j]
       PROVE  /\ d[2] <= attempts'[d[1]]
              /\ outcome'[d] # "none" =>
                    current'[j] = d /\ step'[j] \in {"finished", "raised"}
  <2>1. CASE j = k
    BY <1>2, <1>7, <1>8, <2>1
  <2>2. CASE j # k
    <3>1. d \in batch[j] /\ d \in Claim
      BY <1>5, <1>6, <2>2
    <3>2. d[2] <= attempts[d[1]]
      BY <3>1 DEF AttemptsAreUnique
    <3>3. d[2] <= attempts'[d[1]]
      BY <1>2, <1>3, <3>1, <3>2
    <3> QED
      BY <1>4, <3>1, <3>3 DEF AttemptsAreUnique
  <2> QED
    BY <2>1, <2>2
<1>12. ASSUME NEW d \in Claim, outcome'[d] # "none"
       PROVE  d[2] <= attempts'[d[1]]
  <2>1. d[2] <= attempts[d[1]]
    BY <1>4, <1>12 DEF AttemptsAreUnique
  <2> QED
    BY <1>2, <1>3, <2>1
<1> QED
  BY <1>10, <1>11, <1>12 DEF AttemptsAreUnique

LEMMA NextUnique == TypeOK /\ AttemptsAreUnique /\ [Next]_vars => AttemptsAreUnique'
<1> SUFFICES ASSUME TypeOK, AttemptsAreUnique, [Next]_vars
             PROVE  AttemptsAreUnique'
  OBVIOUS
<1>1. CASE UNCHANGED <<attempts, outcome, batch, current, step>>
  BY <1>1 DEF AttemptsAreUnique
<1>2. ASSUME NEW w \in Work, Schedule(w)
      PROVE  AttemptsAreUnique'
  BY <1>1, <1>2 DEF Schedule, workerVars
<1>3. ASSUME NEW k \in Worker, ReadClock(k)
      PROVE  AttemptsAreUnique'
  BY <1>1, <1>3 DEF ReadClock, itemVars
<1>4. ASSUME NEW k \in Worker, Crash(k)
      PROVE  AttemptsAreUnique'
  BY <1>4 DEF Crash, Abandon, AttemptsAreUnique, TypeOK, itemVars
<1>5. CASE Tick \/ UNCHANGED vars
  BY <1>1, <1>5 DEF Tick, vars, itemVars, workerVars
<1> QED
  BY <1>2, <1>3, <1>4, <1>5, ClaimPendingUnique, AttemptStepUnique
  DEF Next, QueueStep, ClaimStep

LEMMA InitUnique == Init => AttemptsAreUnique
BY DEF Init, AttemptsAreUnique

\* No attempt number is ever handed to two workers, and none is finished but
\* by the worker that was given it, whoever crashes or comes back late.
THEOREM AttemptsStayUnique == Spec => []AttemptsAreUnique
BY TypeCorrect, InitUnique, NextUnique, PTL DEF Spec

---------------------------------------------------------------------------
(***************************************************************************)
(* SuccessIsImported needs to know that a worker about to record a success *)
(* imported the payload of that very claim.                                *)
(***************************************************************************)
ImportedByHolder ==
    \A k \in Worker : step[k] = "imported" =>
        current[k] \in Claim /\ current[k][1] \in imported

SuccessInv == SuccessIsImported /\ ImportedByHolder

\* Payloads are never withdrawn.
LEMMA ImportedGrows ==
    ASSUME NEW k \in Worker, NEW c \in batch[k], AttemptStep(k, c)
    PROVE  imported \subseteq imported'
BY DEF AttemptStep, ImportPayload, ImportRaises, FinishImported,
       FinishImportedRaises, RecordQuota, RecordQuotaRaises, FinishUnsuccessful,
       FinishTwice, FinishUnsuccessfulRaises

LEMMA AttemptStepSuccess ==
    ASSUME TypeOK, SuccessInv, NEW k \in Worker, NEW c \in batch[k], AttemptStep(k, c)
    PROVE  SuccessInv'
<1>1. c \in Claim /\ c # NoClaim
  BY BoundsType DEF TypeOK
<1>2. imported \subseteq imported'
  BY ImportedGrows
<1>3. step'[k] = "imported" => current'[k] = c /\ c[1] \in imported'
  BY <1>1
  DEF AttemptStep, ImportPayload, ImportRaises, FinishImported,
      FinishImportedRaises, RecordQuota, RecordQuotaRaises, FinishUnsuccessful,
      FinishTwice, FinishUnsuccessfulRaises, Drop, Abandon, StepTo, TypeOK
<1>4. ImportedByHolder'
  BY <1>1, <1>2, <1>3, AttemptStepFrame DEF SuccessInv, ImportedByHolder
<1>5. outcome'[c] \in Successful => outcome[c] \in Successful \/ c[1] \in imported
  <2>1. CASE FinishImported(k, c) \/ FinishImportedRaises(k, c)
    <3>1. step[k] = "imported" /\ current[k] \in {NoClaim, c}
      BY <2>1 DEF FinishImported, FinishImportedRaises, Handles
    <3> QED
      BY <3>1, BoundsType DEF SuccessInv, ImportedByHolder
  <2>2. CASE FinishUnsuccessful(k, c) \/ FinishUnsuccessfulRaises(k, c)
    BY <1>1, <2>2
    DEF FinishUnsuccessful, FinishUnsuccessfulRaises, FinishAttempt, AfterError,
        Successful, TypeOK
  <2>3. CASE \/ ImportPayload(k, c) \/ ImportRaises(k, c) \/ RecordQuota(k, c)
             \/ RecordQuotaRaises(k, c) \/ FinishTwice(k, c)
    BY <2>3 DEF ImportPayload, ImportRaises, RecordQuota, RecordQuotaRaises, FinishTwice
  <2> QED
    BY <2>1, <2>2, <2>3 DEF AttemptStep
<1>6. SuccessIsImported'
  BY <1>2, <1>5, AttemptStepFrame DEF SuccessInv, SuccessIsImported
<1> QED
  BY <1>4, <1>6 DEF SuccessInv

LEMMA NextSuccess == TypeOK /\ SuccessInv /\ [Next]_vars => SuccessInv'
<1> SUFFICES ASSUME TypeOK, SuccessInv, [Next]_vars
             PROVE  SuccessInv'
  OBVIOUS
<1>1. CASE UNCHANGED <<outcome, imported, current, step>>
  BY <1>1 DEF SuccessInv, SuccessIsImported, ImportedByHolder
<1>2. ASSUME NEW w \in Work, Schedule(w)
      PROVE  SuccessInv'
  BY <1>1, <1>2 DEF Schedule, workerVars
<1>3. ASSUME NEW k \in Worker, ReadClock(k) \/ ClaimPending(k)
      PROVE  SuccessInv'
  BY <1>1, <1>3 DEF ReadClock, ClaimPending
<1>4. ASSUME NEW k \in Worker, Crash(k)
      PROVE  SuccessInv'
  BY <1>4 DEF Crash, Abandon, SuccessInv, SuccessIsImported, ImportedByHolder, TypeOK
<1>5. CASE Tick \/ UNCHANGED vars
  BY <1>1, <1>5 DEF Tick, vars, workerVars
<1> QED
  BY <1>2, <1>3, <1>4, <1>5, AttemptStepSuccess DEF Next, QueueStep, ClaimStep

\* A recorded success has its payload in V3.1, whatever crashes and raises
\* between the import and the record.
THEOREM SuccessHasPayload == Spec => []SuccessIsImported
<1>1. Init => SuccessInv
  BY DEF Init, SuccessInv, SuccessIsImported, ImportedByHolder, Successful
<1>2. SuccessInv => SuccessIsImported
  BY DEF SuccessInv
<1> QED
  BY <1>1, <1>2, TypeCorrect, NextSuccess, PTL DEF Spec

---------------------------------------------------------------------------
(***************************************************************************)
(* NoEarlyReclaim: the reading a claim judges by is never of the future.   *)
(***************************************************************************)
ReadInThePast == \A k \in Worker : readAt[k] <= now

LEMMA NextReadInThePast == TypeOK /\ ReadInThePast /\ [Next]_vars => ReadInThePast'
<1> SUFFICES ASSUME TypeOK, ReadInThePast, [Next]_vars
             PROVE  ReadInThePast'
  OBVIOUS
<1>1. CASE Tick \/ UNCHANGED vars
  BY <1>1 DEF Tick, vars, workerVars, TypeOK, ReadInThePast
<1>2. ASSUME NEW w \in Work, Schedule(w)
      PROVE  ReadInThePast'
  BY <1>2 DEF Schedule, workerVars, ReadInThePast
<1>3. ASSUME NEW k \in Worker, ReadClock(k) \/ ClaimPending(k) \/ Crash(k)
      PROVE  ReadInThePast'
  BY <1>3 DEF ReadClock, ClaimPending, Crash, Abandon, TypeOK, ReadInThePast
<1>4. ASSUME NEW k \in Worker, NEW c \in batch[k], AttemptStep(k, c)
      PROVE  ReadInThePast'
  BY <1>4
  DEF AttemptStep, ImportPayload, ImportRaises, FinishImported,
      FinishImportedRaises, RecordQuota, RecordQuotaRaises, FinishUnsuccessful,
      FinishTwice, FinishUnsuccessfulRaises, Drop, Abandon, StepTo, TypeOK,
      ReadInThePast
<1> QED
  BY <1>1, <1>2, <1>3, <1>4 DEF Next, QueueStep, ClaimStep

\* A claim is taken from its worker only after Stale on the wall clock, though
\* claim_pending compares it with a reading that may be old by then.
THEOREM ReclaimOnlyWhenStale == Spec => NoEarlyReclaim
<1> DEFINE A == \A w \in Work :
                    status[w] = "RUNNING" /\ attempts'[w] # attempts[w] =>
                        claimedAt[w] < now - Stale
<1>1. Init => ReadInThePast
  BY DEF Init, ReadInThePast
<1>2. ASSUME TypeOK, ReadInThePast, [Next]_vars
      PROVE  [A]_vars
  <2> SUFFICES ASSUME Next, NEW w \in Work, status[w] = "RUNNING",
                      attempts'[w] # attempts[w]
               PROVE  claimedAt[w] < now - Stale
    BY <1>2
  <2>1. PICK k \in Worker : ClaimPending(k)
    BY <1>2, AttemptStepFrame
    DEF Next, QueueStep, ClaimStep, Schedule, ReadClock, Crash, Tick, itemVars
  <2>2. w \in ReadyAt(readAt[k])
    BY <2>1 DEF ClaimPending
  <2>3. claimedAt[w] < readAt[k] - Stale
    BY <2>2 DEF ReadyAt, StaleAt
  <2>4. /\ readAt[k] \in Nat /\ now \in Nat /\ claimedAt[w] \in Nat
        /\ readAt[k] <= now
    BY <1>2 DEF TypeOK, ReadInThePast
  <2> QED
    BY <2>3, <2>4, BoundsType
<1> QED
  BY <1>1, <1>2, TypeCorrect, NextReadInThePast, PTL DEF Spec, NoEarlyReclaim

---------------------------------------------------------------------------
(***************************************************************************)
(* RetriesAreBounded by an account: every claim of an item after the first *)
(* spends the credit of one row that told it to retry, or of one claim of  *)
(* it that was found stale; and the rows that tell to retry are those of   *)
(* attempts below MaxAttempts.                                             *)
(***************************************************************************)
Retried(w) == {n \in 1..MaxClaims : outcome[<<w, n>>] = "RETRYING"}

\* Work that can be claimed without being found stale has a claim to its credit.
Credit(w) == IF status[w] \in {"absent", "PENDING", "RETRYING"} THEN 1 ELSE 0

RetriesBelowLimit == \A c \in Claim : outcome[c] = "RETRYING" => c[2] < MaxAttempts

Paid(w) == attempts[w] + Credit(w) <= Cardinality(Retried(w)) + reclaims[w] + 1

RetryInv == RetriesBelowLimit /\ \A w \in Work : Paid(w)

LEMMA RetriedFinite ==
    ASSUME NEW w \in Work
    PROVE  IsFiniteSet(Retried(w)) /\ Cardinality(Retried(w)) \in Nat
<1>1. IsFiniteSet(1..MaxClaims)
  BY BoundsType, FS_Interval
<1>2. Retried(w) \in SUBSET (1..MaxClaims)
  BY DEF Retried
<1> QED
  BY <1>1, <1>2, FS_Subset, FS_CardinalityType

\* Fewer rows than MaxAttempts tell to retry.
LEMMA RetriedBelowLimit ==
    ASSUME RetriesBelowLimit, NEW w \in Work
    PROVE  Cardinality(Retried(w)) <= MaxAttempts - 1
<1>1. MaxAttempts - 1 \in Nat /\ MaxAttempts \in Nat
  BY QueueAssumption
<1>2. IsFiniteSet(1..(MaxAttempts - 1)) /\ Cardinality(1..(MaxAttempts - 1)) = MaxAttempts - 1
  BY <1>1, FS_Interval
<1>3. ASSUME NEW n \in Retried(w)
      PROVE  n \in 1..(MaxAttempts - 1)
  <2>1. n \in 1..MaxClaims /\ <<w, n>> \in Claim /\ outcome[<<w, n>>] = "RETRYING"
    BY DEF Retried, Claim
  <2>2. n < MaxAttempts
    BY <2>1 DEF RetriesBelowLimit
  <2> QED
    BY <1>1, <2>1, <2>2, BoundsType
<1> QED
  BY <1>2, <1>3, FS_Subset

LEMMA ClaimPendingRetry ==
    ASSUME TypeOK, RetryInv, NEW k \in Worker, ClaimPending(k)
    PROVE  RetryInv'
<1> DEFINE stale == StaleAt(readAt[k])
<1>1. PICK chosen \in SUBSET ReadyAt(readAt[k]) :
        /\ status' = [w \in Work |->
                IF w \in chosen THEN "RUNNING"
                ELSE IF w \in stale THEN "RETRYING" ELSE status[w]]
        /\ attempts' = [w \in Work |->
                IF w \in chosen THEN NextAttempt(w) ELSE attempts[w]]
  BY DEF ClaimPending
<1>2. outcome' = outcome
  BY DEF ClaimPending
<1>3. ASSUME NEW w \in Work
      PROVE  Paid(w)'
  <2>1. Cardinality(Retried(w))' = Cardinality(Retried(w))
    BY <1>2 DEF Retried
  <2>2. /\ Cardinality(Retried(w)) \in Nat /\ attempts[w] \in Nat /\ reclaims[w] \in Nat
        /\ attempts[w] + Credit(w) <= Cardinality(Retried(w)) + reclaims[w] + 1
    BY RetriedFinite, BoundsType DEF TypeOK, RetryInv, Paid
  <2>3. reclaims'[w] = IF w \in stale THEN reclaims[w] + 1 ELSE reclaims[w]
    BY DEF ClaimPending
  <2>4. w \in stale => status[w] = "RUNNING"
    BY DEF StaleAt
  <2>5. CASE w \in chosen
    <3>1. attempts'[w] = attempts[w] + 1 /\ Credit(w)' = 0
      BY <1>1, <2>5 DEF NextAttempt, Credit
    <3>2. w \in stale \/ Credit(w) = 1
      BY <1>1, <2>5 DEF ReadyAt, Credit
    <3>3. Credit(w) \in {0, 1}
      BY DEF Credit
    <3> QED
      BY <2>1, <2>2, <2>3, <3>1, <3>2, <3>3 DEF Paid
  <2>6. CASE w \notin chosen /\ w \in stale
    <3>1. attempts'[w] = attempts[w] /\ Credit(w)' = 1 /\ Credit(w) = 0
      BY <1>1, <2>4, <2>6 DEF Credit
    <3> QED
      BY <2>1, <2>2, <2>3, <2>6, <3>1 DEF Paid
  <2>7. CASE w \notin chosen /\ w \notin stale
    <3>1. attempts'[w] = attempts[w] /\ Credit(w)' = Credit(w)
      BY <1>1, <2>7 DEF Credit
    <3> QED
      BY <2>1, <2>2, <2>3, <2>7, <3>1 DEF Paid
  <2> QED
    BY <2>5, <2>6, <2>7
<1>4. RetriesBelowLimit'
  BY <1>2 DEF RetryInv, RetriesBelowLimit
<1> QED
  BY <1>3, <1>4 DEF RetryInv

\* Finishing an attempt earns a credit exactly when it writes a row to retry.
LEMMA FinishAttemptRetry ==
    ASSUME TypeOK, RetryInv, NEW c \in Claim, NEW s \in Terminal \union {"RETRYING"},
           s = "RETRYING" => c[2] < MaxAttempts,
           FinishAttempt(c, s), reclaims' = reclaims
    PROVE  RetryInv'
<1>1. c[1] \in Work /\ c[2] \in 1..MaxClaims /\ c = <<c[1], c[2]>>
  BY DEF Claim
<1>2. /\ outcome[c] = "none" /\ outcome' = [outcome EXCEPT ![c] = s]
      /\ status' = [status EXCEPT ![c[1]] = s] /\ attempts' = attempts
  BY DEF FinishAttempt
<1>3. RetriesBelowLimit'
  BY <1>2 DEF RetryInv, RetriesBelowLimit, TypeOK
<1>4. ASSUME NEW w \in Work
      PROVE  Paid(w)'
  <2>1. /\ Cardinality(Retried(w)) \in Nat /\ attempts[w] \in Nat /\ reclaims[w] \in Nat
        /\ attempts[w] + Credit(w) <= Cardinality(Retried(w)) + reclaims[w] + 1
        /\ Credit(w) \in {0, 1} /\ Credit(w)' \in {0, 1}
    BY RetriedFinite, BoundsType DEF TypeOK, RetryInv, Paid, Credit
  <2>2. \A n \in 1..MaxClaims : <<w, n>> \in Claim
    BY DEF Claim
  <2>3. CASE w = c[1] /\ s = "RETRYING"
    <3>1. Retried(w)' = Retried(w) \union {c[2]}
      BY <1>1, <1>2, <2>2, <2>3 DEF Retried, TypeOK
    <3>2. c[2] \notin Retried(w)
      BY <1>1, <1>2, <2>3 DEF Retried
    <3>3. Cardinality(Retried(w) \union {c[2]}) = Cardinality(Retried(w)) + 1
      BY <3>2, RetriedFinite, FS_AddElement
    <3>4. Cardinality(Retried(w))' = Cardinality(Retried(w)) + 1
      BY <3>1, <3>3
    <3> QED
      BY <1>2, <2>1, <3>4 DEF Paid
  <2>4. CASE w = c[1] /\ s # "RETRYING"
    <3>1. Retried(w)' = Retried(w)
      BY <1>1, <1>2, <2>2, <2>4 DEF Retried, TypeOK
    <3>2. Credit(w)' = 0
      BY <1>1, <1>2, <2>4 DEF Credit, TypeOK, Terminal, Successful
    <3> QED
      BY <1>2, <2>1, <3>1, <3>2 DEF Paid
  <2>5. CASE w # c[1]
    <3>1. Retried(w)' = Retried(w)
      BY <1>1, <1>2, <2>2, <2>5 DEF Retried, TypeOK
    <3>2. Credit(w)' = Credit(w)
      BY <1>1, <1>2, <2>5 DEF Credit, TypeOK
    <3> QED
      BY <1>2, <2>1, <3>1, <3>2 DEF Paid
  <2> QED
    BY <2>3, <2>4, <2>5
<1> QED
  BY <1>3, <1>4 DEF RetryInv

LEMMA NextRetry == TypeOK /\ RetryInv /\ [Next]_vars => RetryInv'
<1> SUFFICES ASSUME TypeOK, RetryInv, [Next]_vars
             PROVE  RetryInv'
  OBVIOUS
<1>1. CASE UNCHANGED <<status, attempts, outcome, reclaims>>
  BY <1>1 DEF RetryInv, RetriesBelowLimit, Paid, Credit, Retried
<1>2. ASSUME NEW w \in Work, Schedule(w)
      PROVE  RetryInv'
  <2>1. /\ status[w] = "absent" /\ status' = [status EXCEPT ![w] = "PENDING"]
        /\ UNCHANGED <<attempts, outcome, reclaims>>
    BY <1>2 DEF Schedule
  <2>2. \A v \in Work : Credit(v)' = Credit(v)
    BY <2>1 DEF Credit, TypeOK
  <2> QED
    BY <2>1, <2>2 DEF RetryInv, RetriesBelowLimit, Paid, Retried
<1>3. ASSUME NEW k \in Worker, ReadClock(k) \/ Crash(k)
      PROVE  RetryInv'
  BY <1>1, <1>3 DEF ReadClock, Crash, itemVars
<1>4. ASSUME NEW k \in Worker, NEW c \in batch[k], AttemptStep(k, c)
      PROVE  RetryInv'
  <2>1. c \in Claim /\ reclaims' = reclaims
    BY <1>4, AttemptStepFrame DEF TypeOK
  <2>2. CASE FinishImported(k, c) \/ FinishImportedRaises(k, c)
    <3>1. CASE \E s \in Successful : FinishAttempt(c, s)
      BY <2>1, <3>1, FinishAttemptRetry DEF Terminal, Successful
    <3>2. CASE UNCHANGED <<itemVars, outcome>>
      BY <1>1, <2>1, <3>2 DEF itemVars
    <3> QED
      BY <2>2, <3>1, <3>2 DEF FinishImported, FinishImportedRaises
  <2>3. CASE FinishUnsuccessful(k, c) \/ FinishUnsuccessfulRaises(k, c)
    <3>1. CASE FinishAttempt(c, AfterError(c))
      BY <2>1, <3>1, FinishAttemptRetry DEF AfterError, Terminal
    <3>2. CASE FinishAttempt(c, "UNAVAILABLE")
      BY <2>1, <3>2, FinishAttemptRetry DEF Terminal
    <3> QED
      BY <2>3, <3>1, <3>2 DEF FinishUnsuccessful, FinishUnsuccessfulRaises
  <2>4. CASE \/ ImportPayload(k, c) \/ ImportRaises(k, c) \/ RecordQuota(k, c)
             \/ RecordQuotaRaises(k, c) \/ FinishTwice(k, c)
    BY <1>1, <2>4
    DEF ImportPayload, ImportRaises, RecordQuota, RecordQuotaRaises, FinishTwice, itemVars
  <2> QED
    BY <1>4, <2>2, <2>3, <2>4 DEF AttemptStep
<1>5. CASE Tick \/ UNCHANGED vars
  BY <1>1, <1>5 DEF Tick, vars, itemVars
<1> QED
  BY <1>2, <1>3, <1>4, <1>5, ClaimPendingRetry DEF Next, QueueStep, ClaimStep

LEMMA InitRetry == Init => RetryInv
<1> SUFFICES ASSUME Init
             PROVE  RetryInv
  OBVIOUS
<1>1. RetriesBelowLimit
  BY DEF Init, RetriesBelowLimit
<1>2. ASSUME NEW w \in Work
      PROVE  Paid(w)
  BY RetriedFinite DEF Init, Paid, Credit
<1> QED
  BY <1>1, <1>2 DEF RetryInv

\* The retry limit holds but for the recovery of stale claims, of which each
\* gives one more attempt: late finishes and failing handlers give none.
THEOREM RetriesStayBounded == Spec => []RetriesAreBounded
<1>1. ASSUME TypeOK, RetryInv, NEW w \in Work
      PROVE  attempts[w] <= MaxAttempts + reclaims[w]
  <2>1. /\ attempts[w] \in Nat /\ reclaims[w] \in Nat /\ MaxAttempts \in Nat
        /\ Cardinality(Retried(w)) \in Nat /\ Credit(w) \in {0, 1}
    BY <1>1, RetriedFinite, BoundsType, QueueAssumption DEF TypeOK, Credit
  <2>2. /\ Cardinality(Retried(w)) <= MaxAttempts - 1
        /\ attempts[w] + Credit(w) <= Cardinality(Retried(w)) + reclaims[w] + 1
    BY <1>1, RetriedBelowLimit DEF RetryInv, Paid
  <2> QED
    BY <2>1, <2>2
<1>2. TypeOK /\ RetryInv => RetriesAreBounded
  BY <1>1 DEF RetriesAreBounded
<1> QED
  BY <1>2, TypeCorrect, InitRetry, NextRetry, PTL DEF Spec

---------------------------------------------------------------------------
\* PromptQueue.
\* No worker outlives its lease or has a clock reading of the future.
InTime ==
    \A k \in Worker :
        /\ readAt[k] <= now
        /\ call[k] # "idle" => now <= readAt[k] + Stale

\* Only a worker inside its loop holds claims.
Resting == \A k \in Worker : call[k] # "working" => batch[k] = {}

\* A claim of worker k is the last of its item. Until its row is written the
\* item is running under k's clock reading; then the item is settled.
Fresh(k, c) ==
    /\ c[2] = attempts[c[1]]
    /\ outcome[c] = "none" => status[c[1]] = "RUNNING" /\ claimedAt[c[1]] = readAt[k]
    /\ outcome[c] # "none" => status[c[1]] \in Terminal

ClaimsFresh == \A k \in Worker : \A c \in batch[k] : Fresh(k, c)

LastClaim(w) == <<w, attempts[w]>>

\* Running and settled items were claimed, and agree with their last row.
RowAgrees(w) ==
    /\ status[w] \in Terminal =>
            LastClaim(w) \in Claim /\ outcome[LastClaim(w)] = status[w]
    /\ status[w] = "RUNNING" =>
            LastClaim(w) \in Claim /\ outcome[LastClaim(w)] = "none"

RowsAgree == \A w \in Work : RowAgrees(w)

PromptInv == InTime /\ Resting /\ ClaimsFresh /\ RowsAgree

\* What is known of a reachable state.
Known == TypeOK /\ AttemptsAreUnique /\ PromptInv

\* The parts of a claim, and its two components put together again.
LEMMA ClaimParts ==
    ASSUME NEW c \in Claim
    PROVE  c[1] \in Work /\ c[2] \in 1..MaxClaims /\ c[2] \in Nat /\ c = <<c[1], c[2]>>
BY BoundsType DEF Claim

LEMMA InitPrompt == Init => PromptInv
BY BoundsType
DEF Init, PromptInv, InTime, Resting, ClaimsFresh, RowsAgree, RowAgrees,
    Terminal, Successful

---------------------------------------------------------------------------
(***************************************************************************)
(* A claim. What a worker holds is running under a lease that has not      *)
(* lapsed, or settled: neither is ready, so nothing held is claimed again. *)
(***************************************************************************)
LEMMA HeldIsNotReady ==
    ASSUME Known, NEW k \in Worker, NEW j \in Worker, NEW d \in batch[j]
    PROVE  d[1] \notin ReadyAt(readAt[k])
<1>1. d \in Claim /\ d[1] \in Work
  BY ClaimParts DEF Known, TypeOK
<1>2. Fresh(j, d) /\ readAt[k] <= now
  BY DEF Known, PromptInv, ClaimsFresh, InTime
<1>3. CASE outcome[d] # "none"
  BY <1>2, <1>3 DEF Fresh, ReadyAt, StaleAt, Terminal, Successful
<1>4. CASE outcome[d] = "none"
  <2>1. status[d[1]] = "RUNNING" /\ claimedAt[d[1]] = readAt[j]
    BY <1>2, <1>4 DEF Fresh
  <2>2. now <= readAt[j] + Stale
    BY DEF Known, PromptInv, Resting, InTime
  <2>3. /\ readAt[j] \in Nat /\ readAt[k] \in Nat /\ now \in Nat
    BY DEF Known, TypeOK
  <2>4. ~(claimedAt[d[1]] < readAt[k] - Stale)
    BY <1>2, <2>1, <2>2, <2>3, BoundsType
  <2> QED
    BY <2>1, <2>4 DEF ReadyAt, StaleAt
<1> QED
  BY <1>3, <1>4

LEMMA ClaimPendingPrompt ==
    ASSUME Known, NEW k \in Worker, ClaimPending(k)
    PROVE  PromptInv'
<1> DEFINE ready == ReadyAt(readAt[k])
           stale == StaleAt(readAt[k])
<1>1. PICK chosen \in SUBSET ready :
        /\ \A w \in chosen : attempts[w] < MaxClaims
        /\ status' = [w \in Work |->
                IF w \in chosen THEN "RUNNING"
                ELSE IF w \in stale THEN "RETRYING" ELSE status[w]]
        /\ attempts' = [w \in Work |->
                IF w \in chosen THEN NextAttempt(w) ELSE attempts[w]]
        /\ claimedAt' = [w \in Work |->
                IF w \in chosen THEN readAt[k]
                ELSE IF w \in stale THEN 0 ELSE claimedAt[w]]
        /\ batch' = [batch EXCEPT ![k] = {<<w, NextAttempt(w)>> : w \in chosen}]
        /\ call' = [call EXCEPT ![k] = IF chosen = {} THEN "idle" ELSE "working"]
        /\ readAt' = [readAt EXCEPT ![k] = IF chosen = {} THEN 0 ELSE readAt[k]]
  BY DEF ClaimPending
<1>2. chosen \subseteq Work /\ stale \subseteq ready
  BY DEF ReadyAt, StaleAt
<1>3. outcome' = outcome /\ now' = now /\ call[k] = "claiming"
  BY DEF ClaimPending
<1>4. \A j \in Worker : j # k =>
        batch'[j] = batch[j] /\ call'[j] = call[j] /\ readAt'[j] = readAt[j]
  BY <1>1 DEF Known, TypeOK
<1>5. ASSUME NEW w \in chosen
      PROVE  /\ <<w, NextAttempt(w)>> \in Claim
             /\ attempts'[w] = NextAttempt(w)
             /\ outcome[<<w, NextAttempt(w)>>] = "none"
  <2>1. attempts[w] \in 0..MaxClaims /\ attempts[w] < MaxClaims
    BY <1>1, <1>2 DEF Known, TypeOK
  <2>2. NextAttempt(w) \in 1..MaxClaims /\ ~(NextAttempt(w) <= attempts[w])
    BY <2>1, BoundsType DEF NextAttempt
  <2>3. <<w, NextAttempt(w)>> \in Claim
    BY <1>2, <2>2 DEF Claim
  <2>4. attempts'[w] = NextAttempt(w)
    BY <1>1, <1>2
  <2> QED
    BY <2>2, <2>3, <2>4 DEF Known, AttemptsAreUnique
<1>6. InTime'
  BY <1>1, <1>3, <1>4, BoundsType DEF Known, TypeOK, PromptInv, InTime
<1>7. Resting'
  BY <1>1, <1>4 DEF Known, TypeOK, PromptInv, Resting
<1>8. ASSUME NEW j \in Worker, NEW d \in batch'[j]
      PROVE  Fresh(j, d)'
  <2>1. CASE j = k
    <3>1. PICK w \in chosen : d = <<w, NextAttempt(w)>>
      BY <1>1, <2>1 DEF Known, TypeOK
    <3>2. status'[w] = "RUNNING" /\ claimedAt'[w] = readAt[k] /\ readAt'[k] = readAt[k]
      BY <1>1, <1>2 DEF Known, TypeOK
    <3> QED
      BY <1>3, <1>5, <2>1, <3>1, <3>2 DEF Fresh
  <2>2. CASE j # k
    <3>1. d \in batch[j] /\ d[1] \in Work /\ readAt'[j] = readAt[j]
      BY <1>4, <2>2, ClaimParts DEF Known, TypeOK
    <3>2. d[1] \notin chosen /\ d[1] \notin stale
      BY <1>2, <3>1, HeldIsNotReady
    <3>3. /\ status'[d[1]] = status[d[1]]
          /\ attempts'[d[1]] = attempts[d[1]]
          /\ claimedAt'[d[1]] = claimedAt[d[1]]
      BY <1>1, <3>1, <3>2
    <3>4. Fresh(j, d)
      BY <3>1 DEF Known, PromptInv, ClaimsFresh
    <3> QED
      BY <1>3, <3>1, <3>3, <3>4 DEF Fresh
  <2> QED
    BY <2>1, <2>2
<1>9. ASSUME NEW w \in Work
      PROVE  RowAgrees(w)'
  <2>1. CASE w \in chosen
    BY <1>1, <1>3, <1>5, <2>1 DEF RowAgrees, LastClaim, Terminal, Successful
  <2>2. CASE w \notin chosen /\ w \in stale
    BY <1>1, <2>2 DEF RowAgrees, Terminal, Successful
  <2>3. CASE w \notin chosen /\ w \notin stale
    <3>1. status'[w] = status[w] /\ attempts'[w] = attempts[w]
      BY <1>1, <2>3
    <3>2. RowAgrees(w)
      BY DEF Known, PromptInv, RowsAgree
    <3> QED
      BY <1>3, <3>1, <3>2 DEF RowAgrees, LastClaim
  <2> QED
    BY <2>1, <2>2, <2>3
<1> QED
  BY <1>6, <1>7, <1>8, <1>9 DEF PromptInv, ClaimsFresh, RowsAgree

---------------------------------------------------------------------------
(***************************************************************************)
(* A step on a claim touches the tables only by finishing that claim, and  *)
(* no other claim is of the same item.                                     *)
(***************************************************************************)
LEMMA OneClaimPerItem ==
    ASSUME Known, NEW j \in Worker, NEW k \in Worker,
           NEW c \in batch[j], NEW d \in batch[k], c[1] = d[1]
    PROVE  j = k /\ c = d
<1>1. c \in Claim /\ d \in Claim
  BY DEF Known, TypeOK
<1>2. c[2] = attempts[c[1]] /\ d[2] = attempts[d[1]]
  BY DEF Known, PromptInv, ClaimsFresh, Fresh
<1>3. c = d
  BY <1>1, <1>2, ClaimParts
<1> QED
  BY <1>3 DEF Known, AttemptsAreUnique

\* The two things a step can do to the tables.
LEMMA AttemptStepTables ==
    ASSUME NEW k \in Worker, NEW c \in batch[k], c \in Claim, AttemptStep(k, c)
    PROVE  \/ UNCHANGED <<status, claimedAt, outcome>>
           \/ \E s \in Terminal \union {"RETRYING"} :
                /\ FinishAttempt(c, s)
                /\ s \in Successful \/ Drop(k, c) \/ Abandon(k)
<1>1. CASE FinishImported(k, c)
  BY <1>1 DEF FinishImported, Terminal
<1>2. CASE FinishImportedRaises(k, c)
  BY <1>2 DEF FinishImportedRaises, Terminal, itemVars
<1>3. CASE FinishUnsuccessful(k, c) \/ FinishUnsuccessfulRaises(k, c)
  BY <1>3, UnsuccessfulStatus DEF FinishUnsuccessful, FinishUnsuccessfulRaises
<1>4. CASE \/ ImportPayload(k, c) \/ ImportRaises(k, c) \/ RecordQuota(k, c)
           \/ RecordQuotaRaises(k, c) \/ FinishTwice(k, c)
  BY <1>4 DEF ImportPayload, ImportRaises, RecordQuota, RecordQuotaRaises,
              FinishTwice, itemVars
<1> QED
  BY <1>1, <1>2, <1>3, <1>4 DEF AttemptStep

\* What it does to the worker.
LEMMA AttemptStepWorker ==
    ASSUME NEW k \in Worker, NEW c \in batch[k], AttemptStep(k, c)
    PROVE  Drop(k, c) \/ Abandon(k) \/ UNCHANGED <<call, readAt, batch>>
BY DEF AttemptStep, ImportPayload, ImportRaises, FinishImported,
       FinishImportedRaises, RecordQuota, RecordQuotaRaises, FinishUnsuccessful,
       FinishTwice, FinishUnsuccessfulRaises, StepTo

LEMMA AttemptStepPrompt ==
    ASSUME Known, NEW k \in Worker, NEW c \in batch[k], AttemptStep(k, c)
    PROVE  PromptInv'
<1>1. c \in Claim /\ c[1] \in Work /\ c = <<c[1], c[2]>>
  BY ClaimParts DEF Known, TypeOK
<1>2. TypeOK /\ call[k] = "working" /\ c[2] = attempts[c[1]]
  BY DEF Known, TypeOK, PromptInv, Resting, ClaimsFresh, Fresh
<1>3. \/ Drop(k, c) \/ Abandon(k) \/ UNCHANGED <<call, readAt, batch>>
  BY AttemptStepWorker
<1>4. /\ \A j \in Worker : j # k => /\ batch'[j] = batch[j]
                                   /\ call'[j] = call[j]
                                   /\ readAt'[j] = readAt[j]
      /\ batch'[k] \subseteq batch[k]
      /\ attempts' = attempts /\ now' = now
      /\ \A d \in Claim : d # c => outcome'[d] = outcome[d]
  BY <1>2, AttemptStepFrame
<1>5. /\ call'[k] \in {"idle", "working"}
      /\ call'[k] = "idle" => readAt'[k] = 0 /\ batch'[k] = {}
      /\ call'[k] = "working" => readAt'[k] = readAt[k]
      /\ Drop(k, c) => c \notin batch'[k]
      /\ Abandon(k) => c \notin batch'[k]
  BY <1>2, <1>3 DEF TypeOK, Drop, Abandon
<1>6. InTime'
  BY <1>2, <1>4, <1>5 DEF Known, TypeOK, PromptInv, InTime
<1>7. Resting'
  BY <1>4, <1>5 DEF Known, PromptInv, Resting
<1>8. CASE UNCHANGED <<status, claimedAt, outcome>>
  <2>1. ASSUME NEW j \in Worker, NEW d \in batch'[j]
        PROVE  Fresh(j, d)'
    <3>1. d \in batch[j] /\ readAt'[j] = readAt[j]
      BY <1>4, <1>5
    <3>2. Fresh(j, d)
      BY <3>1 DEF Known, PromptInv, ClaimsFresh
    <3> QED
      BY <1>4, <1>8, <3>1, <3>2 DEF Fresh
  <2>2. RowsAgree'
    BY <1>4, <1>8 DEF Known, PromptInv, RowsAgree, RowAgrees, LastClaim
  <2> QED
    BY <1>6, <1>7, <2>1, <2>2 DEF PromptInv, ClaimsFresh
<1>9. ASSUME NEW s \in Terminal \union {"RETRYING"}, FinishAttempt(c, s),
             s \in Successful \/ Drop(k, c) \/ Abandon(k)
      PROVE  PromptInv'
  <2>1. /\ outcome' = [outcome EXCEPT ![c] = s]
        /\ status' = [status EXCEPT ![c[1]] = s]
        /\ claimedAt' = [claimedAt EXCEPT ![c[1]] = 0]
    BY <1>9 DEF FinishAttempt
  <2>2. outcome'[c] = s /\ status'[c[1]] = s
    BY <1>1, <1>2, <2>1 DEF TypeOK
  <2>3. ASSUME NEW j \in Worker, NEW d \in batch'[j]
        PROVE  Fresh(j, d)'
    <3>1. d \in batch[j] /\ d \in Claim /\ d[1] \in Work /\ readAt'[j] = readAt[j]
      BY <1>2, <1>4, <1>5, ClaimParts DEF TypeOK
    <3>2. Fresh(j, d)
      BY <3>1 DEF Known, PromptInv, ClaimsFresh
    <3>3. CASE d = c
      <4>1. j = k
        BY <3>1, <3>3, OneClaimPerItem
      <4>2. s \in Successful
        BY <1>5, <1>9, <3>3, <4>1
      <4> QED
        BY <1>2, <1>4, <2>2, <3>3, <4>2 DEF Fresh, Terminal, Successful
    <3>4. CASE d # c
      <4>1. d[1] # c[1]
        BY <3>1, <3>4, OneClaimPerItem
      <4>2. /\ status'[d[1]] = status[d[1]]
            /\ claimedAt'[d[1]] = claimedAt[d[1]]
            /\ outcome'[d] = outcome[d]
        BY <1>2, <1>4, <2>1, <3>1, <3>4, <4>1 DEF TypeOK
      <4> QED
        BY <1>4, <3>1, <3>2, <4>2 DEF Fresh
    <3> QED
      BY <3>3, <3>4
  <2>4. ASSUME NEW w \in Work
        PROVE  RowAgrees(w)'
    <3>1. RowAgrees(w) /\ attempts'[w] = attempts[w]
      BY <1>4 DEF Known, PromptInv, RowsAgree
    <3>2. CASE w = c[1]
      <4>1. LastClaim(w)' = c
        BY <1>1, <1>2, <1>4, <3>2 DEF LastClaim
      <4> QED
        BY <1>1, <2>2, <3>2, <4>1 DEF RowAgrees, Terminal, Successful
    <3>3. CASE w # c[1]
      <4>1. status'[w] = status[w]
        BY <1>2, <2>1, <3>3 DEF TypeOK
      <4>2. LastClaim(w)' = LastClaim(w) /\ LastClaim(w) # c
        BY <1>1, <3>1, <3>3 DEF LastClaim
      <4> QED
        BY <1>4, <3>1, <4>1, <4>2 DEF RowAgrees
    <3> QED
      BY <3>2, <3>3
  <2> QED
    BY <1>6, <1>7, <2>3, <2>4 DEF PromptInv, ClaimsFresh, RowsAgree
<1> QED
  BY <1>1, <1>8, <1>9, AttemptStepTables

---------------------------------------------------------------------------
LEMMA PromptStepIsStep == PromptNext => Next
BY DEF PromptNext, PromptTick, Next

LEMMA NextPrompt == Known /\ [PromptNext]_vars => PromptInv'
<1> SUFFICES ASSUME Known, [PromptNext]_vars
             PROVE  PromptInv'
  OBVIOUS
<1> USE DEF Known
<1>1. ASSUME NEW w \in Work, Schedule(w)
      PROVE  PromptInv'
  <2>1. /\ status' = [status EXCEPT ![w] = "PENDING"] /\ status[w] = "absent"
        /\ UNCHANGED <<now, attempts, claimedAt, outcome, call, readAt, batch>>
    BY <1>1 DEF Schedule, workerVars
  <2>2. ASSUME NEW k \in Worker, NEW c \in batch[k]
        PROVE  Fresh(k, c)'
    <3>1. Fresh(k, c) /\ c[1] \in Work
      BY ClaimParts DEF PromptInv, ClaimsFresh, TypeOK
    <3>2. c[1] # w
      BY <2>1, <3>1 DEF Fresh, Terminal, Successful
    <3> QED
      BY <2>1, <3>1, <3>2 DEF Fresh, TypeOK
  <2>3. RowsAgree'
    BY <2>1 DEF PromptInv, RowsAgree, RowAgrees, LastClaim, TypeOK, Terminal, Successful
  <2> QED
    BY <2>1, <2>2, <2>3 DEF PromptInv, InTime, Resting, ClaimsFresh
<1>2. ASSUME NEW k \in Worker, ReadClock(k)
      PROVE  PromptInv'
  <2>1. /\ call[k] = "idle" /\ batch[k] = {}
        /\ call' = [call EXCEPT ![k] = "claiming"]
        /\ readAt' = [readAt EXCEPT ![k] = now]
        /\ UNCHANGED <<now, itemVars, outcome, batch>>
    BY <1>2 DEF ReadClock, PromptInv, Resting
  <2>2. InTime'
    BY <2>1, BoundsType DEF PromptInv, InTime, TypeOK
  <2>3. Resting' /\ RowsAgree'
    BY <2>1 DEF PromptInv, Resting, RowsAgree, RowAgrees, LastClaim, itemVars, TypeOK
  <2>4. ClaimsFresh'
    <3>1. \A j \in Worker : j # k => readAt'[j] = readAt[j]
      BY <2>1 DEF TypeOK
    <3> QED
      BY <2>1, <3>1 DEF PromptInv, ClaimsFresh, Fresh, itemVars
  <2> QED
    BY <2>2, <2>3, <2>4 DEF PromptInv
<1>3. ASSUME NEW k \in Worker, Crash(k)
      PROVE  PromptInv'
  BY <1>3
  DEF Crash, Abandon, itemVars, PromptInv, InTime, Resting, ClaimsFresh, Fresh,
      RowsAgree, RowAgrees, LastClaim, TypeOK
<1>4. CASE PromptTick
  <2>1. /\ now' = now + 1
        /\ UNCHANGED <<itemVars, outcome, workerVars>>
        /\ \A k \in Worker : call[k] # "idle" => now < readAt[k] + Stale
    BY <1>4 DEF PromptTick, Tick
  <2>2. InTime'
    BY <2>1, BoundsType DEF PromptInv, InTime, TypeOK, workerVars
  <2> QED
    BY <2>1, <2>2 DEF PromptInv, Resting, ClaimsFresh, Fresh, RowsAgree,
                      RowAgrees, LastClaim, itemVars, workerVars
<1>5. CASE UNCHANGED vars
  BY <1>5 DEF vars, itemVars, workerVars, PromptInv, InTime, Resting, ClaimsFresh,
              Fresh, RowsAgree, RowAgrees, LastClaim
<1> QED
  BY <1>1, <1>2, <1>3, <1>4, <1>5, ClaimPendingPrompt, AttemptStepPrompt
  DEF PromptNext, QueueStep, ClaimStep

LEMMA KnownInvariant == PromptSpec => []Known
<1>1. Init => Known
  BY InitTypeOK, InitUnique, InitPrompt DEF Known
<1>2. Known /\ [PromptNext]_vars => Known'
  BY NextTypeOK, NextUnique, NextPrompt, PromptStepIsStep DEF Known
<1> QED
  BY <1>1, <1>2, PTL DEF PromptSpec

---------------------------------------------------------------------------
\* The prompt operation is an operation of the queue: what holds of every
\* behaviour of CollectionQueue holds of it too.
THEOREM PromptIsQueue == PromptSpec => Spec
BY PromptStepIsStep, PTL DEF PromptSpec, Spec

\* Atomic claims do prevent overlap when no worker outlives its lease: no two
\* workers hold the same item, and none holds it twice.
THEOREM ClaimsStayExclusive == PromptSpec => []ClaimsExclusive
<1>1. Known => ClaimsExclusive
  BY OneClaimPerItem DEF ClaimsExclusive
<1> QED
  BY <1>1, KnownInvariant, PTL

\* The work table and the immutable attempt table never contradict each other.
THEOREM ItemsAgree == PromptSpec => []ItemAgreesWithAttempts
<1>1. Known => ItemAgreesWithAttempts
  BY DEF Known, PromptInv, RowsAgree, RowAgrees, LastClaim, ClaimsFresh, Fresh,
         ItemAgreesWithAttempts
<1> QED
  BY <1>1, KnownInvariant, PTL

\* Nothing revives settled work: a claim takes only waiting or stale items,
\* and a claim still without its row is of a running one.
THEOREM SettledStaysSettled == PromptSpec => SettledForGood
<1> DEFINE A == \A w \in Work : status[w] \in Terminal => status'[w] = status[w]
<1>1. ASSUME Known, [PromptNext]_vars
      PROVE  [A]_vars
  <2> SUFFICES ASSUME PromptNext, NEW w \in Work, status[w] \in Terminal
               PROVE  status'[w] = status[w]
    BY <1>1
  <2> USE <1>1 DEF Known
  <2>1. CASE status' = status
    BY <2>1
  <2>2. ASSUME NEW v \in Work, Schedule(v)
        PROVE  status'[w] = status[w]
    BY <2>2 DEF Schedule, TypeOK, Terminal, Successful
  <2>3. ASSUME NEW k \in Worker, ClaimPending(k)
        PROVE  status'[w] = status[w]
    BY <2>3 DEF ClaimPending, ReadyAt, StaleAt, Terminal, Successful
  <2>4. ASSUME NEW k \in Worker, NEW c \in batch[k], AttemptStep(k, c)
        PROVE  status'[w] = status[w]
    <3>1. c \in Claim /\ c[1] \in Work
      BY ClaimParts DEF TypeOK
    <3>2. ASSUME NEW s \in Terminal \union {"RETRYING"}, FinishAttempt(c, s)
          PROVE  status'[w] = status[w]
      <4>1. status[c[1]] = "RUNNING"
        BY <3>2 DEF PromptInv, ClaimsFresh, Fresh, FinishAttempt
      <4> QED
        BY <3>2, <4>1 DEF FinishAttempt, TypeOK, Terminal, Successful
    <3> QED
      BY <2>1, <2>4, <3>1, <3>2, AttemptStepTables
  <2>5. ASSUME NEW k \in Worker, ReadClock(k) \/ Crash(k)
        PROVE  status'[w] = status[w]
    BY <2>5 DEF ReadClock, Crash, itemVars
  <2>6. CASE PromptTick
    BY <2>6 DEF PromptTick, Tick, itemVars
  <2> QED
    BY <2>2, <2>3, <2>4, <2>5, <2>6 DEF PromptNext, QueueStep, ClaimStep
<1> QED
  BY <1>1, KnownInvariant, PTL DEF PromptSpec, SettledForGood
===================================================================================
