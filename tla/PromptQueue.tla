------------------------------- MODULE PromptQueue -------------------------------
(***************************************************************************)
(* The operation for which the claims of CollectionQueue are exclusive: no *)
(* call of execute_pending is still busy when its claims become stale. The *)
(* code makes no such promise: a batch of any size is worked off one item  *)
(* after another under one claimed_at, and nothing renews it.              *)
(***************************************************************************)
EXTENDS CollectionQueue

\* The clock does not pass the lease of a worker that still has work to do.
PromptTick == Tick /\ \A k \in Worker : call[k] # "idle" => now < readAt[k] + Stale

PromptNext == QueueStep \/ PromptTick

PromptSpec == Init /\ [][PromptNext]_vars

---------------------------------------------------------------------------
\* No two workers ever hold the same work item.
ClaimsExclusive ==
    \A j, k \in Worker : \A c \in batch[j], d \in batch[k] :
        c[1] = d[1] => j = k /\ c = d

\* The work item and its attempt rows tell the same story: settled work has
\* the row of its last attempt, running work has none for it, and a worker's
\* claim is the last attempt of its item.
ItemAgreesWithAttempts ==
    /\ \A w \in Work :
        /\ status[w] \in Terminal => outcome[<<w, attempts[w]>>] = status[w]
        /\ status[w] = "RUNNING" => outcome[<<w, attempts[w]>>] = "none"
    /\ \A k \in Worker : \A c \in batch[k] : c[2] = attempts[c[1]]

\* What completed, failed or turned out unavailable stays so: no late finish
\* and no reclaim ever revives it.
SettledForGood ==
    [][\A w \in Work : status[w] \in Terminal => status'[w] = status[w]]_vars
==================================================================================
