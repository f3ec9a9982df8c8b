------------------------------- MODULE ReplayQueue -------------------------------
(***************************************************************************)
(* CollectionQueue with a provider that answers every attempt on a work    *)
(* item with the same bytes, as LocalFixtureCollectionProvider does, and   *)
(* with the manifests of V3.1. A manifest belongs to a source, a batch and *)
(* a payload checksum; the batch is the work item. Its identity covers the *)
(* retry number too, and the insert passes over a known identity only: the *)
(* second attempt on work whose payload is stored meets the unique         *)
(* constraint of historical_raw_manifests, and its import raises.          *)
(***************************************************************************)
EXTENDS CollectionQueue

FirstImport(k, c) == c[1] \notin imported /\ ImportPayload(k, c)

\* import_payload raises and is rolled back; `except Exception` finishes the attempt.
ReplayRefused(k, c) ==
    /\ Handles(k, c)
    /\ step[k] = "between"
    /\ c[1] \in imported
    /\ FinishAttempt(c, AfterError(c))
    /\ Drop(k, c)
    /\ UNCHANGED <<now, imported, faults, reclaims>>

ReplayNext ==
    \/ \E w \in Work : Schedule(w)
    \/ \E k \in Worker :
        \/ ClaimStep(k)
        \/ \E c \in batch[k] : FirstImport(k, c) \/ ReplayRefused(k, c) \/ FinishImported(k, c) \/ RecordQuota(k, c)
    \/ Tick

ReplaySpec == Init /\ [][ReplayNext]_vars

---------------------------------------------------------------------------
\* "Exact replay is deduplicated" (docs/CONTINUOUS_MARKET_COLLECTION.md): work whose
\* payload is stored does not end as FAILED, however often it is taken up again. The
\* code violates it after a crash between the import and the attempt's row.
ReplaySucceeds == \A w \in Work : w \in imported => status[w] # "FAILED"
==================================================================================
