------------------------------- MODULE RetryPolicy -------------------------------
(***************************************************************************)
(* RetryPolicy of continuous_collection_models.py: exponential backoff     *)
(* with a ceiling.                                                         *)
(***************************************************************************)
LOCAL INSTANCE Integers
LOCAL INSTANCE FiniteSetsExt

CONSTANTS InitialDelay, Multiplier, MaximumDelay

\* RetryPolicy.delay(attempt)
Delay(attempt) ==
    Min({MaximumDelay, InitialDelay * Multiplier ^ Max({0, attempt - 1})})
==================================================================================
