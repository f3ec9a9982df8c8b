----------------------------- MODULE MCPromptQueue -----------------------------
\* An instance of PromptQueue for TLC: two items, two workers, the delays of
\* the retry policy in units of the clock.
EXTENDS PromptQueue, TLC

CONSTANTS w1, w2, k1, k2

MCWork == {w1, w2}

MCWorker == {k1, k2}

MCRank == [w \in Work |-> IF w = w1 THEN 1 ELSE 2]

Policy == INSTANCE RetryPolicy
            WITH InitialDelay <- 1, Multiplier <- 2, MaximumDelay <- 3

MCBackoff == [n \in 1..MaxClaims |-> Policy!Delay(n)]

WorkerSymmetry == Permutations(MCWorker)
================================================================================
