----------------------------- MODULE MCReplayQueue -----------------------------
\* An instance of ReplayQueue for TLC: one item, one worker, the delays of the
\* retry policy in units of the clock.
EXTENDS ReplayQueue

CONSTANTS w1, k1

MCRank == [w \in Work |-> 1]

Policy == INSTANCE RetryPolicy
            WITH InitialDelay <- 1, Multiplier <- 2, MaximumDelay <- 3

MCBackoff == [n \in 1..MaxClaims |-> Policy!Delay(n)]
================================================================================
