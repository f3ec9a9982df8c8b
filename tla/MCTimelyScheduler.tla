--------------------------- MODULE MCTimelyScheduler ---------------------------
\* An instance of TimelyScheduler for TLC: three calls of run_once.
EXTENDS TimelyScheduler, TLC

CONSTANTS r1, r2, r3

MCRun == {r1, r2, r3}

\* The session is closed at times 1 and 2 and open otherwise.
MCOpenTimes == (0..Horizon) \ {1, 2}

RunSymmetry == Permutations(MCRun)
================================================================================
