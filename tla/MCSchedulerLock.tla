---------------------------- MODULE MCSchedulerLock ----------------------------
\* Instances of SchedulerLock for TLC: two calls of run_once.
EXTENDS SchedulerLock

CONSTANTS r1, r2

TwoRuns == {r1, r2}

\* The session is closed at times 1 and 2 and open otherwise.
MCOpenTimes == (0..Horizon) \ {1, 2}
================================================================================
