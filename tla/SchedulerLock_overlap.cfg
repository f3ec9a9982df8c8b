\* The same claim without the timing assumption.
SPECIFICATION Spec
CONSTANTS
    r1 = r1
    r2 = r2
    NoRun = NoRun
    Run <- TwoRuns
    OpenTimes <- MCOpenTimes
    Ttl = 3
    MaxMisses = 1
    Horizon = 7
INVARIANTS
    NoOverlap
