\* Every due step at most Lag late: 1 + (1 + 2) < 5, so the lease never lapses.
SPECIFICATION TimelySpec
CONSTANTS
    r1 = r1
    r2 = r2
    r3 = r3
    NoRun = NoRun
    Run <- MCRun
    OpenTimes <- MCOpenTimes
    Ttl = 5
    MaxMisses = 0
    Lag = 1
    Horizon = 11
SYMMETRY RunSymmetry
INVARIANTS
    NoOverlap
