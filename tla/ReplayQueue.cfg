\* One crash; an item may be attempted twice.
SPECIFICATION ReplaySpec
CONSTANTS
    w1 = w1
    k1 = k1
    Work = {w1}
    Worker = {k1}
    Rank <- MCRank
    Backoff <- MCBackoff
    NoClaim = NoClaim
    Limit = 1
    Stale = 1
    MaxAttempts = 2
    MaxClaims = 3
    MaxFaults = 1
    Horizon = 4
CHECK_DEADLOCK FALSE
INVARIANTS
    ReplaySucceeds
