\* Two items, one fair worker that claims one at a time, two faults.
SPECIFICATION FairSpec
CONSTANTS
    w1 = w1
    w2 = w2
    k1 = k1
    k2 = k2
    Work <- MCWork
    Worker <- OneWorker
    Rank <- MCRank
    Backoff <- MCBackoff
    NoClaim = NoClaim
    Limit = 1
    Stale = 1
    MaxAttempts = 2
    MaxClaims = 3
    MaxFaults = 2
    Horizon = 3
PROPERTIES
    AbandonedClaimRecovers
    DueWorkIsAttempted
