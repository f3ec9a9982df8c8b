\* The claim of docs/ARCHITECTURE.md, with no fault at all.
SPECIFICATION Spec
CONSTANTS
    w1 = w1
    w2 = w2
    k1 = k1
    k2 = k2
    Work <- OneWork
    Worker <- MCWorker
    Rank <- MCRank
    Backoff <- MCBackoff
    NoClaim = NoClaim
    Limit = 2
    Stale = 1
    MaxAttempts = 2
    MaxClaims = 4
    MaxFaults = 0
    Horizon = 5
INVARIANTS
    FreshClaimsExclusive
