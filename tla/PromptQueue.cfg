\* No worker outlives the lease of its claims.
SPECIFICATION PromptSpec
CONSTANTS
    w1 = w1
    w2 = w2
    k1 = k1
    k2 = k2
    Work <- MCWork
    Worker <- MCWorker
    Rank <- MCRank
    Backoff <- MCBackoff
    NoClaim = NoClaim
    Limit = 2
    Stale = 1
    MaxAttempts = 2
    MaxClaims = 4
    MaxFaults = 1
    Horizon = 5
SYMMETRY WorkerSymmetry
INVARIANTS
    ClaimsExclusive
    ItemAgreesWithAttempts
PROPERTIES
    SettledForGood
