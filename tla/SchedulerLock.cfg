\* Two calls, fair repository calls and pipelines, an unfair heartbeat thread.
\* Heartbeats and repository calls may come late: no timing is assumed.
SPECIFICATION FairSpec
CONSTANTS
    r1 = r1
    r2 = r2
    NoRun = NoRun
    Run <- TwoRuns
    OpenTimes <- MCOpenTimes
    Ttl = 2
    MaxMisses = 1
    Horizon = 5
INVARIANTS
    LeaseExclusion
PROPERTIES
    OwnershipIsNeverRegained
    NoEarlyTakeover
    RunOnceReturns
    AbandonedLockExpires
