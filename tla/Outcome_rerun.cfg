SPECIFICATION Spec
CONSTANTS
    Groups = {"points"}
    Problem <- MCProblem
    Chain = {1, 2}
    SymbolOf <- MCSymbolOf
    Expiry <- MCExpiry
    MaxAge = 1
    MaxTime = 2
    Program = {p1, p2}
    Observation = {1, 2, 3}
    ObservedAt <- MCObservedAt
    Query = {2, 3}
    RankingsOf <- MCRankingsOf
    ExpiryTime = 3
    MinimumClassified = 1
    Absent = Absent
    p1 = p1
    p2 = p2
    l1 = l1
    l2 = l2
    Linker = {l1, l2}
    Event = {1}
    EventRecord <- MCEventRecord
    MaxImports = 2
    Record = {"i", "b1", "b2", "b3", "a"}
    Kind <- MCKind
    Payload <- MCPayload
    ValidPayload <- MCPayload
    CloseAt <- MCCloseAt
    ActionAt = 2
    Horizon = 2
    MaximumMatches = 2
    TrainingEnd = 3
    RunTimes = {2, 3}
    NoRow = NoRow
    Candidate = {1, 2, 3, 4}
    StrategyOf <- MCStrategyOf
    SeenAt <- MCSeenAt
    EndsAt <- MCEndsAt
    Scored = {1, 2, 3, 4}
    Flaws <- MCFlaws
    Policy <- MCPolicy
    Period <- MCPeriod
    Embargo = 1
    Purge = 0
    Cutoff = {5, 9}
    EvaluatedAt = {1}
    MaxCalibrations = 2
    MaxEvaluations = 1
    BarAt = {2, 3}
    LastImport = 4
    MaxBars = 2
    AsOfTimes = {3, 4}
    Timeout = 2
    LastDay = 3
    MinimumSessions = 1
    Watch = 1
    Degraded = 2
    Suspended = 3
    MaxDrifts = 2
    Experiment = {1}
    Role = {"risk", "data"}
    Approver = {"ann", "ben"}
    Minimum = 1
    MaxSessions = 1
    MaxProposals = 1
    MaxVerdicts = 3
    Decider = {1}
CHECK_DEADLOCK FALSE
INVARIANTS
    OutcomesKeepTheirPath
