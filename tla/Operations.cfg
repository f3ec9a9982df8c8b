SPECIFICATION Spec
CONSTANTS
    m1 = m1
    m2 = m2
    o1 = o1
    x = x
    y = y
    n1 = n1
    n2 = n2
    signal = signal
    failing = failing
    console = console
    Run = {m1, m2, o1}
    Market = {m1, m2}
    Options = {o1}
    RequestBatches = 2
    BatchQuotes = {0, 1}
    Symbols <- MCSymbols
    MaxAttempts = 2
    MaxFaults = 1
    Notifier = {n1, n2}
    Source = {signal, failing}
    Kind <- MCKind
    Channels <- MCChannels
    Limit = 1
    MaxAborts = 1
    Master <- MCMaster
    Alias <- MCAlias
    AsOf = {1, 2}
    Importer = {i1, i2}
    Refresher = {f1}
    MaxFailures = 1
    MaxInterruptions = 1
    Interval = {1, 2}
    Checker = {c1}
    Repairer = {r1, r2}
    GapLimit = 1
    MaxLosses = 1
    Version = {1, 2, 3}
    Content = {1, 2}
    NoFile = 0
    Migrator = {g1, g2}
    MaxEdits = 1
CHECK_DEADLOCK FALSE
INVARIANTS
    OperationalAudits
    CompletedRunIsWhole
    NoStaleSnapshot
    SymbolsAccounted
    AnalyticsRestOnCompleteChains
    DeliveriesAreOnRecord
    ContractsFollowImports
    MigrationsApplyOnce
PROPERTIES
    VerdictStays
    ToldWhileInWindow
