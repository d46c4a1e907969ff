CONSTANTS
    w1 = w1
    w2 = w2
    n1 = n1
    n2 = n2
    p1 = p1
    p2 = p2
    Bad = Bad
    Blank = Blank
    Workers <- TwoWorkers
    NameServers <- TwoNameServers
    Providers <- TwoProviders
    ProvidersOf <- Ambiguous
    File <- SmallFile
    Left <- LastRun
    BatchSize = 2
    Capacity = 1
    MaxFaults = 1
    MaxCrashes = 1
CHECK_DEADLOCK FALSE
SPECIFICATION FairSpec
INVARIANTS RowsAccounted AggregatesAccounted TablesAgree RunComplete
PROPERTY RunEnds
