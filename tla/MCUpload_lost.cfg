CONSTANTS
    u1 = u1
    u2 = u2
    f1 = f1
    f2 = f2
    p1 = p1
    p2 = p2
    Uploads <- OneUpload
    Files <- TwoFiles
    File <- OwnFile
    Rows <- LongFile
    Records <- ThreeRecords
    Providers <- TwoProviders
    ProviderOf <- ByParity
    BatchSize = 2
    Capacity = 2
    MaxFaults = 0
CHECK_DEADLOCK FALSE
SPECIFICATION Spec
INVARIANT NothingLost
