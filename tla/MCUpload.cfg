CONSTANTS
    u1 = u1
    u2 = u2
    f1 = f1
    f2 = f2
    p1 = p1
    p2 = p2
    Uploads <- TwoUploads
    Files <- TwoFiles
    File <- OwnFile
    Rows <- ShortFiles
    Records <- ThreeRecords
    Providers <- TwoProviders
    ProviderOf <- ByParity
    BatchSize = 2
    Capacity = 1
    MaxFaults = 2
CHECK_DEADLOCK FALSE
SPECIFICATION FairSpec
INVARIANTS RecordsAccounted AggregatesFlushed LeftoversReported StatsNeverAhead
PROPERTIES CompletedIsFinal EveryUploadEnds ImplementsPipe
