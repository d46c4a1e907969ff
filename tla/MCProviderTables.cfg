SPECIFICATION FairSpec
CONSTANTS
    Rows <- ThreeRows
    KeyOf <- JoinedByBar
    Place <- InTheirOrder
    Order <- InScanOrder
    NameServers <- TwoNameServers
    ProvidersOf <- EitherOrB
    StatsBatchSize = 2
    LeftStats <- LeftoverStats
    LeftNS <- LeftoverNS
    ListKeys = {"top10"}
    Breakdown = "breakdown"
    Asked = "B"
    MaxProviderRows = 2
    None = None
    MaxDedups = 1
    MaxFaults = 1
INVARIANT BackfillComplete
PROPERTIES KeysKept ListsSettle
CHECK_DEADLOCK FALSE
