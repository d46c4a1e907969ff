SPECIFICATION FairSpec
CONSTANTS
    NameServers <- FourNameServers
    Providers = {"P", "Q"}
    ProviderNS <- TwoProviders
    DomainsOf <- OneToFour
    TableOf <- SharedTable
    Records = 2
    KnownProviders = 7
    KnownNameServers = 9
    BatchRows = 2
    CreateSlots = 2
    PopulateSlots = 2
    Modes = {"full", "stats", "metadata", "tables"}
    Missing = Missing
    MaxRuns = 2
    MaxFaults = 1
INVARIANTS MetadataComplete TablesFilled
PROPERTY MigrationEnds
CHECK_DEADLOCK FALSE
