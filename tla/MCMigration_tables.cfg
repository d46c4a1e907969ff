SPECIFICATION Spec
CONSTANTS
    NameServers <- FourNameServers
    Providers = {"P", "Q"}
    ProviderNS <- TwoProviders
    DomainsOf <- OneToFour
    TableOf <- SharedTable
    Records = 2
    KnownProviders = 7
    KnownNameServers = 9
    BatchRows = 2
    CreateSlots = 2
    PopulateSlots = 2
    Modes = {"tables"}
    Missing = Missing
    MaxRuns = 1
    MaxFaults = 0
INVARIANT TablesPopulated
CHECK_DEADLOCK FALSE
