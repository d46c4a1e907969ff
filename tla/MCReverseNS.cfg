CONSTANTS
    r1 = r1
    r2 = r2
    None = None
    Reqs <- TwoReqs
    Domains <- ThreeDomains
    Old <- TwoLast
    First <- FirstOnly
    New <- SecondOnly
    Probed <- SecondOnly
    Windows <- SecondPage
    TTL = 2
    WarmTTL = 2
    MaxFaults = 1
SPECIFICATION FairSpec
INVARIANTS TypeOK Coalesced ScoresAreRanks
PROPERTIES EveryRequestAnswered CountSettles 
