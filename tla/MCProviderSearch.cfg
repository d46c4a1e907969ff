CONSTANTS
    r1 = r1
    r2 = r2
    n1 = n1
    n2 = n2
    d1 = d1
    d2 = d2
    d3 = d3
    NoAnswer = NoAnswer
    Reqs <- TwoReqs
    Servers <- TwoNameServers
    Domains <- ThreeDomains
    Old <- OldRows
    First <- NoRows
    Known <- OneKnown
    New <- NewRows
    Limits <- TwoLimits
    TTL = 1
    MaxErrors = 1
SPECIFICATION FairSearchSpec
INVARIANTS CacheWhole
PROPERTIES EveryRequestAnswered SearchSettles
