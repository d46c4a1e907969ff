CONSTANTS
    r1 = r1
    r2 = r2
    None = None
    Reqs <- TwoReqs
    Domains <- ThreeDomains
    Old <- FirstOnly
    First <- TwoLast
    New <- ThreeDomains
    Probed <- ThreeDomains
    Windows <- Pages
    TTL = 1
    WarmTTL = 2
    MaxFaults = 0
SPECIFICATION Spec
PROPERTY PagesRight
