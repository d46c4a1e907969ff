SPECIFICATION FairSpec
CONSTANTS
    p1 = p1
    p2 = p2
    r1 = r1
    Callers <- TwoCallers
    ApiRequests <- OneRequest
    MaxFailures = 2
INVARIANT DrainHonoured
PROPERTIES EveryCheckEnds Recovers ServerExits
CHECK_DEADLOCK FALSE
