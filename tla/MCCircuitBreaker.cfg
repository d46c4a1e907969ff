CONSTANTS
    c1 = c1
    c2 = c2
    c3 = c3
    Callers <- TwoCallers
    MaxFailures = 2
    ResetTimeout = 1
    MaxConcurrent = 1
    MaxRequests = 5
SPECIFICATION FairSpec
INVARIANTS TypeOK SlotsAccounted RequestsAccounted ClosedBelowThreshold
PROPERTIES CoolDownHonoured ImplementsAbstract EveryCallReturns
