CONSTANTS
    r1 = r1
    r2 = r2
    r3 = r3
    r4 = r4
    l1 = l1
    l2 = l2
    l3 = l3
    l4 = l4
    a = a
    b = b
    None = None
    Reqs <- FourReqs
    IPs <- TwoIPs
    IpOf <- OtherIP
    Api <- ButLive
    Limiters <- FourLimiters
    IPBurst = 1
    IPRate = 1
    IPTTL = 1
    MaxConcurrent = 2
    MaxDebt = 1
SPECIFICATION LimitSpec
SYMMETRY Symmetry
INVARIANTS OneLimiterPerIP BurstKept
