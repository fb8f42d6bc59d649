CONSTANTS
    a = a
    b = b
    c = c
    d = d
    e = e
    Validators <- MCTrio
    Strangers = {d}
    Genesis <- MCPair
    InitRegistered <- MCPair
    InitVouchers <- MCTrioVouchers
    BidLevels = {1000}
    Expiries = {9}
    NominalReward = 2
    Funds = {2}
    MinSeats = 2
    HealthyThreshold = 3
    VouchThreshold = 1
    MaxVouches = 10
    FailedPropsPct = 20
    TrailingPct = 5
    FailurePct = 5
    CompetitivePct = 10
    FirstEval = 2
    Scale = 4096
    EpochInterval = 2
    FirstEpoch = 2
    MaxEpoch = 4
    MaxBlocks = 2
    MaxFailed = 0
    MaxTx = 1
SPECIFICATION FairSpec
CHECK_DEADLOCK FALSE
PROPERTIES
    FullIntervalBetweenBoundaries
    ImplementsClock
