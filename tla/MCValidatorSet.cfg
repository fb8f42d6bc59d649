CONSTANTS
    a = a
    b = b
    c = c
    d = d
    e = e
    Validators <- MCValidators
    Strangers = {e}
    Genesis <- MCGenesis
    InitRegistered <- MCValidators
    InitVouchers <- MCVouchers
    BidLevels = {500, 1000}
    Expiries = {9}
    NominalReward = 2
    Funds = {2}
    MinSeats = 2
    HealthyThreshold = 3
    VouchThreshold = 1
    MaxVouches = 10
    FailedPropsPct = 20
    TrailingPct = 5
    FailurePct = 5
    CompetitivePct = 10
    FirstEval = 2
    Scale = 4096
    EpochInterval = 1
    FirstEpoch = 2
    MaxEpoch = 4
    MaxBlocks = 1
    MaxFailed = 1
    MaxTx = 1
SYMMETRY MCSymmetry
SPECIFICATION Spec
CHECK_DEADLOCK FALSE
INVARIANTS
    SeatsCoverSet
PROPERTIES
    ViableSet
    NewcomersQualified
    JailedOnlyInFailover
