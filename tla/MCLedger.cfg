CONSTANTS
    val = val
    founder = founder
    cw = cw
    fresh = fresh
    Accounts <- MCAccounts
    InitStatus <- MCInitStatus
    InitBalance <- MCInitBalance
    InitEscrow = 2
    InitSupply = 8
    Safes <- MCSafes
    Candidates <- MCCandidates
    Amounts = {1, 2}
    DripAmount = 1
    Reward = 2
    EntryFee = 1
    SafeFeeNum = 1
    SafeFeeDen = 2
    Scale = 256
    MaxInit = 1
    MaxTx = 3
    MaxEpoch = 2
SPECIFICATION Spec
INVARIANTS
    UnlockedBacked
    SupplyConserved
    FeeMakersAgree
PROPERTIES
    BoundaryEnds
