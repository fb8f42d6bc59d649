CONSTANTS
    a = a
    b = b
    c = c
    d = d
    Bidders <- MCBidders
    Levels = {1, 2, 3}
    MaxSize = 6
    Voters = {v1, v2, v3, v4}
    InitWeights <- MCInitWeights
    Growth <- MCGrowth
    MaxWeight = 8
    CfgMinTurnout = 1250
    Deadline = 1
SPECIFICATION MCSpec
INVARIANTS
    PrefixesAreTop
    SeatedAreWinners
    TotalsAreReceipts
    PassHasSupport
