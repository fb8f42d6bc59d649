CONSTANTS
    n1 = n1
    n2 = n2
    Node = {n1, n2}
    EndVersion <- MCEndVersion
    TxFirst <- MCTxFirst
    ChunkLength = 100
    Alike <- MCAlike
    Published <- MCPublished
    Height <- MCHeight
    MaxFaults = 1
    Command = {"upgrade", "script"}
    Script = {"script"}
    Target = 10
    MaxMakes = 2
    u1 = u1
    u2 = u2
    Users = {u1, u2}
    LegacyAccounts <- MCLegacyAccounts
    Legacy <- MCLegacy
    TestLegacy <- MCTestLegacy
    MaxMishaps = 1
    BootstrapAmount = 2
    GenesisDrip = 1
    FixedOne = 1024
SPECIFICATION MCSpec
CHECK_DEADLOCK FALSE
INVARIANTS
    RestoredIsCut
    OnlyAnnounced
    SameGenesis
    
PROPERTIES
    AllRecover
    CeremonyEnds
