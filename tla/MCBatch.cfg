CONSTANTS
    a1 = a1
    a2 = a2
    a3 = a3
    p1 = p1
    p2 = p2
    Authorities = {a1, a2, a3}
    Payees = {p1, p2}
    Slow = {p1, p2}
    Batches <- MCBatches
    Threshold = 2
    MaxFaults = 1
SPECIFICATION FairBatch
CHECK_DEADLOCK FALSE
INVARIANTS
    PaidOnce
PROPERTIES
    BatchCompletes
