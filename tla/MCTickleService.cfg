CONSTANTS
    Interval = 2
    StartEpoch = 1
    LastEpoch = 4
    MaxQueue = 2
    MaxFaults = 3
SPECIFICATION FairSpec
CHECK_DEADLOCK FALSE
INVARIANTS
    NeverAhead
PROPERTIES
    ServesClock
