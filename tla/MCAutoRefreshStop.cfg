SPECIFICATION FairSpec
CONSTANTS
    MaxCalls = 2
    MaxChanges = 0
    MaxFaults = 0
    MaxLine = 1
CHECK_DEADLOCK FALSE
INVARIANTS
    StopStops
