SPECIFICATION FairSpec
CONSTANTS
    MaxCalls = 3
    MaxChanges = 2
    MaxFaults = 1
    MaxLine = 2
CHECK_DEADLOCK FALSE
INVARIANTS
    TypeOK
    TickerTracked
    StopHolds
    TickerFollowsVisibility
PROPERTIES
    ExpiredIsHandled
