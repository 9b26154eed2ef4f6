SPECIFICATION FairSpec
CONSTANTS
    NoCall = NoCall
    Calls = {a, b, s, t}
    Timed = {s, t}
CHECK_DEADLOCK FALSE
INVARIANTS
    TypeOK
    MutualExclusion
    EntriesSettleInOrder
PROPERTIES
    NoSpuriousTimeout
    UntimedCallsRun
    LockSpec
