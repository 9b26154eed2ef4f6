SPECIFICATION FairSpec
CONSTANTS
    Calls = {a, i, t, s}
    Immediate = {i}
    Timed = {t}
    Stray = {s}
CHECK_DEADLOCK FALSE
INVARIANTS
    TypeOK
PROPERTIES
    EveryRequestAnswered
    LockSpec
