CONSTANTS
    c1 = c1
    c2 = c2
    p1 = p1
    p2 = p2
    Channel = {c1, c2}
    Push = {p1, p2}
    Owner <- MCOwner
    Ref = {1, 2, 3, 4, 5, 6}
    MaxBuffer = 1
    Conn = {1, 2}
    MaxEvents = 3
    MaxToken = 1
    Auth = {a1, a2}
    MaxLost = 1
SPECIFICATION MCSpec
INVARIANTS
    TypesOK
    RejoinArmed
    JoinedAgrees
PROPERTIES
    PushSettled
    Reconnects
    Joins
    TokenSettles
CHECK_DEADLOCK FALSE
