SPECIFICATION Spec
CONSTANTS
    a = a
    b = b
    c = c
    d = d
    e = e
    tab1 = tab1
    tab2 = tab2
    NoOp = NoOp
    Ops = {a, b, c, d, e}
    Clients = {tab1, tab2}
    ClientOf <- MCClientOf
    Timed = {e}
    Failing = {a}
CHECK_DEADLOCK FALSE
INVARIANTS
    OneClientAtATime
