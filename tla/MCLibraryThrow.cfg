CONSTANTS
    Call = {m1, m2}
    Page = Page
    Earlier = Earlier
    throwOnError = TRUE
    None = None
    Claims = {m1, m2}
    Kid = {k1, k2}
    JWKS_TTL = 2
    MaxTime = 3
    Ceremony = {w1, w2, w3}
    Name = {n1}
    Chain = {m1, m2}
    Source = {s1}
    Column = {"name", "order"}
    Operator = {"eq"}
    MaxCalls = 3
    Key = {p1, p2}
    MaxPresence = 3
    MaxJoin = 2
    MaxAwaits = 2
    Part = {"auth"}
SPECIFICATION MCSpec
SYMMETRY Symmetry
INVARIANT InitializeNeverThrows
CHECK_DEADLOCK FALSE
