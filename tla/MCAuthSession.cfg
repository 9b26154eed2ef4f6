SPECIFICATION FairSpec
CONSTANTS
    emit = emit
    get = get
    set = set
    signOut = signOut
    signIn = signIn
    recover = recover
    tab1 = tab1
    tab2 = tab2
    alice = alice
    bob = bob
    carol = carol
    None = None
    Calls = {emit, set, recover, signOut}
    Clients = {tab1, tab2}
    ClientOf <- MCClientOf
    KindOf <- MCKindOf
    UserOf <- MCUserOf
    Users = {alice, bob}
    MaxFaults = 1
    MaxGen = 2
CHECK_DEADLOCK FALSE
INVARIANTS
    TypeOK
    SingleFlight
    StoredIsCurrent
    ReuseHasCause
    SignedOutStays
PROPERTIES
    EveryCallEnds
