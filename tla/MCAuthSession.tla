--------------------------- MODULE MCAuthSession ---------------------------
(***************************************************************************)
(* Two tabs.  The first reports the initial session, gets it, signs in or  *)
(* sets another user's; the second recovers the session, and signs out.    *)
(***************************************************************************)
EXTENDS AuthSession

CONSTANTS emit, get, set, signOut, signIn, recover, tab1, tab2, alice, bob, carol

MCKindOf ==
    [c \in Calls |->
        CASE c = emit -> "emit" [] c = get -> "get" [] c = set -> "set"
          [] c = signOut -> "signOut" [] c = signIn -> "signIn" [] c = recover -> "recover"]

MCClientOf == [c \in Calls |-> IF c \in {recover, signOut} THEN tab2 ELSE tab1]

MCUserOf == [c \in Calls |-> CASE c = set -> bob [] c = signIn -> carol [] OTHER -> alice]
=============================================================================
