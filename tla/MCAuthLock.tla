----------------------------- MODULE MCAuthLock -----------------------------
(***************************************************************************)
(* Two clients of one storage key, in two tabs.  The first makes enough    *)
(* calls for one of them to fail, one to queue behind it, one to take the  *)
(* lock again and one to queue behind that; the other tab contends.        *)
(***************************************************************************)
EXTENDS AuthLock

CONSTANTS a, b, c, d, e, tab1, tab2

MCClientOf == [o \in {a, b, c, d, e} |-> IF o = e THEN tab2 ELSE tab1]
=============================================================================
