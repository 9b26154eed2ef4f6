--------------------------- MODULE MCProcessLock ---------------------------
(***************************************************************************)
(* Four calls to processLock, two of which give up when they cannot get    *)
(* the lock: enough for a timed-out call between two others, and for two   *)
(* timed-out calls in a row.                                               *)
(***************************************************************************)
EXTENDS ProcessLock
=============================================================================
