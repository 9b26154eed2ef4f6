-------------------------- MODULE MCNavigatorLock --------------------------
(***************************************************************************)
(* Four calls from four pages: one with each kind of acquire timeout, and  *)
(* one in a page whose LockManager may hand out null locks.                *)
(***************************************************************************)
EXTENDS NavigatorLock
=============================================================================
