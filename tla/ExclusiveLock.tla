--------------------------- MODULE ExclusiveLock ---------------------------
(***************************************************************************)
(* What a LockFunc of auth-js promises to GoTrueClient: the operations     *)
(* handed to it run one at a time, in the order in which they asked, and   *)
(* one that gave up waiting never runs.  processLock (ProcessLock) and     *)
(* navigatorLock over the Web Locks API (NavigatorLock) implement it.      *)
(***************************************************************************)
EXTENDS Naturals

CONSTANT Calls                      \* the calls made to the lock function

VARIABLES
    status,                         \* where each call stands
    arrival,                        \* the rank at which each call asked
    asked                           \* how many calls have asked so far

lockVars == <<status, arrival, asked>>

Status == {"idle", "waiting", "holding", "over"}

Holders == {c \in Calls : status[c] = "holding"}

Init ==
    /\ status = [c \in Calls |-> "idle"]
    /\ arrival = [c \in Calls |-> 0]
    /\ asked = 0

\* A call asks for the lock and takes its place in the order.
Request(c) ==
    /\ status[c] = "idle"
    /\ status' = [status EXCEPT ![c] = "waiting"]
    /\ asked' = asked + 1
    /\ arrival' = [arrival EXCEPT ![c] = asked + 1]

\* The lock passes to the longest waiting call once nobody holds it.
Grant(c) ==
    /\ status[c] = "waiting"
    /\ Holders = {}
    /\ \A d \in Calls : status[d] = "waiting" => arrival[c] <= arrival[d]
    /\ status' = [status EXCEPT ![c] = "holding"]
    /\ UNCHANGED <<arrival, asked>>

\* A waiting call gives up: its acquire timeout passed, or its page is gone.
Abandon(c) ==
    /\ status[c] = "waiting"
    /\ status' = [status EXCEPT ![c] = "over"]
    /\ UNCHANGED <<arrival, asked>>

\* The operation of the holder ended, with a value or with an error.
Release(c) ==
    /\ status[c] = "holding"
    /\ status' = [status EXCEPT ![c] = "over"]
    /\ UNCHANGED <<arrival, asked>>

Next == \E c \in Calls : Request(c) \/ Grant(c) \/ Abandon(c) \/ Release(c)

Spec == Init /\ [][Next]_lockVars
=============================================================================
