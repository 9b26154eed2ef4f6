--------------------------- MODULE NavigatorLock ---------------------------
(***************************************************************************)
(* navigatorLock of auth-js/src/lib/locks.ts over the browser's LockManager *)
(* (navigator.locks), which the pages of one origin share.  Each call is   *)
(* made in a page of its own: a page that goes away takes its request or   *)
(* its lock with it.  The manager is external, modelled from the options   *)
(* the code passes and the cases its callback handles: it queues exclusive *)
(* requests, answers an ifAvailable one with a lock or with null at once,  *)
(* and drops the request whose signal is aborted.                          *)
(***************************************************************************)
EXTENDS Naturals, Sequences, SequencesExt

CONSTANTS
    Calls,                  \* the calls made to navigatorLock with one name
    Immediate,              \* those with acquireTimeout = 0
    Timed,                  \* those with acquireTimeout > 0
    Stray                   \* those in a page whose LockManager may give a null
                            \* lock to a request made without ifAvailable

ASSUME NavigatorAssumption ==
    /\ Immediate \subseteq Calls
    /\ Timed \subseteq Calls \ Immediate
    /\ Stray \subseteq Calls \ Immediate

VARIABLES
    call,                   \* state of each call
    queue,                  \* the requests the LockManager has not answered
    arrival,                \* history: the rank at which each call asked
    asked                   \* history: how many calls have asked

vars == <<call, queue, arrival, asked>>

(* "unlocked": fn runs though the lock given was null.  "refused" is the
   NavigatorLockAcquireTimeoutError, "aborted" the AbortError of the signal. *)
CallState ==
    {"idle", "requested", "running", "unlocked", "ended", "refused", "aborted", "gone"}

Free == \A c \in Calls : call[c] # "running"

Init ==
    /\ call = [c \in Calls |-> "idle"]
    /\ queue = <<>>
    /\ arrival = [c \in Calls |-> 0]
    /\ asked = 0

\* navigator.locks.request: the manager receives the request.
Request(c) ==
    /\ call[c] = "idle"
    /\ call' = [call EXCEPT ![c] = "requested"]
    /\ queue' = Append(queue, c)
    /\ asked' = asked + 1
    /\ arrival' = [arrival EXCEPT ![c] = asked + 1]

\* The callback gets the lock and runs fn.
Granted(c) ==
    /\ queue # <<>> /\ c = Head(queue)
    /\ Free
    /\ call' = [call EXCEPT ![c] = "running"]
    /\ queue' = Tail(queue)
    /\ UNCHANGED <<arrival, asked>>

\* Variant to refute: the callback does not throw, and runs fn without the lock.
RefusedRuns(c) ==
    /\ call[c] = "requested" /\ c \in Immediate
    /\ ~Free \/ c # Head(queue)
    /\ call' = [call EXCEPT ![c] = "running"]
    /\ queue' = RemoveFirst(queue, c)
    /\ UNCHANGED <<arrival, asked>>

\* Variant to refute: the callback's promise never settles, the caller waits on.
RefusedUnheard(c) ==
    /\ c \in ToSet(queue) /\ c \in Immediate
    /\ ~Free \/ c # Head(queue)
    /\ queue' = RemoveFirst(queue, c)
    /\ UNCHANGED <<call, arrival, asked>>

\* ifAvailable and not available: the callback gets null and throws.
Refused(c) ==
    /\ call[c] = "requested" /\ c \in Immediate
    /\ ~Free \/ c # Head(queue)
    /\ call' = [call EXCEPT ![c] = "refused"]
    /\ queue' = RemoveFirst(queue, c)
    /\ UNCHANGED <<arrival, asked>>

\* "Browser is not following the Navigator LockManager spec": fn runs all the same.
NullLock(c) ==
    /\ call[c] = "requested" /\ c \in Stray
    /\ call' = [call EXCEPT ![c] = "unlocked"]
    /\ queue' = RemoveFirst(queue, c)
    /\ UNCHANGED <<arrival, asked>>

\* Variant to refute: the signal is not passed to the request, which stays queued.
AbortUnheard(c) ==
    /\ call[c] = "requested" /\ c \in Timed
    /\ call' = [call EXCEPT ![c] = "aborted"]
    /\ UNCHANGED <<queue, arrival, asked>>

\* The timer calls abortController.abort(). It is never cleared: once the lock
\* is granted the signal no longer matters.
Abort(c) ==
    /\ call[c] = "requested" /\ c \in Timed
    /\ call' = [call EXCEPT ![c] = "aborted"]
    /\ queue' = RemoveFirst(queue, c)
    /\ UNCHANGED <<arrival, asked>>

\* fn ended, with a value or an error, and the manager takes the lock back.
Finish(c) ==
    /\ call[c] \in {"running", "unlocked"}
    /\ call' = [call EXCEPT ![c] = "ended"]
    /\ UNCHANGED <<queue, arrival, asked>>

\* The page is closed or reloaded while the call is in progress.
PageGone(c) ==
    /\ call[c] \in {"requested", "running", "unlocked"}
    /\ call' = [call EXCEPT ![c] = "gone"]
    /\ queue' = RemoveFirst(queue, c)
    /\ UNCHANGED <<arrival, asked>>

Next ==
    \E c \in Calls :
        \/ Request(c)
        \/ Granted(c)
        \/ Refused(c)
        \/ NullLock(c)
        \/ Abort(c)
        \/ Finish(c)
        \/ PageGone(c)

(* The manager answers every request it can, and what runs under the lock
   ends (or its page goes away). *)
Fairness == \A c \in Calls : WF_vars(Granted(c)) /\ WF_vars(Refused(c)) /\ WF_vars(Finish(c))

Spec == Init /\ [][Next]_vars

FairSpec == Spec /\ Fairness
-----------------------------------------------------------------------------
TypeOK ==
    /\ call \in [Calls -> CallState]
    /\ queue \in Seq(Calls)
    /\ IsInjective(queue)
    /\ ToSet(queue) = {c \in Calls : call[c] = "requested"}
    /\ arrival \in [Calls -> Nat]
    /\ asked \in Nat

(* No call is left without an answer: the operation ahead of it ends, times
   out, or its page goes away, and the lock comes free. *)
EveryRequestAnswered ==
    \A c \in Calls : call[c] = "requested" ~> call[c] # "requested"
-----------------------------------------------------------------------------
(* navigatorLock implements the abstract lock.  A call that runs on a null
   lock counts as one that gave the lock up: that is the price the code pays
   on such a browser. *)
AbstractStatus ==
    [c \in Calls |->
        CASE call[c] = "idle"      -> "idle"
          [] call[c] = "requested" -> "waiting"
          [] call[c] = "running"   -> "holding"
          [] OTHER                 -> "over"]

Lock == INSTANCE ExclusiveLock WITH status <- AbstractStatus

(* Pages get the lock one at a time in the order in which the manager heard
   them, and one that was refused, aborted or closed never gets it. *)
LockSpec == Lock!Spec
=============================================================================
