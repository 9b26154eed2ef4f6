---------------------------- MODULE ProcessLock ----------------------------
(***************************************************************************)
(* processLock of auth-js/src/lib/locks.ts: an exclusive lock for one      *)
(* process, made of a chain of promises.  PROCESS_LOCKS[name] is the tail  *)
(* of the chain (one name is modelled, names share nothing).  A call races *)
(* the previous entry of the chain against its acquire timeout, runs its   *)
(* operation if the entry wins, and leaves an entry of its own that must   *)
(* not settle before everything ahead of it has.                           *)
(*                                                                         *)
(* Promise reactions are microtasks: they all run before the event loop    *)
(* takes the next timer, which is why Timeout waits for Microtasks = {}.   *)
(***************************************************************************)
EXTENDS Naturals

CONSTANTS
    Calls,                  \* the calls made to processLock with one name
    Timed,                  \* those whose acquireTimeout is >= 0
    NoCall                  \* PROCESS_LOCKS[name] when nobody called yet

ASSUME CallsAssumption == Timed \subseteq Calls /\ NoCall \notin Calls

VARIABLES
    operation,              \* state of each call's currentOperation
    entry,                  \* state of the promise each call leaves in PROCESS_LOCKS
    previous,               \* the previousOperation each call captured
    tail,                   \* PROCESS_LOCKS[name]
    arrival,                \* history: the rank at which each call was made
    asked                   \* history: how many calls were made

vars == <<operation, entry, previous, tail, arrival, asked>>

(* "racing": previousOperation against the timer; "timedout": the timer won
   and fn never runs; "refused": fn ran and threw an error that carries
   isAcquireTimeout, as one that waits for another lock does. *)
OperationState ==
    {"idle", "racing", "running", "fulfilled", "rejected", "timedout", "refused"}

EntryState == {"none", "pending", "fulfilled", "rejected"}

Settled(c) == entry[c] \in {"fulfilled", "rejected"}

\* Variant to refute: without the catch() on the previous operation, a rejected
\* one would end the race.
PreviousFulfilled(c) == previous[c] # NoCall => entry[previous[c]] = "fulfilled"

PreviousSettled(c) == previous[c] # NoCall => Settled(previous[c])

\* The race is decided for the previous entry: the reaction that runs fn is queued.
CanStart(c) == operation[c] = "racing" /\ PreviousSettled(c)

\* The entry of a call that ended with an acquire timeout waits for the one before.
CanForward(c) ==
    /\ operation[c] \in {"timedout", "refused"}
    /\ entry[c] = "pending"
    /\ PreviousSettled(c)

Microtasks == {c \in Calls : CanStart(c) \/ CanForward(c)}

Init ==
    /\ operation = [c \in Calls |-> "idle"]
    /\ entry = [c \in Calls |-> "none"]
    /\ previous = [c \in Calls |-> NoCall]
    /\ tail = NoCall
    /\ arrival = [c \in Calls |-> 0]
    /\ asked = 0

\* processLock(name, acquireTimeout, fn) up to its first await.
Call(c) ==
    /\ operation[c] = "idle"
    /\ operation' = [operation EXCEPT ![c] = "racing"]
    /\ previous' = [previous EXCEPT ![c] = tail]
    /\ entry' = [entry EXCEPT ![c] = "pending"]
    /\ tail' = c
    /\ asked' = asked + 1
    /\ arrival' = [arrival EXCEPT ![c] = asked + 1]

\* previousOperation won the race, whether it was fulfilled or rejected: fn runs.
Start(c) ==
    /\ CanStart(c)
    /\ operation' = [operation EXCEPT ![c] = "running"]
    /\ UNCHANGED <<entry, previous, tail, arrival, asked>>

\* fn ended with a value or with an ordinary error, and so does the entry.
Finish(c, outcome) ==
    /\ operation[c] = "running"
    /\ operation' = [operation EXCEPT ![c] = outcome]
    /\ entry' = [entry EXCEPT ![c] = outcome]
    /\ UNCHANGED <<previous, tail, arrival, asked>>

\* fn threw an error with isAcquireTimeout: the entry goes on to await previousOperation.
FinishRefused(c) ==
    /\ operation[c] = "running"
    /\ operation' = [operation EXCEPT ![c] = "refused"]
    /\ UNCHANGED <<entry, previous, tail, arrival, asked>>

TimeoutSettling(c, outcome) ==
    /\ operation[c] = "racing"
    /\ c \in Timed
    /\ Microtasks = {}
    /\ operation' = [operation EXCEPT ![c] = "timedout"]
    /\ entry' = [entry EXCEPT ![c] = outcome]
    /\ UNCHANGED <<previous, tail, arrival, asked>>

\* Variants to refute: the entry of a call that timed out settles with it, without
\* waiting for the one before; or it takes the outcome of the operation.
TimeoutEndsEntry(c) == TimeoutSettling(c, "rejected")
TimeoutCopied(c) == TimeoutSettling(c, "timedout")

\* Variant to refute: the timer wins over a race that is already decided.
TimeoutFirst(c) ==
    /\ operation[c] = "racing"
    /\ c \in Timed
    /\ operation' = [operation EXCEPT ![c] = "timedout"]
    /\ UNCHANGED <<entry, previous, tail, arrival, asked>>

\* The timer fires first: the caller gets ProcessLockAcquireTimeoutError.
Timeout(c) ==
    /\ operation[c] = "racing"
    /\ c \in Timed
    /\ Microtasks = {}
    /\ operation' = [operation EXCEPT ![c] = "timedout"]
    /\ UNCHANGED <<entry, previous, tail, arrival, asked>>

\* "the previous operation [may not be] finished, so we need continue waiting": a
\* fulfilled predecessor gives null, a rejected one passes its error on.
Forward(c) ==
    /\ CanForward(c)
    /\ entry' = [entry EXCEPT ![c] =
                    IF previous[c] = NoCall THEN "fulfilled" ELSE entry[previous[c]]]
    /\ UNCHANGED <<operation, previous, tail, arrival, asked>>

Next ==
    \E c \in Calls :
        \/ Call(c)
        \/ Start(c)
        \/ \E outcome \in {"fulfilled", "rejected"} : Finish(c, outcome)
        \/ FinishRefused(c)
        \/ Timeout(c)
        \/ Forward(c)

(* Promise reactions always run, and the operations given to the lock end;
   nobody has to call, and a timer need not fire before the lock is free. *)
Fairness ==
    \A c \in Calls :
        /\ WF_vars(Start(c))
        /\ WF_vars(Forward(c))
        /\ WF_vars(FinishRefused(c) \/ \E o \in {"fulfilled", "rejected"} : Finish(c, o))

Spec == Init /\ [][Next]_vars

FairSpec == Spec /\ Fairness
-----------------------------------------------------------------------------
TypeOK ==
    /\ operation \in [Calls -> OperationState]
    /\ entry \in [Calls -> EntryState]
    /\ previous \in [Calls -> Calls \cup {NoCall}]
    /\ tail \in Calls \cup {NoCall}
    /\ arrival \in [Calls -> Nat]
    /\ asked \in Nat

(* "Implements a global exclusive lock": two operations never run at once,
   whatever calls timed out or failed in between. *)
MutualExclusion ==
    \A c, d \in Calls :
        operation[c] = "running" /\ operation[d] = "running" => c = d

(* An entry of the chain settles only when every entry ahead of it has, also
   the entry of a call that gave up early: this is what lets the next caller
   look at the last entry alone. *)
EntriesSettleInOrder ==
    \A c, d \in Calls :
        Settled(c) /\ arrival[d] \in 1..arrival[c] => Settled(d)

(* Nobody is told that the lock could not be acquired while it was free: a
   timeout needs some operation in the way. *)
NoSpuriousTimeout ==
    [][\A c \in Calls :
         operation[c] = "racing" /\ operation'[c] = "timedout"
            => \E d \in Calls \ {c} : operation[d] = "running"]_vars

(* An operation that could not wait forever for the lock gets it: neither an
   error nor a timeout ahead of it breaks the chain. *)
UntimedCallsRun ==
    \A c \in Calls \ Timed :
        operation[c] = "racing" ~> operation[c] = "running"
-----------------------------------------------------------------------------
(* A call to processLock waits while it races and holds the lock while its
   operation runs; one that timed out or ran to its end is over. *)
AbstractStatus ==
    [c \in Calls |->
        CASE operation[c] = "idle"    -> "idle"
          [] operation[c] = "racing"  -> "waiting"
          [] operation[c] = "running" -> "holding"
          [] OTHER                    -> "over"]

Lock == INSTANCE ExclusiveLock WITH status <- AbstractStatus

(* processLock implements the abstract lock: operations run one at a time, in
   the order of the calls, and one that timed out never runs. *)
LockSpec == Lock!Spec
=============================================================================
