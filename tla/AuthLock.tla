------------------------------ MODULE AuthLock ------------------------------
(***************************************************************************)
(* GoTrueClient._acquireLock (auth-js/src/GoTrueClient.ts): how the        *)
(* clients that share a storage key run their operations one at a time.    *)
(* The first operation of a client takes the global lock (this.lock, here  *)
(* ExclusiveLock); operations called while the client holds it do not ask  *)
(* again but queue in pendingInLock, each behind the one before it, and    *)
(* the callback that took the lock drains the queue before it returns.     *)
(*                                                                         *)
(* A client is one JavaScript thread: an action is the code between two    *)
(* awaits.  An operation (the fn given to _acquireLock) starts, awaits and *)
(* ends; that it does not itself await another operation of its client is  *)
(* what the doc of onAuthStateChange asks of the callers.                  *)
(***************************************************************************)
EXTENDS Naturals, Sequences, SequencesExt

CONSTANTS
    Ops,                    \* the calls made to _acquireLock
    Clients,                \* the GoTrueClients that share one storage key
    ClientOf,               \* the client of each operation
    Timed,                  \* operations with acquireTimeout >= 0
    Failing,                \* operations whose promise may be rejected
    NoOp                    \* no operation

ASSUME AuthLockAssumption ==
    /\ ClientOf \in [Ops -> Clients]
    /\ Timed \subseteq Ops
    /\ Failing \subseteq Ops
    /\ NoOp \notin Ops

VARIABLES
    status, arrival, asked, \* the global lock
    op,                     \* state of each operation
    last,                   \* the `last` captured by each queued operation
    lockAcquired,           \* this.lockAcquired, of each client
    pendingInLock,          \* this.pendingInLock, of each client
    holder,                 \* the operation whose callback holds the lock
    stage,                  \* the await at which that callback stands
    waitOn,                 \* waitOn.length
    left                    \* history: operations still queued when the
                            \* callback of their client gave the lock back

lock == INSTANCE ExclusiveLock WITH Calls <- Ops

lockVars == <<status, arrival, asked>>
opVars == <<op, last>>
clientVars == <<lockAcquired, pendingInLock, holder, stage, waitOn>>
vars == <<lockVars, opVars, clientVars, left>>

OpState == {"idle", "waiting", "queued", "running", "fulfilled", "rejected", "timedout"}

(* "first" awaits the operation that took the lock, "drain" awaits the
   operations of waitOn, "leave" awaits the first operation once more. *)
Stage == {"none", "first", "drain", "leave"}

Ended(o) == op[o] \in {"fulfilled", "rejected"}

Init ==
    /\ lock!Init
    /\ op = [o \in Ops |-> "idle"]
    /\ last = [o \in Ops |-> NoOp]
    /\ lockAcquired = [k \in Clients |-> FALSE]
    /\ pendingInLock = [k \in Clients |-> <<>>]
    /\ holder = [k \in Clients |-> NoOp]
    /\ stage = [k \in Clients |-> "none"]
    /\ waitOn = [k \in Clients |-> 0]
    /\ left = {}

\* _acquireLock while the client does not hold the lock: ask for it.
AskForLock(o) ==
    /\ op[o] = "idle"
    /\ ~lockAcquired[ClientOf[o]]
    /\ lock!Request(o)
    /\ op' = [op EXCEPT ![o] = "waiting"]
    /\ UNCHANGED <<last, clientVars, left>>

\* Variant to refute: every queued operation waits for the first one only.
HeadOfLine(k) == IF pendingInLock[k] = <<>> THEN NoOp ELSE Head(pendingInLock[k])

\* Variant to refute: a nested operation starts at once, as a reentrant lock has it.
NobodyInLine(k) == NoOp

\* The last entry of pendingInLock, or Promise.resolve().
EndOfLine(k) == IF pendingInLock[k] = <<>> THEN NoOp ELSE Last(pendingInLock[k])

\* _acquireLock while the client holds the lock: queue behind the last operation.
QueueInLock(o) ==
    LET k == ClientOf[o] IN
    /\ op[o] = "idle"
    /\ lockAcquired[k]
    /\ op' = [op EXCEPT ![o] = "queued"]
    /\ last' = [last EXCEPT ![o] = EndOfLine(k)]
    /\ pendingInLock' = [pendingInLock EXCEPT ![k] = Append(@, o)]
    /\ UNCHANGED <<lockVars, lockAcquired, holder, stage, waitOn, left>>

\* The global lock is granted: its callback starts the operation.
EnterLock(o) ==
    LET k == ClientOf[o] IN
    /\ lock!Grant(o)
    /\ op' = [op EXCEPT ![o] = "running"]
    /\ lockAcquired' = [lockAcquired EXCEPT ![k] = TRUE]
    /\ pendingInLock' = [pendingInLock EXCEPT ![k] = Append(@, o)]
    /\ holder' = [holder EXCEPT ![k] = o]
    /\ stage' = [stage EXCEPT ![k] = "first"]
    /\ UNCHANGED <<last, waitOn, left>>

\* The global lock is not granted in time: the caller gets the lock's error.
GiveUp(o) ==
    /\ o \in Timed
    /\ lock!Abandon(o)
    /\ op' = [op EXCEPT ![o] = "timedout"]
    /\ UNCHANGED <<last, clientVars, left>>

\* `await last; return await fn()`: the operation ahead in the queue has ended.
StartQueued(o) ==
    /\ op[o] = "queued"
    /\ last[o] # NoOp => Ended(last[o])
    /\ op' = [op EXCEPT ![o] = "running"]
    /\ UNCHANGED <<lockVars, last, clientVars, left>>

\* The promise of an operation settles, and with it its entry in pendingInLock.
End(o) ==
    /\ op[o] = "running"
    /\ \/ op' = [op EXCEPT ![o] = "fulfilled"]
       \/ o \in Failing /\ op' = [op EXCEPT ![o] = "rejected"]
    /\ UNCHANGED <<lockVars, last, clientVars, left>>

\* Variant to refute: the client does not note that it gave the lock back.
GiveBackUnnoted(k) ==
    /\ lock!Release(holder[k])
    /\ holder' = [holder EXCEPT ![k] = NoOp]
    /\ stage' = [stage EXCEPT ![k] = "none"]
    /\ left' = left \cup {o \in ToSet(pendingInLock[k]) : ~Ended(o)}
    /\ UNCHANGED <<opVars, lockAcquired, pendingInLock, waitOn>>

\* finally: lockAcquired = false, and the callback's promise settles.
GiveBack(k) ==
    /\ lock!Release(holder[k])
    /\ lockAcquired' = [lockAcquired EXCEPT ![k] = FALSE]
    /\ holder' = [holder EXCEPT ![k] = NoOp]
    /\ stage' = [stage EXCEPT ![k] = "none"]
    /\ left' = left \cup {o \in ToSet(pendingInLock[k]) : ~Ended(o)}
    /\ UNCHANGED <<opVars, pendingInLock, waitOn>>

\* Variant to refute: no finally, a failed operation keeps the lock.
FirstFailsHolding(k) ==
    /\ stage[k] = "first"
    /\ op[holder[k]] = "rejected"
    /\ stage' = [stage EXCEPT ![k] = "none"]
    /\ UNCHANGED <<lockVars, opVars, lockAcquired, pendingInLock, holder, waitOn, left>>

\* `await result` throws: the queue is not drained.
FirstFails(k) ==
    /\ stage[k] = "first"
    /\ op[holder[k]] = "rejected"
    /\ GiveBack(k)

\* `await result` returns: wait on everything that is queued so far.
FirstEnds(k) ==
    /\ stage[k] = "first"
    /\ op[holder[k]] = "fulfilled"
    /\ stage' = [stage EXCEPT ![k] = "drain"]
    /\ waitOn' = [waitOn EXCEPT ![k] = Len(pendingInLock[k])]
    /\ UNCHANGED <<lockVars, opVars, lockAcquired, pendingInLock, holder, left>>

\* Variant to refute: the length of what is left is off by one.
DrainOffByOne(k) ==
    /\ stage[k] = "drain"
    /\ \A i \in 1..waitOn[k] : Ended(pendingInLock[k][i])
    /\ LET rest == SubSeq(pendingInLock[k], waitOn[k] + 1, Len(pendingInLock[k])) IN
       /\ pendingInLock' = [pendingInLock EXCEPT ![k] = rest]
       /\ waitOn' = [waitOn EXCEPT ![k] = Len(rest) - 1]
       /\ stage' = [stage EXCEPT ![k] = IF rest = <<>> THEN "leave" ELSE "drain"]
    /\ UNCHANGED <<lockVars, opVars, lockAcquired, holder, left>>

\* Promise.all(waitOn) is fulfilled: drop those, and go on while more were queued.
Drain(k) ==
    /\ stage[k] = "drain"
    /\ \A i \in 1..waitOn[k] : Ended(pendingInLock[k][i])
    /\ LET rest == SubSeq(pendingInLock[k], waitOn[k] + 1, Len(pendingInLock[k])) IN
       /\ pendingInLock' = [pendingInLock EXCEPT ![k] = rest]
       /\ waitOn' = [waitOn EXCEPT ![k] = Len(rest)]
       /\ stage' = [stage EXCEPT ![k] = IF rest = <<>> THEN "leave" ELSE "drain"]
    /\ UNCHANGED <<lockVars, opVars, lockAcquired, holder, left>>

\* `return await result` has its value.
Leave(k) ==
    /\ stage[k] = "leave"
    /\ GiveBack(k)

Next ==
    \/ \E o \in Ops :
          \/ AskForLock(o)
          \/ QueueInLock(o)
          \/ EnterLock(o)
          \/ GiveUp(o)
          \/ StartQueued(o)
          \/ End(o)
    \/ \E k \in Clients : FirstFails(k) \/ FirstEnds(k) \/ Drain(k) \/ Leave(k)

(* The lock is granted to who waited longest, promise reactions run, and an
   operation that runs ends; nobody has to call or to give up. *)
Fairness ==
    /\ \A o \in Ops : WF_vars(EnterLock(o)) /\ WF_vars(StartQueued(o)) /\ WF_vars(End(o))
    /\ \A k \in Clients :
          WF_vars(FirstFails(k)) /\ WF_vars(FirstEnds(k)) /\ WF_vars(Drain(k)) /\ WF_vars(Leave(k))

Spec == Init /\ [][Next]_vars

FairSpec == Spec /\ Fairness
-----------------------------------------------------------------------------
TypeOK ==
    /\ status \in [Ops -> lock!Status] /\ arrival \in [Ops -> Nat] /\ asked \in Nat
    /\ op \in [Ops -> OpState]
    /\ last \in [Ops -> Ops \cup {NoOp}]
    /\ lockAcquired \in [Clients -> BOOLEAN]
    /\ pendingInLock \in [Clients -> Seq(Ops)]
    /\ holder \in [Clients -> Ops \cup {NoOp}]
    /\ stage \in [Clients -> Stage]
    /\ waitOn \in [Clients -> Nat]
    /\ left \subseteq Ops

(* lockAcquired, which a client reads to decide whether to ask for the global
   lock, is true exactly while an operation of that client holds it. *)
LockAcquiredMeansHeld ==
    \A k \in Clients :
        lockAcquired[k] <=> \E o \in Ops : ClientOf[o] = k /\ status[o] = "holding"

(* "only one client operating on the session at once across multiple tabs or
   processes": of all clients, one operation is in progress at a time.  It is
   what _acquireLock does for every operation but those still queued when the
   lock is given back. *)
OneAtATimeUnlessLeft ==
    \A o, p \in Ops \ left : op[o] = "running" /\ op[p] = "running" => o = p

(* The operations of a client start in the order in which they queued: none
   starts before one that is ahead of it in pendingInLock has ended. *)
QueuedInOrder ==
    \A k \in Clients :
        \A i, j \in 1..Len(pendingInLock[k]) :
            /\ i < j
            /\ pendingInLock[k][i] \notin left
            /\ op[pendingInLock[k][j]] # "queued"
            => Ended(pendingInLock[k][i])

(* An operation whose client holds the lock or asks for it gets its turn: the
   drain loop gives the lock back, a failed operation does not keep it, and
   the queue behind a failed operation goes on. *)
EveryOperationSettles ==
    \A o \in Ops :
        op[o] \in {"waiting", "queued"} ~> op[o] \in {"fulfilled", "rejected", "timedout"}

(* The doc of _useSession takes the lock to give "only one client operating on
   the session at once across multiple tabs or processes". *)
OneClientAtATime ==
    \A o, p \in Ops :
        op[o] = "running" /\ op[p] = "running" => ClientOf[o] = ClientOf[p]
=============================================================================
