--------------------------- MODULE AuthLockProofs ---------------------------
(***************************************************************************)
(* Proofs about AuthLock, for every set of operations and clients.  Two    *)
(* facts carry them: pendingInLock holds every operation that is queued or *)
(* running, each behind the one its `last` names; and a client without the *)
(* lock has nothing unfinished in pendingInLock but what its callback left *)
(* there.                                                                  *)
(***************************************************************************)
EXTENDS AuthLock, TLAPS

Active(o) == op[o] \in {"queued", "running"}

Positions(k) == 1..Len(pendingInLock[k])

\* The global lock: its status and the state of the operation go together, and
\* one operation at most holds it.
LockMatchesOps ==
    /\ \A o \in Ops : op[o] \in {"idle", "queued"} => status[o] = "idle"
    /\ \A o \in Ops : status[o] = "waiting" <=> op[o] = "waiting"
    /\ \A o \in Ops : status[o] = "holding" => op[o] \in {"running", "fulfilled", "rejected"}
    /\ \A o, p \in Ops : status[o] = "holding" /\ status[p] = "holding" => o = p

\* lockAcquired, holder and stage of a client say the same.
HolderMatchesLock ==
    /\ \A k \in Clients : stage[k] = "none" <=> ~lockAcquired[k]
    /\ \A k \in Clients : holder[k] = NoOp <=> ~lockAcquired[k]
    /\ \A k \in Clients : holder[k] # NoOp =>
          ClientOf[holder[k]] = k /\ status[holder[k]] = "holding"
    /\ \A o \in Ops : status[o] = "holding" => holder[ClientOf[o]] = o

\* What pendingInLock holds.
QueueHoldsActive ==
    /\ \A o \in Ops : Active(o) => \E i \in Positions(ClientOf[o]) : pendingInLock[ClientOf[o]][i] = o
    /\ \A k \in Clients : \A i \in Positions(k) :
          /\ ClientOf[pendingInLock[k][i]] = k
          /\ Active(pendingInLock[k][i]) \/ Ended(pendingInLock[k][i])
    /\ \A k \in Clients : \A i, j \in Positions(k) : pendingInLock[k][i] = pendingInLock[k][j] => i = j
    /\ \A k \in Clients : stage[k] = "drain" => waitOn[k] <= Len(pendingInLock[k])

\* An operation in the queue waits for the one just before it.
LastIsPrevious ==
    \A k \in Clients : \A j \in Positions(k) :
        op[pendingInLock[k][j]] = "queued" =>
            /\ j = 1 => \/ last[pendingInLock[k][j]] = NoOp
                        \/ Ended(last[pendingInLock[k][j]])
            /\ j > 1 => last[pendingInLock[k][j]] = pendingInLock[k][j - 1]

\* Without the lock, what is unfinished in the queue has been left there.
OnlyLeftOutside ==
    /\ left \subseteq {o \in Ops : Active(o) \/ Ended(o)}
    /\ \A k \in Clients : stage[k] = "none" =>
          \A i \in Positions(k) : Ended(pendingInLock[k][i]) \/ pendingInLock[k][i] \in left

Inv ==
    /\ TypeOK
    /\ LockMatchesOps
    /\ HolderMatchesLock
    /\ QueueHoldsActive
    /\ LastIsPrevious
    /\ OnlyLeftOutside
    /\ QueuedInOrder
-----------------------------------------------------------------------------
(* What `splice(0, n)` leaves of a queue. *)
LEMMA SpliceFacts ==
  ASSUME NEW S, NEW s \in Seq(S), NEW n \in Nat, n <= Len(s)
  PROVE  /\ SubSeq(s, n + 1, Len(s)) \in Seq(S)
         /\ Len(SubSeq(s, n + 1, Len(s))) = Len(s) - n
         /\ \A i \in 1..Len(SubSeq(s, n + 1, Len(s))) : SubSeq(s, n + 1, Len(s))[i] = s[i + n]
OBVIOUS

(* The invariant holds before any call is made. *)
LEMMA InitInv == Init => Inv
  BY AuthLockAssumption DEF Init, lock!Init, Inv, TypeOK, lock!Status, OpState, Stage,
     LockMatchesOps, HolderMatchesLock, QueueHoldsActive, LastIsPrevious, OnlyLeftOutside,
     QueuedInOrder, Active, Ended, Positions

(* The queues hold operations. *)
LEMMA QueueTyped == Inv => \A k \in Clients : /\ Len(pendingInLock[k]) \in Nat
                                             /\ \A i \in Positions(k) : pendingInLock[k][i] \in Ops
<1> SUFFICES ASSUME Inv, NEW k \in Clients
             PROVE  /\ Len(pendingInLock[k]) \in Nat
                    /\ \A i \in Positions(k) : pendingInLock[k][i] \in Ops
  OBVIOUS
<1>1. pendingInLock[k] \in Seq(Ops)
  BY DEF Inv, TypeOK
<1> QED BY <1>1 DEF Positions


(* A step that leaves the queues alone, ends no more than what runs and queues
   nobody keeps what the invariant says of the queues. *)
LEMMA QueueKept ==
  ASSUME Inv, TypeOK', UNCHANGED <<pendingInLock, last>>,
         \A p \in Ops : Ended(p) => Ended(p)',
         \A p \in Ops : op'[p] = "queued" => op[p] = "queued",
         \A p \in Ops : Active(p)' => Active(p),
         \A p \in Ops : Active(p) => Active(p)' \/ Ended(p)',
         \A k \in Clients : stage'[k] = "drain" => waitOn'[k] <= Len(pendingInLock[k])
  PROVE  QueueHoldsActive' /\ LastIsPrevious'
<1>1. QueueHoldsActive'
  <2>1. \A o \in Ops : Active(o)' =>
           \E i \in Positions(ClientOf[o]) : pendingInLock[ClientOf[o]][i] = o
    BY DEF Inv, QueueHoldsActive
  <2>2. ASSUME NEW k \in Clients, NEW i \in Positions(k)
        PROVE  /\ ClientOf[pendingInLock[k][i]] = k
               /\ Active(pendingInLock[k][i])' \/ Ended(pendingInLock[k][i])'
    <3>1. pendingInLock[k][i] \in Ops
      BY QueueTyped
    <3>2. Active(pendingInLock[k][i]) \/ Ended(pendingInLock[k][i])
      BY DEF Inv, QueueHoldsActive
    <3> QED BY <3>1, <3>2 DEF Inv, QueueHoldsActive, Active, Ended
  <2> QED BY <2>1, <2>2 DEF Inv, QueueHoldsActive, Positions, Active, Ended
<1>2. LastIsPrevious'
  <2> SUFFICES ASSUME NEW k \in Clients, NEW j \in Positions(k), NEW q, q = pendingInLock[k][j],
                      op'[q] = "queued"
               PROVE  /\ j = 1 => last[q] = NoOp \/ Ended(last[q])'
                      /\ j > 1 => last[q] = pendingInLock[k][j - 1]
    BY DEF LastIsPrevious, Positions
  <2>1. q \in Ops /\ last[q] \in Ops \cup {NoOp}
    BY QueueTyped DEF Inv, TypeOK
  <2>2. /\ j = 1 => last[q] = NoOp \/ Ended(last[q])
        /\ j > 1 => last[q] = pendingInLock[k][j - 1]
    BY <2>1 DEF Inv, LastIsPrevious
  <2> QED BY <2>1, <2>2 DEF Ended
<1> QED BY <1>1, <1>2

(* Likewise, when it starts nobody, for the order in the queues. *)
LEMMA OrderKept ==
  ASSUME Inv, UNCHANGED pendingInLock, left \subseteq left',
         \A p \in Ops : Ended(p) => Ended(p)',
         \A p \in Ops : op'[p] # "queued" => op[p] # "queued" \/ ~(Active(p) \/ Ended(p))
  PROVE  QueuedInOrder'
<1> SUFFICES ASSUME NEW k \in Clients, NEW i \in Positions(k), NEW j \in Positions(k), i < j,
                    NEW a, NEW q, a = pendingInLock[k][i], q = pendingInLock[k][j],
                    a \notin left', op'[q] # "queued"
             PROVE  Ended(a)'
  BY DEF QueuedInOrder, Positions, Ended
<1>1. a \in Ops /\ q \in Ops
  BY QueueTyped
<1>2. Active(q) \/ Ended(q)
  BY DEF Inv, QueueHoldsActive
<1>3. op[q] # "queued"
  BY <1>1, <1>2
<1>4. Ended(a)
  BY <1>1, <1>3 DEF Inv, QueuedInOrder, Positions
<1> QED BY <1>1, <1>4

(* A step that gives no lock back keeps what is known of the queues of the
   clients without the lock. *)
LEMMA LeftKept ==
  ASSUME Inv, UNCHANGED <<pendingInLock, left>>,
         \A p \in Ops : Ended(p) => Ended(p)',
         \A p \in Ops : Active(p) => Active(p)' \/ Ended(p)',
         \A k \in Clients : stage'[k] = "none" => stage[k] = "none"
  PROVE  OnlyLeftOutside'
<1>1. left' \subseteq {o \in Ops : Active(o)' \/ Ended(o)'}
  BY DEF Inv, TypeOK, OnlyLeftOutside
<1>2. ASSUME NEW k \in Clients, stage'[k] = "none", NEW i \in Positions(k)
      PROVE  Ended(pendingInLock[k][i])' \/ pendingInLock[k][i] \in left'
  <2>1. pendingInLock[k][i] \in Ops
    BY QueueTyped
  <2>2. Ended(pendingInLock[k][i]) \/ pendingInLock[k][i] \in left
    BY <1>2 DEF Inv, OnlyLeftOutside
  <2> QED BY <2>1, <2>2 DEF Ended
<1> QED BY <1>1, <1>2 DEF OnlyLeftOutside, Positions, Active, Ended

(* Each action keeps the invariant: asking for the lock touches no queue. *)
LEMMA AskForLockInv == ASSUME Inv, NEW o \in Ops, AskForLock(o) PROVE Inv'
<1> USE AuthLockAssumption
<1>1. TypeOK'
  BY DEF Inv, TypeOK, AskForLock, lock!Request, lock!Status, OpState, clientVars
<1>2. LockMatchesOps'
  BY DEF Inv, TypeOK, LockMatchesOps, AskForLock, lock!Request
<1>3. HolderMatchesLock'
  BY DEF Inv, TypeOK, LockMatchesOps, HolderMatchesLock, AskForLock, lock!Request, clientVars
<1>4. /\ \A p \in Ops : op'[p] = IF p = o THEN "waiting" ELSE op[p]
      /\ op[o] = "idle"
      /\ UNCHANGED <<pendingInLock, last, stage, waitOn, left>>
  BY DEF Inv, TypeOK, AskForLock, clientVars
<1>5. QueueHoldsActive' /\ LastIsPrevious'
  BY <1>1, <1>4, QueueKept DEF Active, Ended, Inv, QueueHoldsActive
<1>6. QueuedInOrder'
  BY <1>4, OrderKept DEF Active, Ended
<1>7. OnlyLeftOutside'
  BY <1>4, LeftKept DEF Active, Ended
<1> QED BY <1>1, <1>2, <1>3, <1>5, <1>6, <1>7 DEF Inv

(* An operation that gives up was in no queue. *)
LEMMA GiveUpInv == ASSUME Inv, NEW o \in Ops, GiveUp(o) PROVE Inv'
<1> USE AuthLockAssumption
<1>1. TypeOK'
  BY DEF Inv, TypeOK, GiveUp, lock!Abandon, lock!Status, OpState, clientVars
<1>2. LockMatchesOps'
  BY DEF Inv, TypeOK, LockMatchesOps, GiveUp, lock!Abandon
<1>3. HolderMatchesLock'
  BY DEF Inv, TypeOK, LockMatchesOps, HolderMatchesLock, GiveUp, lock!Abandon, clientVars
<1>4. /\ \A p \in Ops : op'[p] = IF p = o THEN "timedout" ELSE op[p]
      /\ op[o] = "waiting"
      /\ UNCHANGED <<pendingInLock, last, stage, waitOn, left>>
  BY DEF Inv, TypeOK, LockMatchesOps, GiveUp, lock!Abandon, clientVars
<1>5. QueueHoldsActive' /\ LastIsPrevious'
  BY <1>1, <1>4, QueueKept DEF Active, Ended, Inv, QueueHoldsActive
<1>6. QueuedInOrder'
  BY <1>4, OrderKept DEF Active, Ended
<1>7. OnlyLeftOutside'
  BY <1>4, LeftKept DEF Active, Ended
<1> QED BY <1>1, <1>2, <1>3, <1>5, <1>6, <1>7 DEF Inv

(* An operation that ends stays in its queue until the queue is drained. *)
LEMMA EndInv == ASSUME Inv, NEW o \in Ops, End(o) PROVE Inv'
<1> USE AuthLockAssumption
<1>1. TypeOK'
  BY DEF Inv, TypeOK, End, OpState, clientVars, lockVars
<1>2. /\ \A p \in Ops : p # o => op'[p] = op[p]
      /\ op[o] = "running" /\ op'[o] \in {"fulfilled", "rejected"}
      /\ UNCHANGED <<pendingInLock, last, stage, waitOn, left>>
  BY DEF Inv, TypeOK, End, clientVars
<1>3. LockMatchesOps'
  BY <1>2 DEF Inv, LockMatchesOps, End, lockVars
<1>4. HolderMatchesLock'
  BY DEF Inv, HolderMatchesLock, End, clientVars, lockVars
<1>5. QueueHoldsActive' /\ LastIsPrevious'
  BY <1>1, <1>2, QueueKept DEF Active, Ended, Inv, QueueHoldsActive
<1>6. QueuedInOrder'
  BY <1>2, OrderKept DEF Active, Ended
<1>7. OnlyLeftOutside'
  BY <1>2, LeftKept DEF Active, Ended
<1> QED BY <1>1, <1>3, <1>4, <1>5, <1>6, <1>7 DEF Inv

(* An operation starts behind the whole queue ahead of it: its `last` has ended,
   and with it, by the order of the queue, everything before. *)
LEMMA StartQueuedInv == ASSUME Inv, NEW o \in Ops, StartQueued(o) PROVE Inv'
<1> USE AuthLockAssumption
<1>1. TypeOK'
  BY DEF Inv, TypeOK, StartQueued, OpState, clientVars, lockVars
<1>2. LockMatchesOps' /\ HolderMatchesLock'
  BY DEF Inv, TypeOK, LockMatchesOps, HolderMatchesLock, StartQueued, clientVars, lockVars
<1>4. /\ \A p \in Ops : op'[p] = IF p = o THEN "running" ELSE op[p]
      /\ op[o] = "queued"
      /\ UNCHANGED <<pendingInLock, last, stage, waitOn, left>>
  BY DEF Inv, TypeOK, StartQueued, clientVars
<1>5. QueueHoldsActive' /\ LastIsPrevious'
  BY <1>1, <1>4, QueueKept DEF Active, Ended, Inv, QueueHoldsActive
<1>6. QueuedInOrder'
  <2> SUFFICES ASSUME NEW k \in Clients, NEW i \in Positions(k), NEW j \in Positions(k), i < j,
                      NEW a, NEW q, a = pendingInLock[k][i], q = pendingInLock[k][j],
                      a \notin left, op'[q] # "queued"
               PROVE  Ended(a)'
    BY <1>4 DEF QueuedInOrder, Positions, Ended
  <2>1. a \in Ops /\ q \in Ops /\ j \in Nat /\ i \in Nat /\ Len(pendingInLock[k]) \in Nat
    BY QueueTyped DEF Positions
  <2>2. Ended(a) => Ended(a)'
    BY <1>4, <2>1 DEF Ended
  <2>3. CASE q # o
    <3>1. op[q] # "queued"
      BY <1>4, <2>1, <2>3
    <3> QED BY <2>1, <2>2, <3>1 DEF Inv, QueuedInOrder, Positions
  <2>4. CASE q = o
    <3> DEFINE b == pendingInLock[k][j - 1]
    <3>1. j - 1 \in Positions(k) /\ j > 1 /\ i <= j - 1
      BY <2>1 DEF Positions
    <3>2. last[o] = b
      BY <1>4, <2>4, <3>1 DEF Inv, LastIsPrevious
    <3>3. b \in Ops /\ b # NoOp
      BY <3>1, QueueTyped
    <3>4. Ended(b)
      BY <3>2, <3>3 DEF StartQueued
    <3>5. CASE i = j - 1
      BY <2>2, <3>4, <3>5
    <3>6. CASE i < j - 1
      <4>1. op[b] # "queued"
        BY <3>4 DEF Ended
      <4> QED BY <2>1, <2>2, <3>1, <3>6, <4>1 DEF Inv, QueuedInOrder, Positions
    <3> QED BY <2>1, <3>1, <3>5, <3>6
  <2> QED BY <2>3, <2>4
<1>7. OnlyLeftOutside'
  BY <1>4, LeftKept DEF Active, Ended
<1> QED BY <1>1, <1>2, <1>5, <1>6, <1>7 DEF Inv

(* waitOn covers the whole queue. *)
LEMMA FirstEndsInv == ASSUME Inv, NEW k \in Clients, FirstEnds(k) PROVE Inv'
<1> USE AuthLockAssumption
<1>1. TypeOK'
  BY QueueTyped DEF Inv, TypeOK, FirstEnds, Stage, opVars, lockVars
<1>2. LockMatchesOps' /\ HolderMatchesLock'
  BY DEF Inv, TypeOK, LockMatchesOps, HolderMatchesLock, FirstEnds, opVars, lockVars
<1>4. /\ \A c \in Clients : c # k => stage'[c] = stage[c] /\ waitOn'[c] = waitOn[c]
      /\ stage'[k] = "drain" /\ waitOn'[k] = Len(pendingInLock[k])
      /\ UNCHANGED <<op, pendingInLock, last, left>>
  BY DEF Inv, TypeOK, FirstEnds, opVars
<1>5. \A c \in Clients : stage'[c] = "drain" => waitOn'[c] <= Len(pendingInLock[c])
  BY <1>4, QueueTyped DEF Inv, QueueHoldsActive
<1>6. QueueHoldsActive' /\ LastIsPrevious'
  BY <1>1, <1>4, <1>5, QueueKept DEF Active, Ended
<1>7. QueuedInOrder'
  BY <1>4, OrderKept DEF Active, Ended
<1>8. OnlyLeftOutside'
  BY <1>4, LeftKept DEF Active, Ended
<1> QED BY <1>1, <1>2, <1>6, <1>7, <1>8 DEF Inv

(* What the queue still holds when the lock is given back is in left. *)
LEMMA GiveBackInv == ASSUME Inv, NEW k \in Clients, stage[k] # "none", GiveBack(k) PROVE Inv'
<1> USE AuthLockAssumption
<1>1. holder[k] \in Ops /\ ClientOf[holder[k]] = k /\ status[holder[k]] = "holding"
  BY DEF Inv, TypeOK, HolderMatchesLock
<1>2. ToSet(pendingInLock[k]) = {pendingInLock[k][i] : i \in Positions(k)}
  <2>1. pendingInLock[k] \in Seq(Ops)
    BY DEF Inv, TypeOK
  <2>2. DOMAIN pendingInLock[k] = Positions(k)
    BY <2>1 DEF Positions
  <2> QED BY <2>2 DEF ToSet
<1>3. TypeOK'
  <2>1. left' \subseteq Ops
    BY <1>2, QueueTyped DEF Inv, TypeOK, GiveBack
  <2> QED BY <1>1, <2>1 DEF Inv, TypeOK, GiveBack, lock!Release, lock!Status, Stage, opVars
<1>4. LockMatchesOps'
  BY <1>1 DEF Inv, TypeOK, LockMatchesOps, GiveBack, lock!Release, opVars
<1>5. HolderMatchesLock'
  BY <1>1 DEF Inv, TypeOK, LockMatchesOps, HolderMatchesLock, GiveBack, lock!Release, opVars
<1>6. /\ \A c \in Clients : c # k => stage'[c] = stage[c]
      /\ stage'[k] = "none"
      /\ UNCHANGED <<op, pendingInLock, last, waitOn>>
      /\ left' = left \cup {o \in ToSet(pendingInLock[k]) : ~Ended(o)}
  BY DEF Inv, TypeOK, GiveBack, opVars
<1>7. QueueHoldsActive' /\ LastIsPrevious'
  BY <1>3, <1>6, QueueKept DEF Active, Ended, Inv, QueueHoldsActive
<1>8. QueuedInOrder'
  BY <1>6, OrderKept DEF Active, Ended
<1>9. OnlyLeftOutside'
  <2>1. \A i \in Positions(k) : pendingInLock[k][i] \in ToSet(pendingInLock[k])
    BY <1>2
  <2>2. ToSet(pendingInLock[k]) \subseteq {o \in Ops : Active(o) \/ Ended(o)}
    <3> SUFFICES ASSUME NEW i \in Positions(k)
                 PROVE  pendingInLock[k][i] \in {o \in Ops : Active(o) \/ Ended(o)}
      BY <1>2
    <3> QED BY QueueTyped DEF Inv, QueueHoldsActive
  <2>3. left' \subseteq {o \in Ops : Active(o)' \/ Ended(o)'}
    BY <1>6, <2>2 DEF Inv, OnlyLeftOutside, Active, Ended
  <2>4. ASSUME NEW c \in Clients, stage'[c] = "none", NEW i \in Positions(c)
        PROVE  Ended(pendingInLock[c][i])' \/ pendingInLock[c][i] \in left'
    <3>1. CASE c = k
      BY <1>6, <2>1, <3>1 DEF Ended
    <3>2. CASE c # k
      BY <1>6, <2>4, <3>2 DEF Inv, OnlyLeftOutside, Ended
    <3> QED BY <3>1, <3>2
  <2> QED BY <1>6, <2>3, <2>4 DEF OnlyLeftOutside, Positions, Active, Ended
<1> QED BY <1>3, <1>4, <1>5, <1>7, <1>8, <1>9 DEF Inv

(* What pushing an operation that is not in any queue does to the queues. *)
LEMMA PushKeeps ==
  ASSUME Inv, NEW o \in Ops, NEW k, k = ClientOf[o],
         ~Active(o), ~Ended(o), op'[o] \in {"queued", "running"},
         \A p \in Ops : p # o => op'[p] = op[p],
         pendingInLock' = [pendingInLock EXCEPT ![k] = Append(@, o)],
         \A c \in Clients : stage'[c] = "drain" => stage[c] = "drain",
         waitOn' = waitOn
  PROVE  /\ k \in Clients
         /\ \A c \in Clients : c # k => pendingInLock'[c] = pendingInLock[c]
         /\ \A c \in Clients : \A i \in Positions(c)' : pendingInLock'[c][i] = o =>
               c = k /\ i = Len(pendingInLock[k]) + 1
         /\ \A c \in Clients : \A i \in Positions(c)' : pendingInLock'[c][i] # o =>
               /\ \A j \in 1..i : j \in Positions(c) /\ pendingInLock'[c][j] = pendingInLock[c][j]
         /\ pendingInLock' \in [Clients -> Seq(Ops)]
         /\ QueueHoldsActive'
<1>1. k \in Clients /\ pendingInLock[k] \in Seq(Ops) /\ Append(pendingInLock[k], o) \in Seq(Ops)
  BY AuthLockAssumption DEF Inv, TypeOK
<1>2. pendingInLock' \in [Clients -> Seq(Ops)]
  BY <1>1 DEF Inv, TypeOK
<1>3. \A c \in Clients : c # k => pendingInLock'[c] = pendingInLock[c]
  BY DEF Inv, TypeOK
<1>4. /\ Len(pendingInLock'[k]) = Len(pendingInLock[k]) + 1
      /\ \A i \in Positions(k) : pendingInLock'[k][i] = pendingInLock[k][i]
      /\ pendingInLock'[k][Len(pendingInLock[k]) + 1] = o
      /\ Len(pendingInLock[k]) \in Nat
  BY <1>1 DEF Inv, TypeOK, Positions
<1>5. \A c \in Clients : \A i \in Positions(c) : pendingInLock[c][i] # o
  BY DEF Inv, QueueHoldsActive
<1>6. Positions(k)' = Positions(k) \cup {Len(pendingInLock[k]) + 1}
  BY <1>4 DEF Positions
<1>7. ASSUME NEW c \in Clients, NEW i \in Positions(c)'
      PROVE  /\ pendingInLock'[c][i] = o => c = k /\ i = Len(pendingInLock[k]) + 1
             /\ pendingInLock'[c][i] # o =>
                   \A j \in 1..i : j \in Positions(c) /\ pendingInLock'[c][j] = pendingInLock[c][j]
  <2>1. Len(pendingInLock[c]) \in Nat /\ i \in Nat
    BY QueueTyped, <1>2 DEF Positions
  <2>2. CASE c = k
    BY <1>4, <1>5, <2>1, <2>2 DEF Positions
  <2>3. CASE c # k
    BY <1>3, <1>5, <2>1, <2>3 DEF Positions
  <2> QED BY <2>2, <2>3
<1>8. QueueHoldsActive'
  <2>1. ASSUME NEW p \in Ops, Active(p)'
        PROVE  \E i \in Positions(ClientOf[p])' : pendingInLock'[ClientOf[p]][i] = p
    <3>1. CASE p = o
      BY <1>4, <1>6, <3>1
    <3>2. CASE p # o
      <4>1. Active(p) /\ ClientOf[p] \in Clients
        BY <2>1, <3>2, AuthLockAssumption DEF Active
      <4>2. PICK i \in Positions(ClientOf[p]) : pendingInLock[ClientOf[p]][i] = p
        BY <4>1 DEF Inv, QueueHoldsActive
      <4>3. CASE ClientOf[p] = k
        BY <4>2, <4>3, <1>4, <1>6
      <4>4. CASE ClientOf[p] # k
        BY <4>1, <4>2, <4>4, <1>3 DEF Positions
      <4> QED BY <4>3, <4>4
    <3> QED BY <3>1, <3>2
  <2>2. ASSUME NEW c \in Clients, NEW i \in Positions(c)', NEW p, p = pendingInLock'[c][i]
        PROVE  /\ ClientOf[p] = c
               /\ Active(p)' \/ Ended(p)'
    <3>1. CASE p = o
      <4>1. c = k
        BY <1>7, <2>2, <3>1
      <4> QED BY <3>1, <4>1 DEF Active
    <3>2. CASE p # o
      <4>1. i \in Positions(c) /\ p = pendingInLock[c][i]
        BY <3>2, <1>7, <2>2 DEF Positions
      <4>2. p \in Ops /\ ClientOf[p] = c /\ (Active(p) \/ Ended(p))
        BY <4>1, QueueTyped DEF Inv, QueueHoldsActive
      <4>3. op'[p] = op[p]
        BY <3>2, <4>2
      <4> QED BY <4>2, <4>3 DEF Active, Ended
    <3> QED BY <3>1, <3>2
  <2>3. ASSUME NEW c \in Clients, NEW i \in Positions(c)', NEW j \in Positions(c)',
               pendingInLock'[c][i] = pendingInLock'[c][j]
        PROVE  i = j
    <3>1. CASE pendingInLock'[c][i] = o
      BY <1>7, <2>3, <3>1
    <3>2. CASE pendingInLock'[c][i] # o
      <4>1. i \in 1..i /\ j \in 1..j
        BY DEF Positions
      <4>2. i \in Positions(c) /\ pendingInLock'[c][i] = pendingInLock[c][i]
        BY <1>7, <3>2, <4>1
      <4>3. j \in Positions(c) /\ pendingInLock'[c][j] = pendingInLock[c][j]
        BY <1>7, <2>3, <3>2, <4>1
      <4>4. pendingInLock[c][i] = pendingInLock[c][j]
        BY <2>3, <4>2, <4>3
      <4> QED BY <4>2, <4>3, <4>4 DEF Inv, QueueHoldsActive
    <3> QED BY <3>1, <3>2
  <2>4. \A c \in Clients : stage'[c] = "drain" => waitOn'[c] <= Len(pendingInLock'[c])
    <3> SUFFICES ASSUME NEW c \in Clients, stage'[c] = "drain" PROVE waitOn[c] <= Len(pendingInLock'[c])
      OBVIOUS
    <3>1. waitOn[c] <= Len(pendingInLock[c]) /\ waitOn[c] \in Nat /\ Len(pendingInLock[c]) \in Nat
      BY QueueTyped DEF Inv, QueueHoldsActive, TypeOK
    <3>2. Len(pendingInLock[c]) <= Len(pendingInLock'[c]) /\ Len(pendingInLock'[c]) \in Nat
      BY <3>1, <1>3, <1>4
    <3> QED BY <3>1, <3>2
  <2> QED BY <2>1, <2>2, <2>3, <2>4 DEF QueueHoldsActive
<1> QED BY <1>1, <1>2, <1>3, <1>8, <1>7

(* An operation queues behind the last one. *)
LEMMA QueueInLockInv == ASSUME Inv, NEW o \in Ops, QueueInLock(o) PROVE Inv'
<1> DEFINE k == ClientOf[o]
<1> USE AuthLockAssumption
<1>1. /\ \A p \in Ops : op'[p] = IF p = o THEN "queued" ELSE op[p]
      /\ op[o] = "idle"
      /\ UNCHANGED <<stage, waitOn, left>>
      /\ stage[k] # "none"
      /\ pendingInLock' = [pendingInLock EXCEPT ![k] = Append(@, o)]
      /\ k \in Clients
  BY DEF Inv, TypeOK, HolderMatchesLock, QueueInLock, EndOfLine
<1>2. /\ \A c \in Clients : c # k => pendingInLock'[c] = pendingInLock[c]
      /\ \A c \in Clients : \A i \in Positions(c)' : pendingInLock'[c][i] = o =>
            c = k /\ i = Len(pendingInLock[k]) + 1
      /\ \A c \in Clients : \A i \in Positions(c)' : pendingInLock'[c][i] # o =>
            \A j \in 1..i : j \in Positions(c) /\ pendingInLock'[c][j] = pendingInLock[c][j]
      /\ pendingInLock' \in [Clients -> Seq(Ops)]
      /\ QueueHoldsActive'
  BY <1>1, PushKeeps DEF Active, Ended
<1>3. \A p \in Ops : p # o => last'[p] = last[p]
  BY DEF Inv, TypeOK, QueueInLock, EndOfLine
<1>4. /\ Len(pendingInLock[k]) = 0 => last'[o] = NoOp
      /\ Len(pendingInLock[k]) > 0 => last'[o] = pendingInLock[k][Len(pendingInLock[k])]
      /\ last' \in [Ops -> Ops \cup {NoOp}]
  <2>1. pendingInLock[k] \in Seq(Ops)
    BY <1>1 DEF Inv, TypeOK
  <2>2. pendingInLock[k] # <<>> => Last(pendingInLock[k]) \in Ops
    BY <2>1 DEF Last
  <2> QED BY <2>1, <2>2 DEF Inv, TypeOK, QueueInLock, EndOfLine, Last
<1>5. TypeOK'
  BY <1>2, <1>4 DEF Inv, TypeOK, QueueInLock, EndOfLine, lockVars, OpState
<1>6. LockMatchesOps' /\ HolderMatchesLock'
  BY DEF Inv, TypeOK, LockMatchesOps, HolderMatchesLock, QueueInLock, EndOfLine, lockVars
<1>7. \A p \in Ops : Ended(p)' <=> Ended(p)
  BY <1>1 DEF Ended
<1>8. LastIsPrevious'
  <2> SUFFICES ASSUME NEW c \in Clients, NEW j \in Positions(c)', NEW q, q = pendingInLock'[c][j],
                      op'[q] = "queued"
               PROVE  /\ j = 1 => last'[q] = NoOp \/ Ended(last[q])'
                      /\ j > 1 => last'[q] = pendingInLock'[c][j - 1]
    BY DEF LastIsPrevious
  <2>1. Len(pendingInLock[c]) \in Nat /\ j \in Nat /\ j >= 1
    BY <1>2, QueueTyped DEF Positions
  <2>2. CASE q = o
    <3>1. c = k /\ j = Len(pendingInLock[k]) + 1
      BY <1>2, <2>2
    <3>2. j > 1 => pendingInLock'[k][j - 1] = pendingInLock[k][j - 1]
      <4>1. ASSUME j > 1 PROVE j - 1 \in Positions(k)'
        BY <2>1, <3>1, <4>1 DEF Positions
      <4>2. ASSUME j > 1 PROVE pendingInLock'[k][j - 1] # o
        BY <1>2, <2>1, <3>1, <4>1, <4>2
      <4> QED BY <1>2, <2>1, <4>1, <4>2
    <3> QED BY <1>4, <2>1, <2>2, <3>1, <3>2
  <2>3. CASE q # o
    <3>1. j \in Positions(c) /\ q = pendingInLock[c][j]
      BY <1>2, <2>1, <2>3
    <3>2. q \in Ops /\ op[q] = "queued" /\ last'[q] = last[q] /\ last[q] \in Ops \cup {NoOp}
      <4>1. q \in Ops
        BY <3>1, QueueTyped
      <4>2. op'[q] = op[q]
        BY <1>1, <2>3, <4>1
      <4>3. last \in [Ops -> Ops \cup {NoOp}]
        BY DEF Inv, TypeOK
      <4> QED BY <1>3, <2>3, <4>1, <4>2, <4>3
    <3>3. /\ j = 1 => last[q] = NoOp \/ Ended(last[q])
          /\ j > 1 => last[q] = pendingInLock[c][j - 1]
      BY <3>1, <3>2 DEF Inv, LastIsPrevious
    <3>4. j > 1 => pendingInLock'[c][j - 1] = pendingInLock[c][j - 1]
      <4>1. \A h \in 1..j : pendingInLock'[c][h] = pendingInLock[c][h]
        BY <1>2, <2>3
      <4> QED BY <2>1, <4>1
    <3> QED BY <1>7, <3>2, <3>3, <3>4
  <2> QED BY <2>2, <2>3
<1>9. OnlyLeftOutside'
  <2>1. left' \subseteq {p \in Ops : Active(p)' \/ Ended(p)'}
    BY <1>1 DEF Inv, OnlyLeftOutside, Active, Ended
  <2>2. ASSUME NEW c \in Clients, stage'[c] = "none", NEW i \in Positions(c)'
        PROVE  Ended(pendingInLock[c][i])' \/ pendingInLock'[c][i] \in left'
    <3>1. c # k /\ pendingInLock'[c] = pendingInLock[c] /\ stage[c] = "none"
      BY <1>1, <1>2, <2>2
    <3>2. pendingInLock[c][i] \in Ops
      BY <3>1, QueueTyped DEF Positions
    <3> QED BY <1>1, <1>7, <3>1, <3>2 DEF Inv, OnlyLeftOutside, Positions
  <2> QED BY <2>1, <2>2 DEF OnlyLeftOutside
<1>10. QueuedInOrder'
  <2> SUFFICES ASSUME NEW c \in Clients, NEW i \in Positions(c)', NEW j \in Positions(c)', i < j,
                      NEW a, NEW q, a = pendingInLock'[c][i], q = pendingInLock'[c][j],
                      a \notin left, op'[q] # "queued"
               PROVE  Ended(a)'
    BY <1>1 DEF QueuedInOrder, Positions
  <2>1. i \in 1..j /\ j \in 1..j
    BY DEF Positions
  <2>2. q # o
    BY <1>1
  <2>3. j \in Positions(c) /\ q = pendingInLock[c][j]
    BY <1>2, <2>1, <2>2
  <2>4. i \in Positions(c) /\ a = pendingInLock[c][i] /\ a \in Ops /\ q \in Ops
    BY <1>2, <2>1, <2>2, <2>3, QueueTyped
  <2>5. op[q] # "queued"
    BY <1>1, <2>2, <2>4
  <2>6. Ended(a)
    BY <2>3, <2>4, <2>5 DEF Inv, QueuedInOrder, Positions
  <2> QED BY <1>7, <2>4, <2>6
<1> QED BY <1>2, <1>5, <1>6, <1>8, <1>9, <1>10 DEF Inv

(* When the lock is granted no client has it: what the queue of this client still
   holds has ended or was left there. *)
LEMMA EnterLockInv == ASSUME Inv, NEW o \in Ops, EnterLock(o) PROVE Inv'
<1> DEFINE k == ClientOf[o]
<1> USE AuthLockAssumption
<1>1. /\ k \in Clients
      /\ status[o] = "waiting" /\ op[o] = "waiting"
      /\ \A p \in Ops : status[p] # "holding"
  BY DEF Inv, LockMatchesOps, EnterLock, lock!Grant, lock!Holders
<1>2. \A c \in Clients : holder[c] = NoOp /\ stage[c] = "none"
  BY <1>1 DEF Inv, TypeOK, HolderMatchesLock
<1>3. /\ \A p \in Ops : op'[p] = IF p = o THEN "running" ELSE op[p]
      /\ UNCHANGED <<last, waitOn, left>>
      /\ \A c \in Clients : c # k => stage'[c] = stage[c]
      /\ stage'[k] = "first"
      /\ pendingInLock' = [pendingInLock EXCEPT ![k] = Append(@, o)]
  BY <1>1 DEF Inv, TypeOK, EnterLock
<1>4. /\ \A c \in Clients : c # k => pendingInLock'[c] = pendingInLock[c]
      /\ \A c \in Clients : \A i \in Positions(c)' : pendingInLock'[c][i] = o =>
            c = k /\ i = Len(pendingInLock[k]) + 1
      /\ \A c \in Clients : \A i \in Positions(c)' : pendingInLock'[c][i] # o =>
            \A j \in 1..i : j \in Positions(c) /\ pendingInLock'[c][j] = pendingInLock[c][j]
      /\ pendingInLock' \in [Clients -> Seq(Ops)]
      /\ QueueHoldsActive'
  BY <1>1, <1>3, PushKeeps DEF Active, Ended
<1>5. TypeOK'
  BY <1>1, <1>4 DEF Inv, TypeOK, EnterLock, lock!Grant, lock!Status, OpState, Stage
<1>6. LockMatchesOps'
  BY <1>1 DEF Inv, TypeOK, LockMatchesOps, EnterLock, lock!Grant
<1>7. HolderMatchesLock'
  BY <1>1, <1>2 DEF Inv, TypeOK, HolderMatchesLock, EnterLock, lock!Grant
<1>8. \A p \in Ops : Ended(p)' <=> Ended(p)
  BY <1>1, <1>3 DEF Ended
<1>9. LastIsPrevious'
  <2> SUFFICES ASSUME NEW c \in Clients, NEW j \in Positions(c)', NEW q, q = pendingInLock'[c][j],
                      op'[q] = "queued"
               PROVE  /\ j = 1 => last'[q] = NoOp \/ Ended(last[q])'
                      /\ j > 1 => last'[q] = pendingInLock'[c][j - 1]
    BY DEF LastIsPrevious
  <2>1. Len(pendingInLock[c]) \in Nat /\ j \in Nat /\ j >= 1
    BY <1>4, QueueTyped DEF Positions
  <2>2. q # o
    BY <1>3
  <2>3. j \in Positions(c) /\ q = pendingInLock[c][j]
    BY <1>4, <2>1, <2>2
  <2>4. q \in Ops
    BY <2>3, QueueTyped
  <2>5. op[q] = "queued" /\ last[q] \in Ops \cup {NoOp}
    BY <1>3, <2>2, <2>4 DEF Inv, TypeOK
  <2>6. /\ j = 1 => last[q] = NoOp \/ Ended(last[q])
        /\ j > 1 => last[q] = pendingInLock[c][j - 1]
    BY <2>3, <2>5 DEF Inv, LastIsPrevious
  <2>7. j > 1 => pendingInLock'[c][j - 1] = pendingInLock[c][j - 1]
    BY <1>4, <2>1, <2>2
  <2> QED BY <1>3, <1>8, <2>5, <2>6, <2>7
<1>10. OnlyLeftOutside'
  <2>1. left' \subseteq {p \in Ops : Active(p)' \/ Ended(p)'}
    BY <1>1, <1>3 DEF Inv, OnlyLeftOutside, Active, Ended
  <2>2. ASSUME NEW c \in Clients, stage'[c] = "none", NEW i \in Positions(c)'
        PROVE  Ended(pendingInLock[c][i])' \/ pendingInLock'[c][i] \in left'
    <3>1. c # k /\ pendingInLock'[c] = pendingInLock[c]
      BY <1>3, <1>4, <2>2
    <3>2. i \in Positions(c) /\ pendingInLock[c][i] \in Ops
      BY <3>1, QueueTyped DEF Positions
    <3> QED BY <1>2, <1>3, <1>8, <3>1, <3>2 DEF Inv, OnlyLeftOutside
  <2> QED BY <2>1, <2>2 DEF OnlyLeftOutside
<1>11. QueuedInOrder'
  <2> SUFFICES ASSUME NEW c \in Clients, NEW i \in Positions(c)', NEW j \in Positions(c)', i < j,
                      NEW a, NEW q, a = pendingInLock'[c][i], q = pendingInLock'[c][j],
                      a \notin left, op'[q] # "queued"
               PROVE  Ended(a)'
    BY <1>3 DEF QueuedInOrder, Positions
  <2>1. a # o
    <3> SUFFICES ASSUME a = o PROVE FALSE
      OBVIOUS
    <3>1. c = k /\ i = Len(pendingInLock[k]) + 1 /\ Len(pendingInLock[k]) \in Nat
      BY <1>4, QueueTyped
    <3>2. j \notin Positions(k)
      BY <3>1 DEF Positions
    <3>3. pendingInLock'[k][j] = o
      BY <1>4, <3>1, <3>2 DEF Positions
    <3> QED BY <1>4, <3>1, <3>3
  <2>2. i \in 1..i
    BY DEF Positions
  <2>3. i \in Positions(c) /\ a = pendingInLock[c][i] /\ a \in Ops
    BY <1>4, <2>1, <2>2, QueueTyped
  <2>4. Ended(a)
    BY <1>2, <1>3, <2>3 DEF Inv, OnlyLeftOutside
  <2> QED BY <1>8, <2>3, <2>4
<1> QED BY <1>4, <1>5, <1>6, <1>7, <1>9, <1>10, <1>11 DEF Inv

(* Only operations that have ended are dropped from the queue. *)
LEMMA DrainInv == ASSUME Inv, NEW k \in Clients, Drain(k) PROVE Inv'
<1> DEFINE n == waitOn[k]
<1> DEFINE rest == SubSeq(pendingInLock[k], n + 1, Len(pendingInLock[k]))
<1> USE AuthLockAssumption
<1>1. /\ pendingInLock[k] \in Seq(Ops) /\ n \in Nat /\ n <= Len(pendingInLock[k])
      /\ stage[k] = "drain"
  BY DEF Inv, TypeOK, QueueHoldsActive, Drain
<1>2. /\ rest \in Seq(Ops)
      /\ Len(rest) = Len(pendingInLock[k]) - n
      /\ \A i \in 1..Len(rest) : rest[i] = pendingInLock[k][i + n]
  BY <1>1, SpliceFacts, Zenon
<1>3. /\ pendingInLock' = [pendingInLock EXCEPT ![k] = rest]
      /\ waitOn' = [waitOn EXCEPT ![k] = Len(rest)]
      /\ \A i \in 1..n : Ended(pendingInLock[k][i])
      /\ \A c \in Clients : c # k => stage'[c] = stage[c]
      /\ stage'[k] \in {"drain", "leave"}
      /\ UNCHANGED <<status, arrival, asked, op, last, lockAcquired, holder, left>>
  BY DEF Inv, TypeOK, Drain, opVars, lockVars
<1>4. stage' \in [Clients -> Stage]
  BY DEF Inv, TypeOK, Drain, Stage
<1>5. rest \in Seq(Ops) /\ Len(rest) \in Nat /\ n \in Nat
  BY <1>1, <1>2
<1> HIDE DEF rest, n
<1>6. TypeOK'
  BY <1>5, <1>3, <1>4 DEF Inv, TypeOK
<1>7. LockMatchesOps' /\ HolderMatchesLock'
  BY <1>1, <1>3 DEF Inv, LockMatchesOps, HolderMatchesLock
<1>8. /\ pendingInLock'[k] = rest
      /\ \A c \in Clients : c # k => pendingInLock'[c] = pendingInLock[c]
  BY <1>3 DEF Inv, TypeOK
<1>9. ASSUME NEW c \in Clients, NEW i \in Positions(c)'
      PROVE  \E j \in Positions(c) : /\ pendingInLock'[c][i] = pendingInLock[c][j]
                                     /\ j = IF c = k THEN i + n ELSE i
  <2>1. CASE c # k
    BY <1>8, <2>1 DEF Positions
  <2>2. CASE c = k
    <3>1. i \in 1..Len(rest) /\ i \in Nat
      BY <1>5, <1>8, <2>2 DEF Positions
    <3>2. i + n \in Positions(k) /\ rest[i] = pendingInLock[k][i + n]
      BY <1>5, <1>1, <1>2, <3>1 DEF Positions
    <3> QED BY <1>8, <2>2, <3>2
  <2> QED BY <2>1, <2>2
<1>10. \A p : (Active(p)' <=> Active(p)) /\ (Ended(p)' <=> Ended(p))
  BY <1>3 DEF Active, Ended
<1>11. QueueHoldsActive'
  <2>1. ASSUME NEW p \in Ops, Active(p)'
        PROVE  \E i \in Positions(ClientOf[p])' : pendingInLock'[ClientOf[p]][i] = p
    <3>1. Active(p) /\ ClientOf[p] \in Clients
      BY <1>10, <2>1
    <3>2. PICK i \in Positions(ClientOf[p]) : pendingInLock[ClientOf[p]][i] = p
      BY <3>1 DEF Inv, QueueHoldsActive
    <3>3. CASE ClientOf[p] # k
      BY <1>8, <3>1, <3>2, <3>3 DEF Positions
    <3>4. CASE ClientOf[p] = k
      <4>1. i \notin 1..n
        BY <1>3, <3>1, <3>2, <3>4 DEF Active, Ended
      <4>2. i - n \in 1..Len(rest) /\ (i - n) + n = i
        BY <1>1, <1>2, <3>2, <3>4, <4>1 DEF Positions
      <4>3. rest[i - n] = p
        BY <1>2, <3>2, <3>4, <4>2
      <4> QED BY <1>8, <3>4, <4>2, <4>3 DEF Positions
    <3> QED BY <3>3, <3>4
  <2>2. ASSUME NEW c \in Clients, NEW i \in Positions(c)'
        PROVE  /\ ClientOf[pendingInLock'[c][i]] = c
               /\ Active(pendingInLock[c][i])' \/ Ended(pendingInLock[c][i])'
    <3>1. PICK j \in Positions(c) : pendingInLock'[c][i] = pendingInLock[c][j]
      BY <1>9
    <3>2. /\ ClientOf[pendingInLock[c][j]] = c
          /\ Active(pendingInLock[c][j]) \/ Ended(pendingInLock[c][j])
      BY DEF Inv, QueueHoldsActive
    <3> QED BY <1>3, <3>1, <3>2 DEF Active, Ended
  <2>3. ASSUME NEW c \in Clients, NEW i \in Positions(c)', NEW j \in Positions(c)',
               pendingInLock'[c][i] = pendingInLock'[c][j]
        PROVE  i = j
    <3>1. PICK a \in Positions(c) : /\ pendingInLock'[c][i] = pendingInLock[c][a]
                                    /\ a = IF c = k THEN i + n ELSE i
      BY <1>9
    <3>2. PICK b \in Positions(c) : /\ pendingInLock'[c][j] = pendingInLock[c][b]
                                    /\ b = IF c = k THEN j + n ELSE j
      BY <1>9
    <3>3. a = b
      BY <2>3, <3>1, <3>2 DEF Inv, QueueHoldsActive
    <3>4. i \in Nat /\ j \in Nat
      BY DEF Positions
    <3> QED BY <1>1, <3>1, <3>2, <3>3, <3>4
  <2>4. ASSUME NEW c \in Clients, stage'[c] = "drain" PROVE waitOn'[c] <= Len(pendingInLock'[c])
    <3>1. CASE c = k
      <4>1. waitOn'[k] = Len(rest)
        BY <1>3 DEF Inv, TypeOK
      <4> QED BY <1>5, <1>8, <3>1, <4>1
    <3>2. CASE c # k
      <4>1. waitOn'[c] = waitOn[c]
        BY <1>3, <3>2 DEF Inv, TypeOK
      <4> QED BY <1>3, <1>8, <2>4, <3>2, <4>1 DEF Inv, QueueHoldsActive
    <3> QED BY <3>1, <3>2
  <2> QED BY <2>1, <2>2, <2>3, <2>4 DEF QueueHoldsActive
<1>12. LastIsPrevious'
  <2> SUFFICES ASSUME NEW c \in Clients, NEW j \in Positions(c)', NEW q, q = pendingInLock'[c][j],
                      op'[q] = "queued"
               PROVE  /\ j = 1 => last'[q] = NoOp \/ Ended(last[q])'
                      /\ j > 1 => last'[q] = pendingInLock'[c][j - 1]
    BY DEF LastIsPrevious
  <2>1. PICK b \in Positions(c) : q = pendingInLock[c][b] /\ b = IF c = k THEN j + n ELSE j
    BY <1>9
  <2>2. op[q] = "queued" /\ last' = last
    BY <1>3
  <2>3. /\ b = 1 => last[q] = NoOp \/ Ended(last[q])
        /\ b > 1 => last[q] = pendingInLock[c][b - 1]
    BY <2>1, <2>2 DEF Inv, LastIsPrevious
  <2>4. j \in Nat /\ j >= 1 /\ b \in Nat /\ b >= 1
    BY DEF Positions
  <2>5. Ended(last[q])' <=> Ended(last[q])
    BY <1>3 DEF Ended
  <2>6. CASE c # k
    BY <1>8, <2>1, <2>2, <2>3, <2>5, <2>6
  <2>7. CASE c = k /\ j > 1
    <3>1. j - 1 \in 1..Len(rest) /\ b > 1 /\ b - 1 = (j - 1) + n
      BY <1>5, <1>8, <2>1, <2>4, <2>7 DEF Positions
    <3>2. rest[j - 1] = pendingInLock[k][b - 1]
      BY <1>2, <3>1
    <3> QED BY <1>8, <2>2, <2>3, <2>4, <2>7, <3>1, <3>2
  <2>8. CASE c = k /\ j = 1
    <3>0. b = n + 1
      BY <1>5, <2>1, <2>8
    <3>1. b = 1 \/ (b > 1 /\ b - 1 \in 1..n)
      BY <1>5, <3>0
    <3>2. b > 1 => Ended(last[q])
      BY <1>3, <2>3, <2>8, <3>1
    <3> QED BY <2>2, <2>3, <2>4, <2>5, <2>8, <3>1, <3>2
  <2> QED BY <2>4, <2>6, <2>7, <2>8
<1>13. OnlyLeftOutside'
  <2>1. ASSUME NEW c \in Clients, stage'[c] = "none", NEW i \in Positions(c)'
        PROVE  Ended(pendingInLock[c][i])' \/ pendingInLock'[c][i] \in left'
    <3>1. c # k /\ pendingInLock'[c] = pendingInLock[c] /\ stage[c] = "none"
      BY <1>3, <1>8, <2>1
    <3>2. i \in Positions(c)
      BY <3>1 DEF Positions
    <3> QED BY <1>3, <1>10, <3>1, <3>2 DEF Inv, OnlyLeftOutside, Ended
  <2>2. left' \subseteq {p \in Ops : Active(p)' \/ Ended(p)'}
    BY <1>3, <1>10 DEF Inv, OnlyLeftOutside
  <2> QED BY <2>1, <2>2 DEF OnlyLeftOutside
<1>14. QueuedInOrder'
  <2> SUFFICES ASSUME NEW c \in Clients, NEW i \in Positions(c)', NEW j \in Positions(c)', i < j,
                      NEW a, NEW q, a = pendingInLock'[c][i], q = pendingInLock'[c][j],
                      a \notin left, op'[q] # "queued"
               PROVE  Ended(a)'
    BY <1>3 DEF QueuedInOrder, Positions
  <2>1. PICK u \in Positions(c) : a = pendingInLock[c][u] /\ u = IF c = k THEN i + n ELSE i
    BY <1>9
  <2>2. PICK v \in Positions(c) : q = pendingInLock[c][v] /\ v = IF c = k THEN j + n ELSE j
    BY <1>9
  <2>3. u < v
    BY <1>1, <2>1, <2>2 DEF Positions
  <2>4. Ended(a)
    BY <1>3, <2>1, <2>2, <2>3 DEF Inv, QueuedInOrder, Positions
  <2> QED BY <1>10, <2>4
<1> QED BY <1>6, <1>7, <1>11, <1>12, <1>13, <1>14 DEF Inv

(* Every step keeps the invariant. *)
LEMMA NextInv == Inv /\ [Next]_vars => Inv'
<1> SUFFICES ASSUME Inv, [Next]_vars PROVE Inv'
  OBVIOUS
<1>1. ASSUME NEW o \in Ops,
             AskForLock(o) \/ QueueInLock(o) \/ EnterLock(o) \/ GiveUp(o) \/ StartQueued(o) \/ End(o)
      PROVE  Inv'
  BY <1>1, AskForLockInv, QueueInLockInv, EnterLockInv, GiveUpInv, StartQueuedInv, EndInv
<1>2. ASSUME NEW k \in Clients, FirstEnds(k) \/ Drain(k) PROVE Inv'
  BY <1>2, FirstEndsInv, DrainInv
<1>3. ASSUME NEW k \in Clients, FirstFails(k) \/ Leave(k) PROVE Inv'
  <2>1. stage[k] # "none" /\ GiveBack(k)
    BY <1>3 DEF FirstFails, Leave
  <2> QED BY <2>1, GiveBackInv
<1>4. CASE UNCHANGED vars
  BY <1>4 DEF vars, lockVars, opVars, clientVars, Inv, TypeOK, LockMatchesOps, HolderMatchesLock,
     QueueHoldsActive, LastIsPrevious, OnlyLeftOutside, QueuedInOrder, Active, Ended, Positions
<1> QED BY <1>1, <1>2, <1>3, <1>4 DEF Next

(* The invariant holds in every reachable state. *)
THEOREM Invariance == Spec => []Inv
BY InitInv, NextInv, PTL DEF Spec

(* TypeOK holds in every reachable state, for all operations and clients. *)
THEOREM TypeCorrect == Spec => []TypeOK
<1>1. Inv => TypeOK
  BY DEF Inv
<1> QED BY Invariance, <1>1, PTL

(* QueuedInOrder: no operation of a client overtakes another in pendingInLock,
   however often the queue is drained, left or joined. *)
THEOREM InOrder == Spec => []QueuedInOrder
<1>1. Inv => QueuedInOrder
  BY DEF Inv
<1> QED BY Invariance, <1>1, PTL

(* LockAcquiredMeansHeld: the flag by which _acquireLock decides to queue an
   operation instead of asking for the lock never disagrees with the lock. *)
THEOREM FlagIsRight == Spec => []LockAcquiredMeansHeld
<1>1. Inv => LockAcquiredMeansHeld
  <2> SUFFICES ASSUME Inv, NEW k \in Clients
               PROVE  lockAcquired[k] <=> \E o \in Ops : ClientOf[o] = k /\ status[o] = "holding"
    BY DEF LockAcquiredMeansHeld
  <2>1. holder[k] = NoOp <=> ~lockAcquired[k]
    BY DEF Inv, HolderMatchesLock
  <2>2. holder[k] # NoOp =>
           holder[k] \in Ops /\ ClientOf[holder[k]] = k /\ status[holder[k]] = "holding"
    BY DEF Inv, TypeOK, HolderMatchesLock
  <2>3. \A o \in Ops : ClientOf[o] = k /\ status[o] = "holding" => holder[k] = o
    BY DEF Inv, HolderMatchesLock
  <2> QED BY <2>1, <2>2, <2>3, AuthLockAssumption
<1> QED BY Invariance, <1>1, PTL

(* OneAtATimeUnlessLeft: of all the clients of a storage key one operation is
   in progress at a time, but for operations that were still queued when the
   callback of their client gave the lock back.  Two operations of one client
   stand in one queue; two of different clients need two holders. *)
THEOREM OneAtATime == Spec => []OneAtATimeUnlessLeft
<1>1. Inv => OneAtATimeUnlessLeft
  <2> SUFFICES ASSUME Inv, NEW o \in Ops \ left, NEW p \in Ops \ left,
                      op[o] = "running", op[p] = "running", o # p
               PROVE  FALSE
    BY DEF OneAtATimeUnlessLeft
  <2> DEFINE k == ClientOf[o]
  <2>1. PICK i \in Positions(k) : pendingInLock[k][i] = o
    BY DEF Inv, QueueHoldsActive, Active
  <2>2. PICK j \in Positions(ClientOf[p]) : pendingInLock[ClientOf[p]][j] = p
    BY DEF Inv, QueueHoldsActive, Active
  <2>3. CASE ClientOf[p] = k
    <3>1. i # j /\ i \in Nat /\ j \in Nat /\ k \in Clients
      BY <2>1, <2>2, <2>3, AuthLockAssumption DEF Positions
    <3>2. CASE i < j
      BY <2>1, <2>2, <2>3, <3>1, <3>2 DEF Inv, QueuedInOrder, Positions, Ended
    <3>3. CASE j < i
      BY <2>1, <2>2, <2>3, <3>1, <3>3 DEF Inv, QueuedInOrder, Positions, Ended
    <3> QED BY <3>1, <3>2, <3>3
  <2>4. CASE ClientOf[p] # k
    <3>1. k \in Clients /\ ClientOf[p] \in Clients
      BY AuthLockAssumption
    <3>2. stage[k] # "none" /\ stage[ClientOf[p]] # "none"
      BY <2>1, <2>2, <3>1 DEF Inv, OnlyLeftOutside, Ended
    <3>3. /\ holder[k] \in Ops /\ ClientOf[holder[k]] = k /\ status[holder[k]] = "holding"
          /\ holder[ClientOf[p]] \in Ops /\ ClientOf[holder[ClientOf[p]]] = ClientOf[p]
          /\ status[holder[ClientOf[p]]] = "holding"
      BY <3>1, <3>2 DEF Inv, TypeOK, HolderMatchesLock
    <3> QED BY <2>4, <3>3 DEF Inv, LockMatchesOps
  <2> QED BY <2>3, <2>4
<1> QED BY Invariance, <1>1, PTL
=============================================================================
