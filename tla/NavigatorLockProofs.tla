------------------------ MODULE NavigatorLockProofs ------------------------
(***************************************************************************)
(* Proofs about NavigatorLock, for every set of pages: the lock is         *)
(* exclusive and implements ExclusiveLock.  The invariant says that the    *)
(* manager's queue holds the unanswered requests in the order in which     *)
(* they came, however many were dropped from its middle.                   *)
(***************************************************************************)
EXTENDS NavigatorLock, SequenceTheorems, TLAPS

\* No request has a rank that was not given out yet.
Ranked == \A c \in Calls : arrival[c] <= asked

\* The queue is in the order of arrival.
InOrder ==
    \A i, j \in 1..Len(queue) : i < j => arrival[queue[i]] < arrival[queue[j]]

\* Two calls never run under the lock together.
MutualExclusion ==
    \A c, d \in Calls : call[c] = "running" /\ call[d] = "running" => c = d

Inv ==
    /\ TypeOK
    /\ Ranked
    /\ InOrder
    /\ MutualExclusion
-----------------------------------------------------------------------------
(* Which values a sequence holds, and when it holds none twice, by index. *)
LEMMA InjectiveSeq ==
  ASSUME NEW S, NEW s \in Seq(S)
  PROVE  IsInjective(s) <=> \A i, j \in 1..Len(s) : s[i] = s[j] => i = j
<1>1. DOMAIN s = 1..Len(s)
  BY LenProperties
<1> QED BY <1>1, Zenon DEF IsInjective

LEMMA ToSetSeq ==
  ASSUME NEW S, NEW s \in Seq(S)
  PROVE  \A v : v \in ToSet(s) <=> \E i \in 1..Len(s) : v = s[i]
<1>1. DOMAIN s = 1..Len(s)
  BY LenProperties
<1> QED BY <1>1, Zenon DEF ToSet

(* Dropping a value from a queue that holds it once leaves the others, in
   the order they had. *)
LEMMA RemoveFirstProperties ==
  ASSUME NEW S, NEW s \in Seq(S), IsInjective(s), NEW e,
         NEW r, r = RemoveFirst(s, e)
  PROVE  /\ r \in Seq(S)
         /\ IsInjective(r)
         /\ ToSet(r) = ToSet(s) \ {e}
         /\ \A i, j \in 1..Len(r) : i < j =>
               \E k, l \in 1..Len(s) : k < l /\ s[k] = r[i] /\ s[l] = r[j]
<1>1. /\ Len(s) \in Nat
      /\ DOMAIN s = 1..Len(s)
  BY LenProperties
<1>2. CASE ~ \E i \in 1..Len(s) : s[i] = e
  BY <1>1, <1>2 DEF RemoveFirst, ToSet
<1>3. CASE \E i \in 1..Len(s) : s[i] = e
  <2>1. PICK m \in 1..Len(s) : s[m] = e
    BY <1>3
  <2>2. {i \in 1..Len(s) : s[i] = e} = {m}
    BY <1>1, <2>1 DEF IsInjective
  <2>3. Min({m}) = m
    BY <2>1, <1>1 DEF Min
  <2>4. SelectInSeq(s, LAMBDA v : v = e) = m
    BY <2>2, <2>3 DEF SelectInSeq
  <2>5. r = SubSeq(s, 1, m - 1) \o SubSeq(s, m + 1, Len(s))
    BY <1>3, <2>4 DEF RemoveFirst, RemoveAt
  <2> DEFINE a == SubSeq(s, 1, m - 1)
             b == SubSeq(s, m + 1, Len(s))
  <2>6. /\ a \in Seq(S) /\ Len(a) = m - 1
        /\ \A i \in 1..(m - 1) : a[i] = s[i]
    <3>1. \A i \in 1..(m - 1) : s[i] \in S
      BY <1>1, <2>1, ElementOfSeq
    <3> QED BY <1>1, <2>1, <3>1, SubSeqProperties
  <2>7. /\ b \in Seq(S) /\ Len(b) = Len(s) - m
        /\ \A i \in 1..(Len(s) - m) : b[i] = s[m + i]
    <3>1. \A i \in (m + 1)..Len(s) : s[i] \in S
      BY <1>1, <2>1, ElementOfSeq
    <3> HIDE DEF b
    <3>2. /\ b \in Seq(S)
          /\ Len(b) = IF m + 1 <= Len(s) THEN Len(s) - (m + 1) + 1 ELSE 0
          /\ \A i \in 1..(Len(s) - (m + 1) + 1) : b[i] = s[m + 1 + i - 1]
      BY <1>1, <2>1, <3>1, SubSeqProperties DEF b
    <3>3. Len(b) = IF m + 1 <= Len(s) THEN Len(s) - (m + 1) + 1 ELSE 0
      BY <3>2
    <3>4. Len(b) = Len(s) - m
      <4> DEFINE n == Len(s)
      <4> HIDE DEF n
      <4>1. n \in Nat /\ m \in 1..n /\ Len(b) = IF m + 1 <= n THEN n - (m + 1) + 1 ELSE 0
        BY <1>1, <2>1, <3>3 DEF n
      <4>2. Len(b) = n - m
        BY <4>1
      <4> QED BY <4>2 DEF n
    <3>5. \A i \in 1..(Len(s) - m) : i \in 1..(Len(s) - (m + 1) + 1) /\ m + 1 + i - 1 = m + i
      BY <1>1, <2>1
    <3> QED BY <3>2, <3>4, <3>5
  <2> HIDE DEF a, b
  <2>8. r = a \o b
    BY <2>5 DEF a, b
  <2>9. /\ r \in Seq(S)
        /\ Len(r) = Len(s) - 1
        /\ \A i \in 1..(Len(s) - 1) : r[i] = IF i < m THEN s[i] ELSE s[i + 1]
    <3>1. /\ r \in Seq(S)
          /\ Len(r) = Len(a) + Len(b)
          /\ \A i \in 1..(Len(a) + Len(b)) :
                r[i] = IF i <= Len(a) THEN a[i] ELSE b[i - Len(a)]
      <4>1. a \in Seq(S) /\ b \in Seq(S)
        BY <2>6, <2>7
      <4> QED BY <2>8, <4>1, ConcatProperties, Zenon
    <3>2. Len(a) + Len(b) = Len(s) - 1
      BY <1>1, <2>1, <2>6, <2>7
    <3>3. ASSUME NEW i \in 1..(Len(s) - 1)
          PROVE  r[i] = IF i < m THEN s[i] ELSE s[i + 1]
      <4>1. CASE i < m
        <5>1. i \in 1..(m - 1) /\ i <= Len(a)
          BY <4>1, <1>1, <2>1, <2>6
        <5> QED BY <4>1, <5>1, <2>6, <3>1, <3>2
      <4>2. CASE ~(i < m)
        <5>1. i - Len(a) \in 1..(Len(s) - m) /\ ~(i <= Len(a)) /\ m + (i - Len(a)) = i + 1
          BY <4>2, <1>1, <2>1, <2>6
        <5> QED BY <4>2, <5>1, <2>7, <3>1, <3>2
      <4> QED BY <4>1, <4>2
    <3> QED BY <3>1, <3>2, <3>3
  <2>10. DOMAIN r = 1..(Len(s) - 1)
    BY <2>9, LenProperties
  <2> DEFINE at(i) == IF i < m THEN i ELSE i + 1
  <2>11. \A i \in 1..(Len(s) - 1) : at(i) \in 1..Len(s) /\ at(i) # m /\ r[i] = s[at(i)]
    BY <1>1, <2>1, <2>9
  <2>12. \A i, j \in 1..(Len(s) - 1) : i < j => at(i) < at(j)
    BY <1>1, <2>1
  <2>13. \A k \in 1..Len(s) : k # m => \E i \in 1..(Len(s) - 1) : at(i) = k
    <3> SUFFICES ASSUME NEW k \in 1..Len(s), k # m
                 PROVE  \E i \in 1..(Len(s) - 1) : at(i) = k
      OBVIOUS
    <3>1. CASE k < m
      <4>1. k \in 1..(Len(s) - 1) /\ at(k) = k
        BY <3>1, <1>1, <2>1
      <4> QED BY <4>1
    <3>2. CASE k > m
      <4>1. k - 1 \in 1..(Len(s) - 1) /\ at(k - 1) = k
        BY <3>2, <1>1, <2>1
      <4> QED BY <4>1
    <3> QED BY <3>1, <3>2, <1>1, <2>1
  <2>14. IsInjective(r)
    <3> SUFFICES ASSUME NEW i \in 1..(Len(s) - 1), NEW j \in 1..(Len(s) - 1), r[i] = r[j]
                 PROVE  i = j
      BY <2>10 DEF IsInjective
    <3>1. at(i) = at(j)
      BY <1>1, <2>11 DEF IsInjective
    <3> QED BY <3>1, <1>1, <2>1
  <2> HIDE DEF at
  <2>15. ToSet(r) = ToSet(s) \ {e}
    <3>1. ToSet(r) = {r[i] : i \in 1..(Len(s) - 1)} /\ ToSet(s) = {s[i] : i \in 1..Len(s)}
      BY <1>1, <2>10 DEF ToSet
    <3>2. \A i \in 1..Len(s) : s[i] = e <=> i = m
      BY <1>1, <2>1 DEF IsInjective
    <3>3. \A i \in 1..(Len(s) - 1) : r[i] \in ToSet(s) \ {e}
      BY <2>11, <3>1, <3>2
    <3>4. ASSUME NEW v \in ToSet(s) \ {e} PROVE v \in ToSet(r)
      <4>1. PICK k \in 1..Len(s) : v = s[k]
        BY <3>1
      <4>2. PICK i \in 1..(Len(s) - 1) : at(i) = k
        BY <4>1, <2>1, <2>13
      <4> QED BY <4>1, <4>2, <2>11, <3>1
    <3> QED BY <3>1, <3>3, <3>4
  <2>16. \A i, j \in 1..Len(r) : i < j =>
            \E k, l \in 1..Len(s) : k < l /\ s[k] = r[i] /\ s[l] = r[j]
    <3> SUFFICES ASSUME NEW i \in 1..Len(r), NEW j \in 1..Len(r), i < j
                 PROVE  \E k, l \in 1..Len(s) : k < l /\ s[k] = r[i] /\ s[l] = r[j]
      OBVIOUS
    <3>1. i \in 1..(Len(s) - 1) /\ j \in 1..(Len(s) - 1)
      BY <2>9
    <3>2. at(i) \in 1..Len(s) /\ at(j) \in 1..Len(s) /\ at(i) < at(j)
      BY <2>11, <2>12, <3>1
    <3>3. s[at(i)] = r[i] /\ s[at(j)] = r[j]
      BY <2>11, <3>1
    <3> QED BY <3>2, <3>3
  <2> QED BY <2>9, <2>14, <2>15, <2>16
<1> QED BY <1>2, <1>3

(* Before any page asks. *)
LEMMA InitInv == Init => Inv
<1> SUFFICES ASSUME Init PROVE Inv
  OBVIOUS
<1>1. queue \in Seq(Calls) /\ Len(queue) = 0 /\ DOMAIN queue = {}
  BY EmptySeq DEF Init
<1> QED BY <1>1 DEF Init, Inv, TypeOK, CallState, IsInjective, ToSet, Ranked, InOrder, MutualExclusion

(* A call that leaves the queue for something else than the lock. *)
LEMMA DropInv ==
  ASSUME Inv, NEW c \in Calls, NEW o \in CallState \ {"requested", "running"},
         call' = [call EXCEPT ![c] = o], queue' = RemoveFirst(queue, c),
         UNCHANGED <<arrival, asked>>
  PROVE  Inv'
<1> USE DEF Inv
<1>1. /\ queue' \in Seq(Calls)
      /\ IsInjective(queue')
      /\ ToSet(queue') = ToSet(queue) \ {c}
      /\ \A i, j \in 1..Len(queue') : i < j =>
            \E k, l \in 1..Len(queue) : k < l /\ queue[k] = queue'[i] /\ queue[l] = queue'[j]
  <2> HIDE DEF Inv
  <2> DEFINE r == queue'
  <2>1. queue \in Seq(Calls) /\ IsInjective(queue) /\ r = RemoveFirst(queue, c)
    BY DEF Inv, TypeOK
  <2> HIDE DEF r
  <2>2. /\ r \in Seq(Calls)
        /\ IsInjective(r)
        /\ ToSet(r) = ToSet(queue) \ {c}
        /\ \A i, j \in 1..Len(r) : i < j =>
              \E k, l \in 1..Len(queue) : k < l /\ queue[k] = r[i] /\ queue[l] = r[j]
    BY <2>1, RemoveFirstProperties
  <2> QED BY <2>2 DEF r
<1>2. call' \in [Calls -> CallState] /\ arrival' \in [Calls -> Nat] /\ asked' \in Nat
  BY DEF TypeOK
<1>3. ToSet(queue') = {d \in Calls : call'[d] = "requested"}
  BY <1>1 DEF TypeOK
<1>4. TypeOK'
  BY <1>1, <1>2, <1>3 DEF TypeOK
<1>5. Ranked'
  BY DEF Ranked
<1>6. InOrder'
  BY <1>1 DEF InOrder
<1>7. MutualExclusion'
  BY DEF MutualExclusion, TypeOK
<1> QED BY <1>4, <1>5, <1>6, <1>7

(* A request goes to the end of the queue and gets the next rank. *)
LEMMA RequestInv == ASSUME Inv, NEW c \in Calls, Request(c) PROVE Inv'
<1> USE DEF Inv
<1>1. /\ queue' \in Seq(Calls)
      /\ Len(queue) \in Nat
      /\ Len(queue') = Len(queue) + 1
      /\ DOMAIN queue = 1..Len(queue)
      /\ DOMAIN queue' = 1..Len(queue')
      /\ \A i \in 1..Len(queue) : queue'[i] = queue[i]
      /\ queue'[Len(queue) + 1] = c
  BY AppendProperties, LenProperties DEF TypeOK, Request
<1>2. \A i \in 1..Len(queue) : queue[i] \in Calls /\ queue[i] # c /\ call[queue[i]] = "requested"
  <2>1. \A i \in 1..Len(queue) : queue[i] \in ToSet(queue)
    BY <1>1 DEF ToSet
  <2> QED BY <2>1 DEF TypeOK, Request
<1>3. ToSet(queue') = ToSet(queue) \cup {c}
  BY <1>1 DEF ToSet
<1>4. IsInjective(queue')
  <2>1. \A i, j \in 1..Len(queue) : queue[i] = queue[j] => i = j
    BY InjectiveSeq DEF TypeOK
  <2>2. \A i, j \in 1..Len(queue') : queue'[i] = queue'[j] => i = j
    BY <1>1, <1>2, <2>1
  <2> QED BY <1>1, <2>2, InjectiveSeq, Zenon
<1>5. call' \in [Calls -> CallState] /\ arrival' \in [Calls -> Nat] /\ asked' \in Nat
  BY DEF TypeOK, Request, CallState
<1>6. ToSet(queue') = {d \in Calls : call'[d] = "requested"}
  BY <1>3 DEF TypeOK, Request
<1>7. TypeOK'
  BY <1>1, <1>4, <1>5, <1>6 DEF TypeOK
<1>8. Ranked'
  BY DEF Ranked, TypeOK, Request
<1>9. InOrder'
  <2>1. \A i \in 1..Len(queue) : arrival'[queue[i]] = arrival[queue[i]] /\ arrival[queue[i]] < asked + 1
    BY <1>2 DEF Request, TypeOK, Ranked
  <2>2. arrival'[c] = asked + 1
    BY DEF Request, TypeOK
  <2> QED BY <1>1, <2>1, <2>2 DEF InOrder
<1>10. MutualExclusion'
  BY DEF MutualExclusion, TypeOK, Request
<1> QED BY <1>7, <1>8, <1>9, <1>10

(* The head of the queue gets the lock: nobody had it. *)
LEMMA GrantedInv == ASSUME Inv, NEW c \in Calls, Granted(c) PROVE Inv'
<1> USE DEF Inv
<1>1. /\ Len(queue) \in Nat
      /\ Len(queue) >= 1
      /\ DOMAIN queue = 1..Len(queue)
      /\ queue[1] = c
      /\ queue' \in Seq(Calls)
      /\ Len(queue') = Len(queue) - 1
      /\ DOMAIN queue' = 1..Len(queue')
      /\ \A i \in 1..Len(queue') : queue'[i] = queue[i + 1]
  BY EmptySeq, HeadTailProperties, LenProperties DEF TypeOK, Granted
<1>2. IsInjective(queue')
  <2>1. \A i, j \in 1..Len(queue) : queue[i] = queue[j] => i = j
    BY InjectiveSeq DEF TypeOK
  <2>2. \A i, j \in 1..Len(queue') : queue'[i] = queue'[j] => i = j
    BY <1>1, <2>1
  <2> QED BY <1>1, <2>2, InjectiveSeq, Zenon
<1>3. ToSet(queue') = ToSet(queue) \ {c}
  <2>1. \A v : v \in ToSet(queue) <=> \E i \in 1..Len(queue) : v = queue[i]
    BY ToSetSeq DEF TypeOK
  <2>2. \A v : v \in ToSet(queue') <=> \E i \in 1..Len(queue') : v = queue'[i]
    BY <1>1, ToSetSeq
  <2>3. \A i, j \in 1..Len(queue) : queue[i] = queue[j] => i = j
    BY InjectiveSeq DEF TypeOK
  <2>4. \A i \in 1..Len(queue') : i + 1 \in 1..Len(queue) /\ queue'[i] = queue[i + 1] /\ queue'[i] # c
    BY <1>1, <2>3
  <2>5. \A i \in 1..Len(queue) : queue[i] # c => i - 1 \in 1..Len(queue') /\ queue'[i - 1] = queue[i]
    BY <1>1
  <2> QED BY <2>1, <2>2, <2>4, <2>5
<1>4. call[c] = "requested"
  <2>1. c \in ToSet(queue)
    BY <1>1 DEF ToSet
  <2> QED BY <2>1 DEF TypeOK
<1>5. call' \in [Calls -> CallState] /\ arrival' \in [Calls -> Nat] /\ asked' \in Nat
  BY DEF TypeOK, Granted, CallState
<1>6. ToSet(queue') = {d \in Calls : call'[d] = "requested"}
  BY <1>3 DEF TypeOK, Granted
<1>7. TypeOK'
  BY <1>1, <1>2, <1>5, <1>6 DEF TypeOK
<1>8. Ranked'
  BY DEF Ranked, Granted
<1>9. InOrder'
  BY <1>1 DEF InOrder, Granted
<1>10. MutualExclusion'
  BY DEF MutualExclusion, TypeOK, Granted, Free
<1> QED BY <1>7, <1>8, <1>9, <1>10

(* The end of fn. *)
LEMMA FinishInv == ASSUME Inv, NEW c \in Calls, Finish(c) PROVE Inv'
<1> USE DEF Inv
<1>1. call' \in [Calls -> CallState] /\ {d \in Calls : call'[d] = "requested"} = {d \in Calls : call[d] = "requested"}
  BY DEF TypeOK, Finish, CallState
<1> QED BY <1>1 DEF Finish, TypeOK, Ranked, InOrder, MutualExclusion

(* A call that runs is not in the queue, so a page that goes away while it
   runs takes nothing from it. *)
LEMMA PageGoneInv == ASSUME Inv, NEW c \in Calls, PageGone(c) PROVE Inv'
  BY DropInv DEF PageGone, CallState

(* Every step keeps the invariant. *)
LEMMA NextInv == Inv /\ [Next]_vars => Inv'
<1> SUFFICES ASSUME Inv, [Next]_vars PROVE Inv'
  OBVIOUS
<1>1. ASSUME NEW c \in Calls, Refused(c) PROVE Inv'
  BY <1>1, DropInv DEF Refused, CallState
<1>2. ASSUME NEW c \in Calls, NullLock(c) PROVE Inv'
  BY <1>2, DropInv DEF NullLock, CallState
<1>3. ASSUME NEW c \in Calls, Abort(c) PROVE Inv'
  BY <1>3, DropInv DEF Abort, CallState
<1>4. CASE UNCHANGED vars
  BY <1>4 DEF vars, Inv, TypeOK, Ranked, InOrder, MutualExclusion
<1> QED
  BY <1>1, <1>2, <1>3, <1>4, RequestInv, GrantedInv, FinishInv, PageGoneInv DEF Next
-----------------------------------------------------------------------------
(* The queue of the manager holds exactly the calls that wait for an answer,
   each of them once. *)
THEOREM Typed == Spec => []TypeOK
<1>1. Inv => TypeOK
  BY DEF Inv
<1> QED BY <1>1, InitInv, NextInv, PTL DEF Spec

(* Two pages never run an operation under the lock at the same time. *)
THEOREM Exclusive == Spec => []MutualExclusion
<1>1. Inv => MutualExclusion
  BY DEF Inv
<1> QED BY <1>1, InitInv, NextInv, PTL DEF Spec
-----------------------------------------------------------------------------
(* The refinement mapping takes initial states to initial states. *)
LEMMA InitRefines == Init => Lock!Init
  BY DEF Init, Lock!Init, AbstractStatus

(* The call at the head of the queue has waited longest. *)
LEMMA HeadFirst ==
  ASSUME Inv, NEW c \in Calls, Granted(c), NEW d \in Calls, call[d] = "requested"
  PROVE  call[c] = "requested" /\ arrival[c] <= arrival[d]
<1> USE DEF Inv
<1>1. /\ Len(queue) \in Nat
      /\ Len(queue) >= 1
      /\ DOMAIN queue = 1..Len(queue)
      /\ queue[1] = c
  BY EmptySeq, LenProperties DEF TypeOK, Granted
<1>2. c \in ToSet(queue) /\ d \in ToSet(queue)
  BY <1>1 DEF ToSet, TypeOK
<1>3. PICK k \in 1..Len(queue) : queue[k] = d
  BY <1>1, <1>2 DEF ToSet
<1>4. k = 1 \/ arrival[queue[1]] < arrival[queue[k]]
  BY <1>1 DEF InOrder
<1> QED BY <1>1, <1>2, <1>3, <1>4 DEF TypeOK

(* Each step of the manager is a step of the abstract lock, or leaves it
   alone: when a call ends that ran without the lock. *)
LEMMA NextRefines == Inv /\ [Next]_vars => [Lock!Next]_(Lock!lockVars)
<1> SUFFICES ASSUME Inv, [Next]_vars PROVE [Lock!Next]_(Lock!lockVars)
  OBVIOUS
<1> USE DEF Inv, TypeOK, CallState
<1>1. ASSUME NEW c \in Calls, Request(c) PROVE Lock!Request(c)
  BY <1>1 DEF Request, Lock!Request, AbstractStatus
<1>2. ASSUME NEW c \in Calls, Granted(c) PROVE Lock!Grant(c)
  <2>1. call[c] = "requested"
    <3>1. Len(queue) \in Nat /\ Len(queue) >= 1 /\ DOMAIN queue = 1..Len(queue) /\ queue[1] = c
      BY <1>2, EmptySeq, LenProperties DEF Granted
    <3> QED BY <3>1 DEF ToSet
  <2>2. \A d \in Calls : AbstractStatus[d] = "waiting" => arrival[c] <= arrival[d]
    <3> SUFFICES ASSUME NEW d \in Calls, AbstractStatus[d] = "waiting"
                 PROVE  arrival[c] <= arrival[d]
      OBVIOUS
    <3>1. call[d] = "requested"
      BY DEF AbstractStatus
    <3> QED BY <1>2, <3>1, HeadFirst
  <2>3. Lock!Holders = {}
    BY <1>2 DEF Lock!Holders, AbstractStatus, Granted, Free
  <2>4. AbstractStatus[c] = "waiting"
    BY <2>1 DEF AbstractStatus
  <2>5. AbstractStatus' = [AbstractStatus EXCEPT ![c] = "holding"]
    BY <1>2 DEF Granted, AbstractStatus
  <2> QED BY <1>2, <2>2, <2>3, <2>4, <2>5 DEF Granted, Lock!Grant
<1>3. ASSUME NEW c \in Calls, Refused(c) PROVE Lock!Abandon(c)
  BY <1>3 DEF Refused, Lock!Abandon, AbstractStatus
<1>4. ASSUME NEW c \in Calls, NullLock(c) PROVE Lock!Abandon(c)
  BY <1>4 DEF NullLock, Lock!Abandon, AbstractStatus
<1>5. ASSUME NEW c \in Calls, Abort(c) PROVE Lock!Abandon(c)
  BY <1>5 DEF Abort, Lock!Abandon, AbstractStatus
<1>6. ASSUME NEW c \in Calls, Finish(c) PROVE Lock!Release(c) \/ UNCHANGED Lock!lockVars
  <2>1. CASE call[c] = "running"
    BY <1>6, <2>1 DEF Finish, Lock!Release, AbstractStatus
  <2>2. CASE call[c] = "unlocked"
    BY <1>6, <2>2 DEF Finish, Lock!lockVars, AbstractStatus
  <2> QED BY <1>6, <2>1, <2>2 DEF Finish
<1>7. ASSUME NEW c \in Calls, PageGone(c)
      PROVE  Lock!Abandon(c) \/ Lock!Release(c) \/ UNCHANGED Lock!lockVars
  <2>1. CASE call[c] = "requested"
    BY <1>7, <2>1 DEF PageGone, Lock!Abandon, AbstractStatus
  <2>2. CASE call[c] = "running"
    BY <1>7, <2>2 DEF PageGone, Lock!Release, AbstractStatus
  <2>3. CASE call[c] = "unlocked"
    BY <1>7, <2>3 DEF PageGone, Lock!lockVars, AbstractStatus
  <2> QED BY <1>7, <2>1, <2>2, <2>3 DEF PageGone
<1>8. CASE UNCHANGED vars
  BY <1>8 DEF vars, Lock!lockVars, AbstractStatus
<1> QED
  BY <1>1, <1>2, <1>3, <1>4, <1>5, <1>6, <1>7, <1>8 DEF Next, Lock!Next

(* navigatorLock implements ExclusiveLock: pages get the lock one at a time,
   in the order in which the manager heard them, and one that was refused,
   aborted or closed never gets it. *)
THEOREM Refinement == Spec => LockSpec
<1>1. Spec => []Inv
  BY InitInv, NextInv, PTL DEF Spec
<1> QED BY <1>1, InitRefines, NextRefines, PTL DEF Spec, LockSpec, Lock!Spec
=============================================================================
