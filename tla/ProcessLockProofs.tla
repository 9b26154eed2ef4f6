------------------------- MODULE ProcessLockProofs -------------------------
(***************************************************************************)
(* Proofs about ProcessLock, for every set of calls: the lock is exclusive *)
(* and implements ExclusiveLock.  The invariant says what the chain of     *)
(* promises looks like: previous[c] is the call made just before c, and an *)
(* operation runs only once every entry ahead of it has settled.           *)
(***************************************************************************)
EXTENDS ProcessLock, WellFoundedInduction, TLAPS

Made(c) == operation[c] # "idle"

\* The calls are numbered as they are made, without gaps.
Numbered ==
    /\ \A c \in Calls : Made(c) <=> arrival[c] \in 1..asked
    /\ \A c \in Calls : ~Made(c) => arrival[c] = 0
    /\ \A c, d \in Calls : Made(c) /\ arrival[c] = arrival[d] => c = d

\* The chain links each call to the one numbered just before it.
Chained ==
    /\ tail = NoCall <=> asked = 0
    /\ tail # NoCall => Made(tail) /\ arrival[tail] = asked
    /\ \A c \in Calls : Made(c) =>
          IF previous[c] = NoCall
            THEN arrival[c] = 1
            ELSE Made(previous[c]) /\ arrival[previous[c]] = arrival[c] - 1

\* How the state of an operation and that of its entry go together.
Matched ==
    \A c \in Calls :
        /\ operation[c] = "idle" <=> entry[c] = "none"
        /\ operation[c] \in {"racing", "running"} => entry[c] = "pending"
        /\ operation[c] \in {"fulfilled", "rejected"} => Settled(c)

\* Whatever has started had the whole chain ahead of it settled.
StartedInOrder ==
    \A c, d \in Calls :
        operation[c] \in {"running", "fulfilled", "rejected", "refused"} /\ arrival[d] \in 1..(arrival[c] - 1)
            => Settled(d)

Inv ==
    /\ TypeOK
    /\ Numbered
    /\ Chained
    /\ Matched
    /\ StartedInOrder
    /\ EntriesSettleInOrder
-----------------------------------------------------------------------------
(* The invariant holds before anyone calls. *)
LEMMA InitInv == Init => Inv
  BY CallsAssumption DEF Init, Inv, TypeOK, OperationState, EntryState, Numbered, Made,
     Chained, Matched, StartedInOrder, EntriesSettleInOrder, Settled

(* Once the entry before a call has settled, so has every entry ahead of it. *)
LEMMA PreviousSettledMeansAll ==
  ASSUME Inv, NEW c \in Calls, Made(c), PreviousSettled(c),
         NEW d \in Calls, arrival[d] \in 1..(arrival[c] - 1)
  PROVE  Settled(d)
<1>1. previous[c] # NoCall
  BY DEF Inv, TypeOK, Chained
<1>2. /\ previous[c] \in Calls
      /\ Settled(previous[c])
      /\ arrival[previous[c]] = arrival[c] - 1
  BY <1>1 DEF Inv, TypeOK, Chained, PreviousSettled
<1> QED
  BY <1>2 DEF Inv, TypeOK, EntriesSettleInOrder

(* Every step keeps the invariant. *)
LEMMA NextInv == Inv /\ [Next]_vars => Inv'
<1> SUFFICES ASSUME Inv, [Next]_vars PROVE Inv'
  OBVIOUS
<1> USE DEF Inv, TypeOK, OperationState, EntryState
<1>1. ASSUME NEW c \in Calls, Call(c) PROVE Inv'
  <2>1. TypeOK'
    BY <1>1 DEF Call
  <2>2. arrival' = [arrival EXCEPT ![c] = asked + 1] /\ asked' = asked + 1 /\ ~Made(c)
    BY <1>1 DEF Call, Made
  <2>3. \A d \in Calls : Made(d)' <=> Made(d) \/ d = c
    BY <1>1 DEF Call, Made
  <2>4. Numbered'
    BY <2>1, <2>2, <2>3 DEF Numbered
  <2>5. Chained'
    BY <1>1, <2>1, <2>2, <2>3, CallsAssumption DEF Call, Chained, Numbered
  <2>6. Matched'
    BY <1>1 DEF Call, Matched, Settled
  <2>7. \A d \in Calls \ {c} : entry'[d] = entry[d] /\ operation'[d] = operation[d]
    BY <1>1 DEF Call
  <2>8. operation'[c] = "racing" /\ entry'[c] = "pending"
    BY <1>1 DEF Call
  <2>9. \A d, e \in Calls :
           d # c /\ operation[d] # "idle" /\ arrival'[e] \in 1..arrival'[d]
             => e # c /\ arrival[e] \in 1..arrival[d]
    BY <2>2 DEF Numbered, Made
  <2>10. StartedInOrder'
    BY <2>1, <2>2, <2>7, <2>8, <2>9 DEF StartedInOrder, Settled
  <2>11. EntriesSettleInOrder'
    BY <2>1, <2>2, <2>7, <2>8, <2>9 DEF EntriesSettleInOrder, Settled, Matched
  <2> QED BY <2>1, <2>4, <2>5, <2>6, <2>10, <2>11
<1>2. ASSUME NEW c \in Calls, Start(c) PROVE Inv'
  <2>1. TypeOK' /\ Numbered' /\ Chained' /\ Matched' /\ EntriesSettleInOrder'
    BY <1>2 DEF Start, CanStart, Numbered, Chained, Matched, EntriesSettleInOrder, Made, Settled
  <2>2. Made(c) /\ PreviousSettled(c)
    BY <1>2 DEF Start, CanStart, Made
  <2>3. \A d \in Calls : arrival[d] \in 1..(arrival[c] - 1) => Settled(d)
    BY <2>2, PreviousSettledMeansAll
  <2>4. StartedInOrder'
    BY <1>2, <2>3 DEF Start, StartedInOrder, Settled
  <2> QED BY <2>1, <2>4
<1>3. ASSUME NEW c \in Calls, NEW o \in {"fulfilled", "rejected"}, Finish(c, o) PROVE Inv'
  <2>1. TypeOK' /\ Numbered' /\ Chained' /\ Matched'
    BY <1>3 DEF Finish, Numbered, Chained, Matched, Made, Settled
  <2>2. \A d \in Calls : Settled(d) => Settled(d)'
    BY <1>3 DEF Finish, Settled
  <2>3. StartedInOrder'
    BY <1>3, <2>2 DEF Finish, StartedInOrder
  <2>4. \A d \in Calls : arrival[d] \in 1..(arrival[c] - 1) => Settled(d)
    BY <1>3 DEF Finish, StartedInOrder
  <2>5. \A d \in Calls : Settled(d)' => Settled(d) \/ d = c
    BY <1>3 DEF Finish, Settled
  <2>6. \A d \in Calls : arrival[d] \in 1..arrival[c] => d = c \/ arrival[d] \in 1..(arrival[c] - 1)
    BY <1>3 DEF Finish, Numbered, Made
  <2>7. EntriesSettleInOrder'
    BY <1>3, <2>2, <2>4, <2>5, <2>6 DEF Finish, EntriesSettleInOrder, Settled
  <2> QED BY <2>1, <2>3, <2>7
<1>4. ASSUME NEW c \in Calls, FinishRefused(c) PROVE Inv'
  BY <1>4 DEF FinishRefused, Numbered, Chained, Matched, StartedInOrder,
     EntriesSettleInOrder, Made, Settled
<1>5. ASSUME NEW c \in Calls, Timeout(c) PROVE Inv'
  BY <1>5 DEF Timeout, Numbered, Chained, Matched, StartedInOrder,
     EntriesSettleInOrder, Made, Settled
<1>6. ASSUME NEW c \in Calls, Forward(c) PROVE Inv'
  <2>1. Made(c) /\ PreviousSettled(c)
    BY <1>6 DEF Forward, CanForward, Made
  <2>2. previous[c] # NoCall => entry[previous[c]] \in {"fulfilled", "rejected"}
    BY <2>1 DEF PreviousSettled, Settled
  <2>3. TypeOK' /\ Numbered' /\ Chained' /\ Matched'
    BY <1>6, <2>2 DEF Forward, CanForward, Numbered, Chained, Matched, Made, Settled
  <2>4. \A d \in Calls : Settled(d)' <=> Settled(d) \/ d = c
    BY <1>6, <2>2 DEF Forward, CanForward, Settled
  <2>5. StartedInOrder'
    BY <1>6, <2>4 DEF Forward, StartedInOrder
  <2>6. \A d \in Calls : arrival[d] \in 1..(arrival[c] - 1) => Settled(d)
    BY <2>1, PreviousSettledMeansAll
  <2>7. \A d \in Calls : arrival[d] \in 1..arrival[c] => d = c \/ arrival[d] \in 1..(arrival[c] - 1)
    BY <2>1 DEF Numbered
  <2>8. EntriesSettleInOrder'
    BY <1>6, <2>4, <2>6, <2>7 DEF Forward, EntriesSettleInOrder
  <2> QED BY <2>3, <2>5, <2>8
<1>7. CASE UNCHANGED vars
  BY <1>7 DEF vars, Numbered, Chained, Matched, StartedInOrder,
     EntriesSettleInOrder, Made, Settled
<1> QED
  BY <1>1, <1>2, <1>3, <1>4, <1>5, <1>6, <1>7 DEF Next

(* TypeOK holds in every reachable state, whatever the set of calls is. *)
THEOREM TypeCorrect == Spec => []TypeOK
<1>1. Inv => TypeOK
  BY DEF Inv
<1> QED BY InitInv, NextInv, <1>1, PTL DEF Spec

(* EntriesSettleInOrder: the last entry of PROCESS_LOCKS[name] stands for the
   whole chain, also when calls in the middle of it gave up or failed. *)
THEOREM SettlesInOrder == Spec => []EntriesSettleInOrder
<1>1. Inv => EntriesSettleInOrder
  BY DEF Inv
<1> QED BY InitInv, NextInv, <1>1, PTL DEF Spec

(* Of two running operations the later one would have started before the
   entry of the earlier one settled. *)
LEMMA InvExcludes == Inv => MutualExclusion
<1> SUFFICES ASSUME Inv, NEW c \in Calls, NEW d \in Calls,
                    operation[c] = "running", operation[d] = "running", c # d
             PROVE  FALSE
  BY DEF MutualExclusion
<1>1. arrival[c] \in 1..asked /\ arrival[d] \in 1..asked /\ asked \in Nat
  BY DEF Inv, TypeOK, Numbered, Made
<1>2. arrival[c] # arrival[d]
  BY DEF Inv, Numbered, Made
<1>3. ~Settled(c) /\ ~Settled(d)
  BY DEF Inv, Matched, Settled
<1>4. arrival[c] \in 1..(arrival[d] - 1) \/ arrival[d] \in 1..(arrival[c] - 1)
  BY <1>1, <1>2
<1> QED BY <1>3, <1>4 DEF Inv, StartedInOrder

(* "Implements a global exclusive lock": two operations given to processLock
   under one name are never in progress together, for any number of calls,
   timeouts and failures. *)
THEOREM Exclusive == Spec => []MutualExclusion
BY InitInv, NextInv, InvExcludes, PTL DEF Spec

(* Of the entries that are pending there is a first one: the chain ahead of it
   has settled. *)
LEMMA FirstPending ==
  ASSUME Inv, NEW c \in Calls, entry[c] = "pending"
  PROVE  \E d \in Calls : entry[d] = "pending" /\ PreviousSettled(d)
<1> DEFINE Ranks == {arrival[d] : d \in {e \in Calls : entry[e] = "pending"}}
           R == OpToRel(<, Nat)
<1>1. \A d \in Calls : entry[d] = "pending" => Made(d) /\ arrival[d] \in Nat
  BY DEF Inv, TypeOK, Matched, Made
<1>2. Ranks \subseteq Nat /\ Ranks # {}
  BY <1>1
<1>3. IsWellFoundedOn(R, Nat)
  BY NatLessThanWellFounded
<1>4. PICK n \in Ranks : \A m \in Ranks : ~(<<m, n>> \in R)
  <2> HIDE DEF R, Ranks
  <2> QED BY <1>2, <1>3, WFMin
<1>5. \A m \in Ranks : ~(m < n)
  BY <1>2, <1>4 DEF OpToRel
<1>6. PICK d \in Calls : entry[d] = "pending" /\ arrival[d] = n
  OBVIOUS
<1>7. PreviousSettled(d)
  <2> SUFFICES ASSUME previous[d] # NoCall, ~Settled(previous[d]) PROVE FALSE
    BY DEF PreviousSettled
  <2>1. previous[d] \in Calls /\ Made(previous[d]) /\ arrival[previous[d]] = arrival[d] - 1
    BY <1>1, <1>6 DEF Inv, TypeOK, Chained
  <2>2. entry[previous[d]] = "pending"
    BY <2>1 DEF Inv, TypeOK, EntryState, Matched, Made, Settled
  <2>3. arrival[d] - 1 \in Ranks /\ arrival[d] \in Nat
    BY <1>1, <1>6, <2>1, <2>2
  <2> QED BY <1>5, <1>6, <2>3
<1> QED BY <1>6, <1>7

(* NoSpuriousTimeout: when the microtasks have run, what holds a waiting call
   back is an operation in progress, and not an entry that nobody settles. *)
THEOREM TimeoutsHaveCause == Spec => NoSpuriousTimeout
<1>1. ASSUME Inv, [Next]_vars
      PROVE  [\A c \in Calls :
                operation[c] = "racing" /\ operation'[c] = "timedout"
                   => \E d \in Calls \ {c} : operation[d] = "running"]_vars
  <2> SUFFICES ASSUME NEW c \in Calls, operation[c] = "racing", operation'[c] = "timedout"
               PROVE  \E d \in Calls \ {c} : operation[d] = "running"
    OBVIOUS
  <2>1. Microtasks = {}
    <3>1. PICK e \in Calls :
            \/ Call(e) \/ Start(e) \/ FinishRefused(e) \/ Timeout(e) \/ Forward(e)
            \/ \E outcome \in {"fulfilled", "rejected"} : Finish(e, outcome)
      BY <1>1 DEF Next, vars
    <3>2. CASE Timeout(e)
      BY <3>2 DEF Timeout
    <3>3. CASE ~Timeout(e)
      BY <1>1, <3>1, <3>3 DEF Call, Start, Finish, FinishRefused, Forward, Inv, TypeOK
    <3> QED BY <3>2, <3>3
  <2>2. PICK d \in Calls : entry[d] = "pending" /\ PreviousSettled(d)
    BY <1>1, FirstPending DEF Inv, Matched
  <2>3. ~CanStart(d) /\ ~CanForward(d)
    BY <2>1 DEF Microtasks
  <2>4. operation[d] = "running"
    BY <1>1, <2>2, <2>3 DEF CanStart, CanForward, Inv, TypeOK, OperationState, Matched, Settled
  <2> QED BY <2>4
<1>2. Spec => []Inv
  BY InitInv, NextInv, PTL DEF Spec
<1> QED BY <1>1, <1>2, PTL DEF Spec, NoSpuriousTimeout
-----------------------------------------------------------------------------
(* When a call wins its race nobody holds the lock and nobody who waits has
   waited longer. *)
LEMMA NobodyAhead ==
  ASSUME Inv, NEW c \in Calls, CanStart(c), NEW d \in Calls,
         operation[d] \in {"racing", "running"}
  PROVE  /\ operation[d] = "racing"
         /\ arrival[c] <= arrival[d]
<1>1. Made(c) /\ Made(d) /\ PreviousSettled(c)
  BY DEF CanStart, Made
<1>2. /\ arrival[c] \in 1..asked
      /\ arrival[d] \in 1..asked
      /\ asked \in Nat
  BY <1>1 DEF Inv, TypeOK, Numbered
<1>3. ~Settled(d) /\ ~Settled(c)
  BY DEF Inv, Matched, Settled, CanStart
<1>4. arrival[d] \notin 1..(arrival[c] - 1)
  BY <1>1, <1>3, PreviousSettledMeansAll
<1>5. arrival[c] <= arrival[d]
  BY <1>2, <1>4
<1>6. operation[d] # "running"
  <2> SUFFICES ASSUME operation[d] = "running" PROVE FALSE
    OBVIOUS
  <2>1. c # d
    BY DEF CanStart
  <2>2. arrival[c] # arrival[d]
    BY <1>1, <2>1 DEF Inv, Numbered
  <2>3. arrival[c] \in 1..(arrival[d] - 1)
    BY <1>2, <1>5, <2>2
  <2> QED BY <1>3, <2>3 DEF Inv, StartedInOrder
<1> QED BY <1>5, <1>6

(* The refinement mapping takes initial states to initial states. *)
LEMMA InitRefines == Init => Lock!Init
  BY DEF Init, Lock!Init, AbstractStatus

(* Each step of processLock is a step of the abstract lock or leaves it alone. *)
LEMMA NextRefines == Inv /\ [Next]_vars => [Lock!Next]_(Lock!lockVars)
<1> SUFFICES ASSUME Inv, [Next]_vars PROVE [Lock!Next]_(Lock!lockVars)
  OBVIOUS
<1> USE DEF Inv, TypeOK, OperationState
<1>1. ASSUME NEW c \in Calls, Call(c) PROVE Lock!Request(c)
  BY <1>1 DEF Call, Lock!Request, AbstractStatus
<1>2. ASSUME NEW c \in Calls, Start(c) PROVE Lock!Grant(c)
  <2>1. CanStart(c)
    BY <1>2 DEF Start
  <2>2. \A d \in Calls : operation[d] # "running"
    BY <2>1, NobodyAhead
  <2>3. \A d \in Calls : operation[d] = "racing" => arrival[c] <= arrival[d]
    BY <2>1, NobodyAhead
  <2>4. Lock!Holders = {}
    BY <2>2 DEF Lock!Holders, AbstractStatus
  <2>5. \A d \in Calls : AbstractStatus[d] = "waiting" => arrival[c] <= arrival[d]
    BY <2>3 DEF AbstractStatus
  <2>6. AbstractStatus[c] = "waiting"
    BY <2>1 DEF CanStart, AbstractStatus
  <2>7. AbstractStatus' = [AbstractStatus EXCEPT ![c] = "holding"]
    BY <1>2 DEF Start, AbstractStatus
  <2> QED BY <1>2, <2>4, <2>5, <2>6, <2>7 DEF Start, Lock!Grant
<1>3. ASSUME NEW c \in Calls, NEW o \in {"fulfilled", "rejected"}, Finish(c, o) PROVE Lock!Release(c)
  BY <1>3 DEF Finish, Lock!Release, AbstractStatus
<1>4. ASSUME NEW c \in Calls, FinishRefused(c) PROVE Lock!Release(c)
  BY <1>4 DEF FinishRefused, Lock!Release, AbstractStatus
<1>5. ASSUME NEW c \in Calls, Timeout(c) PROVE Lock!Abandon(c)
  BY <1>5 DEF Timeout, Lock!Abandon, AbstractStatus
<1>6. ASSUME NEW c \in Calls, Forward(c) PROVE UNCHANGED Lock!lockVars
  BY <1>6 DEF Forward, Lock!lockVars, AbstractStatus
<1>7. CASE UNCHANGED vars
  BY <1>7 DEF vars, Lock!lockVars, AbstractStatus
<1> QED
  BY <1>1, <1>2, <1>3, <1>4, <1>5, <1>6, <1>7 DEF Next, Lock!Next

(* processLock implements ExclusiveLock: exclusive, granted in the order of
   the calls, and never granted to a call that gave up. *)
THEOREM Refinement == Spec => LockSpec
<1>1. Spec => []Inv
  BY InitInv, NextInv, PTL DEF Spec
<1> QED BY <1>1, InitRefines, NextRefines, PTL DEF Spec, LockSpec, Lock!Spec
=============================================================================
