------------------------- MODULE AutoRefreshProofs -------------------------
(***************************************************************************)
(* Proofs about AutoRefresh: which intervals can be left running, when the *)
(* ticker follows the visibility, and how many intervals there can be.     *)
(***************************************************************************)
EXTENDS AutoRefresh, FiniteSetTheorems, TLAPS

(* The types of the flags, and the count of half-done starts. *)
FlagsTyped ==
    /\ settings \in [browser : BOOLEAN, autoRefreshToken : BOOLEAN]
    /\ visible \in BOOLEAN /\ managed \in BOOLEAN
    /\ raced \in BOOLEAN
    /\ starting \in Nat

(* Without an overlap a start that is half done is the only one, and it has
   found the ticker cleared; after a stop there is none, nor an interval. *)
OneStart ==
    ~raced =>
        /\ live = {ticker} \ {0}
        /\ starting \in {0, 1}
        /\ starting = 1 => ticker = 0
        /\ stopped = "yes" => ticker = 0 /\ starting = 0

(* The ticker runs in a visible tab, or is about to. *)
ManagedFollows ==
    managed /\ settings.autoRefreshToken /\ ~raced =>
        (ticker # 0 \/ starting = 1 <=> visible)

(* The visibility has no say after a stop, until initialize overrules it. *)
Unmanaged == stopped = "yes" /\ settings.autoRefreshToken => ~managed

IInv ==
    /\ FlagsTyped /\ OneStart /\ ManagedFollows /\ Unmanaged
    /\ stopped \in {"no", "yes", "overruled"}

tickerState == <<settings, visible, managed, tickerVars, stopped>>

-----------------------------------------------------------------------------
(* What _stopAutoRefresh leaves behind: no interval that is tracked. *)
LEMMA ClearTickerClears ==
    ASSUME FlagsTyped, OneStart, ClearTicker, ~raced'
    PROVE  /\ ~raced /\ starting = 0
           /\ live' = {} /\ ticker' = 0
<1>1. ~raced /\ ~(starting > 0)
  BY DEF ClearTicker
<1>2. starting = 0
  BY <1>1 DEF FlagsTyped
<1>3. live' = {} /\ ticker' = 0
  BY <1>1 DEF ClearTicker, OneStart
<1> QED BY <1>1, <1>2, <1>3

(* _startAutoRefresh, begun without an overlap, is the only one under way. *)
LEMMA StartIsAlone ==
    ASSUME FlagsTyped, OneStart, Start, ~raced'
    PROVE  /\ ~raced /\ starting' = 1
           /\ live' = {} /\ ticker' = 0
BY ClearTickerClears DEF Start

(* Whether or not it overlaps with another, a start keeps the flags' types. *)
LEMMA StartKeeps ==
    ASSUME FlagsTyped, OneStart, Start, stopped' # "yes"
    PROVE  /\ starting' \in Nat /\ raced' \in BOOLEAN
           /\ OneStart'
<1>1. starting' \in Nat
  BY DEF Start, FlagsTyped
<1>2. raced' \in BOOLEAN
  BY DEF Start, ClearTicker
<1>3. OneStart'
  <2>1. SUFFICES ASSUME ~raced'
                 PROVE  live' = {ticker'} \ {0} /\ starting' = 1 /\ ticker' = 0
    BY <2>1 DEF OneStart
  <2> QED BY <2>1, StartIsAlone
<1> QED BY <1>1, <1>2, <1>3

(* The interval set after the await is a proper one. *)
LEMMA SetTickerTracks ==
    ASSUME FlagsTyped, OneStart, SetTicker, ~raced'
    PROVE  /\ ~raced /\ starting = 1 /\ starting' = 0 /\ stopped' # "yes"
           /\ ticker' # 0 /\ live' = {ticker'}
<1> DEFINE id == CHOOSE i \in 1..(MaxCalls + 1) : i \notin live
<1>1. ~raced /\ starting = 1 /\ starting' = 0 /\ stopped' # "yes" /\ ticker = 0 /\ live = {}
  BY DEF FlagsTyped, OneStart, SetTicker
<1>2. id \in 1..(MaxCalls + 1)
  <2>1. 1 \in 1..(MaxCalls + 1) /\ 1 \notin live
    BY <1>1, AutoRefreshAssumption DEF AutoRefreshAssumption
  <2> QED BY <2>1
<1>3. ticker' = id /\ live' = live \cup {id}
  BY DEF SetTicker
<1> HIDE DEF id
<1> QED BY <1>1, <1>2, <1>3

(* FollowVisibility leaves the ticker as the visibility asks, or alone. *)
LEMMA FollowVisibilityFollows ==
    ASSUME FlagsTyped, OneStart, NEW shown \in BOOLEAN, FollowVisibility(shown),
           settings.autoRefreshToken => stopped' # "yes",
           ~settings.autoRefreshToken => stopped' = stopped
    PROVE  /\ starting' \in Nat /\ raced' \in BOOLEAN
           /\ OneStart'
           /\ settings.autoRefreshToken /\ ~raced' => (ticker' # 0 \/ starting' = 1 <=> shown)
<1>1. CASE ~settings.autoRefreshToken
  <2>1. UNCHANGED tickerVars
    BY <1>1 DEF FollowVisibility
  <2> QED BY <1>1, <2>1 DEF tickerVars, FlagsTyped, OneStart
<1>2. CASE settings.autoRefreshToken /\ shown
  <2>1. Start
    BY <1>2 DEF FollowVisibility
  <2>2. ~raced' => starting' = 1
    BY <2>1, StartIsAlone
  <2> QED BY <1>2, <2>1, <2>2, StartKeeps
<1>3. CASE settings.autoRefreshToken /\ ~shown
  <2>1. ClearTicker /\ starting' = starting
    BY <1>3 DEF FollowVisibility
  <2>2. ~raced' => ~raced /\ starting' = 0 /\ live' = {} /\ ticker' = 0
    BY <2>1, ClearTickerClears
  <2>3. OneStart'
    BY <2>2 DEF OneStart
  <2>4. starting' \in Nat /\ raced' \in BOOLEAN
    BY <2>1 DEF ClearTicker, FlagsTyped
  <2> QED BY <1>3, <2>2, <2>3, <2>4
<1> QED BY <1>1, <1>2, <1>3

-----------------------------------------------------------------------------
(* It holds at the start: no interval, and nothing managed. *)
LEMMA InitTracks == Init => IInv
<1> SUFFICES ASSUME Init PROVE IInv
  OBVIOUS
<1>1. FlagsTyped
  BY DEF Init, FlagsTyped
<1>2. live = {ticker} \ {0}
  BY DEF Init
<1>3. OneStart
  BY <1>2 DEF Init, OneStart
<1>4. ManagedFollows
  BY DEF Init, ManagedFollows
<1>5. Unmanaged /\ stopped = "no"
  BY DEF Init, Unmanaged
<1> QED BY <1>1, <1>3, <1>4, <1>5 DEF IInv

(* Only the calls, the visibility and initialize touch the ticker; the rest of
   the steps leave its state alone. *)
LEMMA NextTracks == IInv /\ [Next]_vars => IInv'
<1> SUFFICES ASSUME IInv, [Next]_vars PROVE IInv'
  OBVIOUS
<1> USE DEF IInv
<1>1. CASE StartAutoRefresh
  <2>1. /\ Start /\ managed' = FALSE /\ settings' = settings /\ visible' = visible
        /\ stopped' = "no"
    BY <1>1 DEF StartAutoRefresh
  <2>2. FlagsTyped'
    BY <2>1, StartKeeps DEF FlagsTyped
  <2>3. ManagedFollows' /\ Unmanaged'
    BY <2>1 DEF ManagedFollows, Unmanaged
  <2> QED BY <2>1, <2>2, <2>3, StartKeeps
<1>2. CASE StopAutoRefresh
  <2>1. /\ ClearTicker /\ managed' = FALSE /\ settings' = settings /\ visible' = visible
        /\ starting' = starting /\ stopped' = "yes"
    BY <1>2 DEF StopAutoRefresh
  <2>2. raced' \in BOOLEAN
    BY <1>2 DEF StopAutoRefresh, ClearTicker
  <2>3. FlagsTyped'
    BY <2>1, <2>2 DEF FlagsTyped
  <2>4. ~raced' => starting' = 0 /\ live' = {} /\ ticker' = 0
    BY <2>1, ClearTickerClears
  <2>5. OneStart'
    BY <2>4 DEF OneStart
  <2>6. ManagedFollows' /\ Unmanaged'
    BY <2>1 DEF ManagedFollows, Unmanaged
  <2> QED BY <2>1, <2>3, <2>5, <2>6
<1>3. CASE SetTicker
  <2>1. /\ settings' = settings /\ visible' = visible /\ managed' = managed
        /\ raced' = raced /\ stopped' = stopped /\ starting' \in Nat
    BY <1>3 DEF SetTicker, FlagsTyped
  <2>2. FlagsTyped'
    BY <2>1 DEF FlagsTyped
  <2>3. ~raced' =>
          /\ ~raced /\ starting = 1 /\ starting' = 0 /\ stopped' # "yes"
          /\ ticker' # 0 /\ live' = {ticker'}
    BY <1>3, SetTickerTracks
  <2>4. OneStart'
    BY <2>3 DEF OneStart
  <2>5. ManagedFollows' /\ Unmanaged'
    BY <2>1, <2>3 DEF ManagedFollows, Unmanaged
  <2> QED BY <2>1, <2>2, <2>4, <2>5
<1>4. CASE VisibilityChange
  <2>1. /\ settings' = settings /\ managed' = managed /\ visible' = ~visible
        /\ stopped' = stopped
        /\ IF managed THEN FollowVisibility(~visible) ELSE UNCHANGED tickerVars
    BY <1>4 DEF VisibilityChange
  <2>2. CASE managed
    <3>1. /\ FollowVisibility(~visible) /\ (~visible) \in BOOLEAN
          /\ settings.autoRefreshToken => stopped' # "yes"
      BY <2>1, <2>2 DEF Unmanaged
    <3>2. /\ starting' \in Nat /\ raced' \in BOOLEAN
          /\ OneStart'
          /\ settings.autoRefreshToken /\ ~raced' => (ticker' # 0 \/ starting' = 1 <=> ~visible)
      BY <2>1, <3>1, FollowVisibilityFollows
    <3>3. FlagsTyped'
      BY <2>1, <3>2 DEF FlagsTyped
    <3>4. ManagedFollows' /\ Unmanaged'
      BY <2>1, <3>2 DEF ManagedFollows, Unmanaged
    <3> QED BY <2>1, <3>2, <3>3, <3>4
  <2>3. CASE ~managed
    BY <2>1, <2>3 DEF tickerVars, FlagsTyped, OneStart, ManagedFollows, Unmanaged
  <2> QED BY <2>2, <2>3
<1>5. CASE RunInit
  <2>1. /\ settings' = settings /\ visible' = visible /\ managed' = settings.browser
        /\ FollowVisibility(visible \/ ~settings.browser)
        /\ settings.autoRefreshToken => stopped' # "yes"
        /\ ~settings.autoRefreshToken => stopped' = stopped
        /\ stopped' \in {"no", "yes", "overruled"}
    BY <1>5 DEF RunInit
  <2>2. (visible \/ ~settings.browser) \in BOOLEAN
    BY DEF FlagsTyped
  <2>3. /\ starting' \in Nat /\ raced' \in BOOLEAN
        /\ OneStart'
        /\ settings.autoRefreshToken /\ ~raced' =>
              (ticker' # 0 \/ starting' = 1 <=> visible \/ ~settings.browser)
    BY <2>1, <2>2, FollowVisibilityFollows
  <2>4. FlagsTyped'
    BY <2>1, <2>3 DEF FlagsTyped
  <2>5. ManagedFollows' /\ Unmanaged'
    BY <2>1, <2>3 DEF ManagedFollows, Unmanaged
  <2> QED BY <2>1, <2>3, <2>4, <2>5
<1>6. CASE UNCHANGED tickerState
  BY <1>6 DEF tickerState, tickerVars, FlagsTyped, OneStart, ManagedFollows, Unmanaged
<1>7. CASE Grant \/ Tick \/ FirstTick \/ Return \/ RunTick \/ RunRecover
  <2>1. UNCHANGED tickerState
    BY <1>7 DEF Grant, Tick, FirstTick, Return, RunTick, RunRecover, tickerState, tickerVars
  <2> QED BY <1>6, <2>1
<1>8. CASE Elsewhere \/ SessionChange \/ UNCHANGED vars
  <2>1. UNCHANGED tickerState
    BY <1>8 DEF Elsewhere, SessionChange, vars, tickerState, tickerVars
  <2> QED BY <1>6, <2>1
<1> QED BY <1>1, <1>2, <1>3, <1>4, <1>5, <1>7, <1>8 DEF Next

(* The inductive invariant holds throughout. *)
LEMMA Tracks == Spec => []IInv
BY InitTracks, NextTracks, PTL DEF Spec

-----------------------------------------------------------------------------
(* autoRefreshTicker loses no interval unless two starts overlap. *)
THEOREM TickerIsTracked == Spec => []TickerTracked
<1>1. IInv => TickerTracked
  BY DEF IInv, OneStart, TickerTracked
<1> QED BY <1>1, Tracks, PTL

(* After stopAutoRefresh no interval runs until the next startAutoRefresh, unless the stop
   came in the middle of a start or before initialize ended. *)
THEOREM StopAutoRefreshHolds == Spec => []StopHolds
<1>1. IInv => StopHolds
  BY DEF IInv, OneStart, StopHolds
<1> QED BY <1>1, Tracks, PTL

(* The managed ticker runs in a visible tab and in no hidden one. *)
THEOREM ManagedTickerFollows == Spec => []TickerFollowsVisibility
<1>1. IInv => TickerFollowsVisibility
  BY DEF IInv, ManagedFollows, TickerFollowsVisibility
<1> QED BY <1>1, Tracks, PTL
-----------------------------------------------------------------------------
Later == {"recover", "tick"}

(* _initialize asks for the lock first, has it first, and then never again. *)
Waits(w, l) == w = <<"init">> /\ l = <<>>
Runs(w, l) == w = <<>> /\ l \in Seq(Operation) /\ l # <<>> /\ Head(l) = "init" /\ Tail(l) \in Seq(Later)
Over(w, l) == w \in Seq(Later) /\ l \in Seq(Later)

InLine ==
    /\ Waits(wanted, line) \/ Runs(wanted, line) \/ Over(wanted, line)
    /\ ~Over(wanted, line) => ~initialized /\ ~managed
    /\ elsewhere \in BOOLEAN /\ initialized \in BOOLEAN
    /\ elsewhere => line = <<>>

(* The intervals that run, with those that half-done starts will set. *)
Held == starting + Cardinality(live)

(* Each call sets an interval at most; _initialize sets one, and the visibility sets that one
   again only after it has cleared it. *)
Counted ==
    /\ live \subseteq 1..(MaxCalls + 1) /\ ticker \in live \cup {0}
    /\ Held <= calls + 1
    /\ ~Over(wanted, line) => Held <= calls
    /\ managed /\ settings.autoRefreshToken /\ ticker = 0 /\ starting = 0 => Held <= calls

Bounded ==
    /\ first \in Nat /\ returning \in Nat /\ returning <= changes
    /\ session \in SessionState
    /\ calls \in 0..MaxCalls /\ changes \in 0..MaxChanges /\ faults \in 0..MaxFaults

CountInv == FlagsTyped /\ InLine /\ Counted /\ Bounded

(* A sequence of some operations is one of operations. *)
LEMMA SequencesOf ==
    ASSUME NEW S, NEW T, S \subseteq T, NEW s \in Seq(S)
    PROVE  s \in Seq(T)
OBVIOUS

(* What a queue of later operations, behind the first one or not, becomes. *)
LEMMA LaterAppended ==
    ASSUME NEW w, NEW l, NEW op \in Later
    PROVE  /\ Over(w, l) => Over(Append(w, op), l) /\ Over(w, Append(l, op))
           /\ Runs(w, l) => Runs(w, Append(l, op))
<1>1. Over(w, l) => Over(Append(w, op), l) /\ Over(w, Append(l, op))
  BY DEF Over
<1>2. ASSUME Runs(w, l) PROVE Runs(w, Append(l, op))
  <2>1. Tail(Append(l, op)) = Append(Tail(l), op)
    BY <1>2 DEF Runs
  <2>2. Append(l, op) \in Seq(Operation) /\ Append(l, op) # <<>> /\ Head(Append(l, op)) = "init"
    BY <1>2 DEF Runs, Later, Operation
  <2>3. Append(Tail(l), op) \in Seq(Later)
    BY <1>2 DEF Runs
  <2> QED BY <1>2, <2>1, <2>2, <2>3 DEF Runs
<1> QED BY <1>1, <1>2

(* The operation that ends is the first in line. *)
LEMMA LaterRemain ==
    ASSUME NEW w, NEW l, l # <<>>, Waits(w, l) \/ Runs(w, l) \/ Over(w, l)
    PROVE  /\ Over(w, Tail(l))
           /\ Head(l) = "init" => ~Over(w, l)
           /\ Head(l) # "init" => Over(w, l)
<1>1. CASE Waits(w, l)
  BY <1>1 DEF Waits
<1>2. CASE Runs(w, l)
  <2>1. w \in Seq(Later) BY <1>2 DEF Runs
  <2>2. ~Over(w, l)
    <3>1. SUFFICES ASSUME l \in Seq(Later) PROVE FALSE BY DEF Over
    <3>2. Head(l) \in Later BY <3>1
    <3> QED BY <1>2, <3>2 DEF Runs, Later
  <2> QED BY <1>2, <2>1, <2>2 DEF Runs, Over
<1>3. CASE Over(w, l)
  <2>1. Tail(l) \in Seq(Later) /\ Head(l) \in Later BY <1>3 DEF Over
  <2> QED BY <1>3, <2>1 DEF Over, Later
<1> QED BY <1>1, <1>2, <1>3

(* The lock is given to the first of those that wait. *)
LEMMA LaterGranted ==
    ASSUME NEW w, w # <<>>, Waits(w, <<>>) \/ Runs(w, <<>>) \/ Over(w, <<>>)
    PROVE  /\ Waits(w, <<>>) => Runs(Tail(w), <<Head(w)>>)
           /\ Over(w, <<>>) => Over(Tail(w), <<Head(w)>>)
           /\ Waits(w, <<>>) \/ Over(w, <<>>)
<1>1. Waits(w, <<>>) => Runs(Tail(w), <<Head(w)>>)
  BY DEF Waits, Runs, Operation, Later
<1>2. Over(w, <<>>) => Over(Tail(w), <<Head(w)>>)
  BY DEF Over, Later
<1>3. ~Runs(w, <<>>)
  BY DEF Runs
<1> QED BY <1>1, <1>2, <1>3

(* _initialize waits only before it has the lock, and runs only after. *)
LEMMA Apart ==
    ASSUME NEW w, NEW l
    PROVE  /\ Waits(w, l) => ~Over(w, l) /\ ~Runs(w, l)
           /\ Runs(w, l) => ~Over(w, l)
<1>1. Waits(w, l) => ~Over(w, l) /\ ~Runs(w, l)
  <2>1. SUFFICES ASSUME Waits(w, l), w \in Seq(Later) PROVE FALSE BY DEF Waits, Over, Runs
  <2>2. w[1] \in Later /\ w[1] = "init" BY <2>1 DEF Waits
  <2> QED BY <2>2 DEF Later
<1>2. Runs(w, l) => ~Over(w, l)
  <2>1. ASSUME Runs(w, l) PROVE l # <<>> /\ Head(l) = "init" BY <2>1 DEF Runs
  <2> QED BY <2>1, LaterRemain
<1> QED BY <1>1, <1>2

(* The steps that change neither the line nor what waits. *)
LEMMA SameLine ==
    ASSUME InLine, UNCHANGED <<wanted, line, elsewhere, initialized>>, managed' \in {managed, FALSE}
    PROVE  InLine' /\ (Over(wanted, line)' <=> Over(wanted, line))
<1>1. PICK w, l : w = wanted /\ l = line OBVIOUS
<1>2. wanted' = w /\ line' = l /\ UNCHANGED <<elsewhere, initialized>>
  BY <1>1
<1>3. ~managed => ~managed'
  <2>1. CASE managed' = managed BY <2>1
  <2>2. CASE managed' = FALSE BY <2>2
  <2> QED BY <2>1, <2>2
<1> QED BY <1>1, <1>2, <1>3 DEF InLine

(* A tick gets in line, or the lock. *)
LEMMA EnqueueKeeps ==
    ASSUME InLine, EnqueueTick, UNCHANGED managed
    PROVE  InLine' /\ (Over(wanted, line)' <=> Over(wanted, line))
<1>1. PICK w, l : w = wanted /\ l = line OBVIOUS
<1>2. wanted' = w /\ line' = Append(l, "tick") /\ elsewhere' = elsewhere /\ initialized' = initialized
  BY <1>1 DEF EnqueueTick
<1>3. "tick" \in Later BY DEF Later
<1>4. ~Waits(w, l)
  BY <1>1 DEF EnqueueTick, Waits
<1>5. Runs(w, l) \/ Over(w, l)
  BY <1>1, <1>4 DEF InLine
<1>6. (Runs(w, l) => Runs(w, Append(l, "tick"))) /\ (Over(w, l) => Over(w, Append(l, "tick")))
  BY <1>3, LaterAppended
<1>7. Over(w, Append(l, "tick")) <=> Over(w, l)
  BY <1>5, <1>6, Apart
<1>8. ~elsewhere'
  BY <1>2 DEF EnqueueTick, InLine
<1> QED BY <1>1, <1>2, <1>5, <1>6, <1>7, <1>8 DEF InLine

(* The first in line ends; only _initialize sets managed. *)
LEMMA EndKeeps ==
    ASSUME InLine, line # <<>>, EndOperation, managed' \in BOOLEAN,
           Head(line) # "init" => managed' = managed
    PROVE  /\ InLine' /\ Over(wanted, line)'
           /\ Head(line) = "init" <=> ~Over(wanted, line)
<1>1. PICK w, l : w = wanted /\ l = line OBVIOUS
<1>2. wanted' = w /\ line' = Tail(l) /\ elsewhere' = elsewhere /\ initialized' \in BOOLEAN
  BY <1>1 DEF EndOperation, InLine
<1>3. Over(w, Tail(l)) /\ (Head(l) = "init" <=> ~Over(w, l))
  BY <1>1, LaterRemain DEF InLine
<1>4. ~elsewhere
  BY DEF InLine
<1> QED BY <1>1, <1>2, <1>3, <1>4 DEF InLine

(* The lock is given to _initialize before the others. *)
LEMMA GrantKeeps ==
    ASSUME InLine, Grant
    PROVE  InLine' /\ (Over(wanted, line)' <=> Over(wanted, line))
<1>1. PICK w : w = wanted OBVIOUS
<1>2. /\ w # <<>> /\ line = <<>> /\ ~elsewhere
      /\ line' = <<Head(w)>> /\ wanted' = Tail(w)
      /\ UNCHANGED <<managed, elsewhere, initialized>>
  BY <1>1 DEF Grant
<1>3. Waits(w, <<>>) \/ Runs(w, <<>>) \/ Over(w, <<>>)
  BY <1>1, <1>2 DEF InLine
<1>4. /\ Waits(w, <<>>) => Runs(Tail(w), <<Head(w)>>)
      /\ Over(w, <<>>) => Over(Tail(w), <<Head(w)>>)
      /\ Waits(w, <<>>) \/ Over(w, <<>>)
  BY <1>2, <1>3, LaterGranted
<1>5. Over(Tail(w), <<Head(w)>>) <=> Over(w, <<>>)
  BY <1>4, Apart
<1> QED BY <1>1, <1>2, <1>4, <1>5 DEF InLine

(* The visibility callback asks for the lock only once _initialize has had it. *)
LEMMA ReturnKeeps ==
    ASSUME InLine, Return
    PROVE  InLine' /\ (Over(wanted, line)' <=> Over(wanted, line))
<1>1. PICK w, l : w = wanted /\ l = line OBVIOUS
<1>2. Over(w, l)
  BY <1>1 DEF Return, InLine
<1>3. "recover" \in Later BY DEF Later
<1>4. Over(Append(w, "recover"), l) /\ Over(w, Append(l, "recover"))
  BY <1>2, <1>3, LaterAppended
<1>5. CASE line # <<>>
  <2>1. wanted' = w /\ line' = Append(l, "recover") /\ UNCHANGED <<managed, elsewhere, initialized>>
    BY <1>1, <1>5 DEF Return
  <2> QED BY <1>1, <1>2, <1>4, <1>5, <2>1 DEF InLine
<1>6. CASE line = <<>>
  <2>1. wanted' = Append(w, "recover") /\ line' = l /\ UNCHANGED <<managed, elsewhere, initialized>>
    BY <1>1, <1>6 DEF Return
  <2> QED BY <1>1, <1>2, <1>4, <1>6, <2>1 DEF InLine
<1> QED BY <1>5, <1>6

(* _initialize has the lock once, and what it is before stays so until then. *)
LEMMA LineKeeps ==
    ASSUME FlagsTyped, InLine, [Next]_vars
    PROVE  /\ InLine'
           /\ Over(wanted, line) => Over(wanted, line)'
           /\ RunInit => ~Over(wanted, line)
           /\ ~RunInit => (Over(wanted, line)' <=> Over(wanted, line))
<1> DEFINE Same == InLine' /\ (Over(wanted, line)' <=> Over(wanted, line))
<1>1. ASSUME RunInit PROVE InLine' /\ Over(wanted, line)' /\ ~Over(wanted, line)
  <2>1. line # <<>> /\ Head(line) = "init" /\ EndOperation /\ managed' \in BOOLEAN
    BY <1>1 DEF RunInit, FlagsTyped
  <2> QED BY <2>1, EndKeeps
<1>2. CASE StartAutoRefresh \/ StopAutoRefresh \/ SetTicker \/ VisibilityChange
  <2>1. UNCHANGED <<wanted, line, elsewhere, initialized>> /\ managed' \in {managed, FALSE}
    BY <1>2 DEF StartAutoRefresh, StopAutoRefresh, SetTicker, VisibilityChange, lockVars
  <2>2. Same BY <2>1, SameLine
  <2> QED BY <1>1, <2>2
<1>3. CASE SessionChange \/ UNCHANGED vars
  <2>1. UNCHANGED <<wanted, line, elsewhere, initialized>> /\ managed' \in {managed, FALSE}
    BY <1>3 DEF SessionChange, vars, lockVars
  <2>2. Same BY <2>1, SameLine
  <2> QED BY <1>1, <2>2
<1>4. CASE Tick
  <2>1. EnqueueTick /\ UNCHANGED managed BY <1>4 DEF Tick
  <2>2. Same BY <2>1, EnqueueKeeps
  <2> QED BY <1>1, <2>2
<1>5. CASE FirstTick
  <2>1. UNCHANGED managed /\ (EnqueueTick \/ UNCHANGED lockVars) BY <1>5 DEF FirstTick
  <2>2. Same BY <2>1, EnqueueKeeps, SameLine DEF lockVars
  <2> QED BY <1>1, <2>2
<1>6. CASE Grant \/ Return
  <2>1. Same BY <1>6, GrantKeeps, ReturnKeeps
  <2> QED BY <1>1, <2>1
<1>7. CASE RunTick \/ RunRecover
  <2>1. line # <<>> /\ Head(line) \in {"tick", "recover"} /\ EndOperation /\ managed' = managed
    BY <1>7 DEF RunTick, RunRecover
  <2>2. managed' \in BOOLEAN BY <2>1 DEF FlagsTyped
  <2>3. Same BY <2>1, <2>2, EndKeeps
  <2> QED BY <1>1, <2>3
<1>8. CASE Elsewhere
  <2>1. UNCHANGED <<wanted, line, initialized, managed>> /\ elsewhere' = ~elsewhere
    BY <1>8 DEF Elsewhere
  <2>2. elsewhere' => line = <<>>
    BY <1>8, <2>1 DEF Elsewhere, InLine
  <2>3. Same BY <2>1, <2>2 DEF InLine, Waits, Runs, Over
  <2> QED BY <1>1, <2>3
<1>9. CASE RunInit
  BY <1>1, <1>9
<1> QED BY <1>2, <1>3, <1>4, <1>5, <1>6, <1>7, <1>8, <1>9 DEF Next
-----------------------------------------------------------------------------
(* As long as one more may run there is a number for it. *)
LEMMA LiveIsFinite ==
    ASSUME NEW S \in SUBSET (1..(MaxCalls + 1))
    PROVE  /\ IsFiniteSet(S) /\ Cardinality(S) \in Nat /\ Cardinality(S) <= MaxCalls + 1
           /\ Cardinality(S) <= MaxCalls => \E i \in 1..(MaxCalls + 1) : i \notin S
<1>1. MaxCalls \in Nat BY AutoRefreshAssumption DEF AutoRefreshAssumption
<1>2. IsFiniteSet(1..(MaxCalls + 1)) /\ Cardinality(1..(MaxCalls + 1)) = MaxCalls + 1
  BY <1>1, FS_Interval
<1>3. IsFiniteSet(S) /\ Cardinality(S) <= MaxCalls + 1
  BY <1>2, FS_Subset
<1>4. Cardinality(S) \in Nat BY <1>3, FS_CardinalityType
<1>5. ASSUME Cardinality(S) <= MaxCalls, \A i \in 1..(MaxCalls + 1) : i \in S PROVE FALSE
  <2>1. S = 1..(MaxCalls + 1) BY <1>5
  <2> QED BY <1>1, <1>2, <1>5, <2>1
<1> QED BY <1>3, <1>4, <1>5

(* _stopAutoRefresh takes the tracked interval away, if there is one. *)
LEMMA ClearCounts ==
    ASSUME Counted, ClearTicker
    PROVE  /\ live' \subseteq 1..(MaxCalls + 1) /\ ticker' = 0
           /\ Cardinality(live) \in Nat /\ Cardinality(live') \in Nat
           /\ ticker = 0 => Cardinality(live') = Cardinality(live)
           /\ ticker # 0 => Cardinality(live') = Cardinality(live) - 1
<1>1. live \in SUBSET (1..(MaxCalls + 1)) /\ ticker \in live \cup {0}
  BY DEF Counted
<1>2. live' = live \ {ticker} /\ ticker' = 0 BY DEF ClearTicker
<1>3. live' \in SUBSET (1..(MaxCalls + 1)) BY <1>1, <1>2
<1>4. IsFiniteSet(live) /\ Cardinality(live) \in Nat BY <1>1, LiveIsFinite
<1>5. Cardinality(live') \in Nat BY <1>3, LiveIsFinite
<1>6. 0 \notin live BY <1>1
<1>7. Cardinality(live \ {ticker}) = IF ticker \in live THEN Cardinality(live) - 1 ELSE Cardinality(live)
  BY <1>4, FS_RemoveElement
<1> QED BY <1>1, <1>2, <1>3, <1>4, <1>5, <1>6, <1>7

(* A start takes the place of the tracked interval, or adds one. *)
LEMMA StartCounts ==
    ASSUME FlagsTyped, Counted, Start
    PROVE  /\ live' \subseteq 1..(MaxCalls + 1) /\ ticker' = 0 /\ starting' # 0
           /\ Held \in Nat /\ Held' <= Held + 1 /\ (ticker # 0 => Held' = Held)
<1>1. starting \in Nat /\ starting' = starting + 1 BY DEF Start, FlagsTyped
<1>2. PICK n, m : n = Cardinality(live) /\ m = Cardinality(live') OBVIOUS
<1>3. /\ live' \subseteq 1..(MaxCalls + 1) /\ ticker' = 0 /\ n \in Nat /\ m \in Nat
      /\ ticker = 0 => m = n
      /\ ticker # 0 => m = n - 1
  BY <1>2, ClearCounts DEF Start
<1>4. Held = starting + n /\ Held' = starting' + m BY <1>2 DEF Held
<1> QED BY <1>1, <1>3, <1>4

(* A stop adds none. *)
LEMMA StopCounts ==
    ASSUME FlagsTyped, Counted, ClearTicker, UNCHANGED starting
    PROVE  /\ live' \subseteq 1..(MaxCalls + 1) /\ ticker' = 0
           /\ Held \in Nat /\ Held' <= Held /\ (ticker # 0 => Held' <= Held - 1)
<1>1. starting \in Nat /\ starting' = starting BY DEF FlagsTyped
<1>2. PICK n, m : n = Cardinality(live) /\ m = Cardinality(live') OBVIOUS
<1>3. /\ live' \subseteq 1..(MaxCalls + 1) /\ ticker' = 0 /\ n \in Nat /\ m \in Nat
      /\ ticker = 0 => m = n
      /\ ticker # 0 => m = n - 1
  BY <1>2, ClearCounts
<1>4. Held = starting + n /\ Held' = starting' + m BY <1>2 DEF Held
<1> QED BY <1>1, <1>3, <1>4

(* What a start was counted for is now an interval. *)
LEMMA SetCounts ==
    ASSUME FlagsTyped, Counted, Bounded, SetTicker
    PROVE  /\ live' \subseteq 1..(MaxCalls + 1) /\ ticker' \in live' /\ ticker' # 0
           /\ Held' = Held
<1> DEFINE id == CHOOSE i \in 1..(MaxCalls + 1) : i \notin live
<1>1. /\ starting \in Nat /\ starting > 0 /\ starting' = starting - 1
      /\ ticker' = id /\ live' = live \cup {id}
  BY DEF SetTicker, FlagsTyped
<1>2. live \in SUBSET (1..(MaxCalls + 1)) BY DEF Counted
<1>3. PICK n : n = Cardinality(live) OBVIOUS
<1>4. IsFiniteSet(live) /\ n \in Nat BY <1>2, <1>3, LiveIsFinite
<1>5. n <= MaxCalls
  <2>1. starting + n <= calls + 1 BY <1>3 DEF Counted, Held
  <2>2. calls \in 0..MaxCalls /\ MaxCalls \in Nat BY AutoRefreshAssumption DEF Bounded, AutoRefreshAssumption
  <2> QED BY <1>1, <1>4, <2>1, <2>2
<1>6. id \in 1..(MaxCalls + 1) /\ id \notin live
  <2>1. \E i \in 1..(MaxCalls + 1) : i \notin live BY <1>2, <1>3, <1>5, LiveIsFinite
  <2> QED BY <2>1
<1> HIDE DEF id
<1>7. Cardinality(live \cup {id}) = n + 1 BY <1>3, <1>4, <1>6, FS_AddElement
<1>8. Held = starting + n /\ Held' = starting' + (n + 1) BY <1>1, <1>3, <1>7 DEF Held
<1>9. Held' = Held BY <1>1, <1>4, <1>8
<1> QED BY <1>1, <1>2, <1>6, <1>9

(* What the visibility asks for. *)
LEMMA FollowCounts ==
    ASSUME FlagsTyped, Counted, NEW shown \in BOOLEAN, FollowVisibility(shown)
    PROVE  /\ live' \subseteq 1..(MaxCalls + 1) /\ ticker' \in live' \cup {0}
           /\ Held \in Nat /\ Held' <= Held + 1
           /\ settings.autoRefreshToken /\ ticker # 0 => Held' <= Held
           /\ settings.autoRefreshToken /\ starting' = 0 => Held' <= Held
           /\ settings.autoRefreshToken /\ starting' = 0 /\ ticker # 0 => Held' <= Held - 1
           /\ ~settings.autoRefreshToken => Held' = Held
<1>1. CASE ~settings.autoRefreshToken
  <2>1. UNCHANGED <<ticker, live, starting>> BY <1>1 DEF FollowVisibility, tickerVars
  <2>2. live \in SUBSET (1..(MaxCalls + 1)) /\ ticker \in live \cup {0} /\ starting \in Nat
    BY DEF Counted, FlagsTyped
  <2>3. Cardinality(live) \in Nat BY <2>2, LiveIsFinite
  <2>4. Held \in Nat BY <2>2, <2>3 DEF Held
  <2>5. Held' = Held BY <2>1 DEF Held
  <2>6. Held' <= Held + 1 BY <2>4, <2>5
  <2> QED BY <1>1, <2>1, <2>2, <2>4, <2>5, <2>6
<1>2. CASE settings.autoRefreshToken /\ shown
  <2>1. Start BY <1>2 DEF FollowVisibility
  <2>2. /\ live' \subseteq 1..(MaxCalls + 1) /\ ticker' = 0 /\ starting' # 0
        /\ Held \in Nat /\ Held' <= Held + 1 /\ (ticker # 0 => Held' = Held)
    BY <2>1, StartCounts
  <2>3. ticker # 0 => Held' <= Held BY <2>2
  <2> QED BY <1>2, <2>2, <2>3
<1>3. CASE settings.autoRefreshToken /\ ~shown
  <2>1. ClearTicker /\ UNCHANGED starting BY <1>3 DEF FollowVisibility
  <2>2. /\ live' \subseteq 1..(MaxCalls + 1) /\ ticker' = 0
        /\ Held \in Nat /\ Held' <= Held /\ (ticker # 0 => Held' <= Held - 1)
    BY <2>1, StopCounts
  <2>3. Held' \in Nat
    <3>1. starting' \in Nat BY <2>1 DEF FlagsTyped
    <3>2. live' \in SUBSET (1..(MaxCalls + 1)) BY <2>2
    <3>3. Cardinality(live') \in Nat BY <3>2, LiveIsFinite
    <3> QED BY <3>1, <3>3 DEF Held
  <2>4. Held' <= Held + 1 BY <2>2, <2>3
  <2> QED BY <1>3, <2>2, <2>4
<1> QED BY <1>1, <1>2, <1>3

(* Every step keeps the count. *)
LEMMA CountKeeps ==
    ASSUME CountInv, [Next]_vars, InLine', Bounded',
           Over(wanted, line) => Over(wanted, line)',
           RunInit => ~Over(wanted, line),
           ~RunInit => (Over(wanted, line)' <=> Over(wanted, line))
    PROVE  Counted'
<1> USE DEF CountInv
<1> DEFINE over == Over(wanted, line)
<1>1. calls \in Nat /\ MaxCalls \in Nat
  BY AutoRefreshAssumption DEF Bounded, AutoRefreshAssumption
<1>2. /\ Held <= calls + 1 /\ (~over => Held <= calls)
      /\ managed /\ settings.autoRefreshToken /\ ticker = 0 /\ starting = 0 => Held <= calls
  BY DEF Counted
<1>3. CASE StartAutoRefresh
  <2>1. Start /\ calls' = calls + 1 /\ ~managed' BY <1>3 DEF StartAutoRefresh
  <2>2. /\ live' \subseteq 1..(MaxCalls + 1) /\ ticker' = 0
        /\ Held \in Nat /\ Held' <= Held + 1 /\ Held' \in Nat
    <3>1. starting' \in Nat BY <2>1 DEF Start, FlagsTyped
    <3>2. live' \in SUBSET (1..(MaxCalls + 1)) BY <2>1, StartCounts
    <3>3. Cardinality(live') \in Nat BY <3>2, LiveIsFinite
    <3> QED BY <2>1, <3>1, <3>3, StartCounts DEF Held
  <2>3. Held' <= calls' + 1 BY <1>1, <1>2, <2>1, <2>2
  <2>4. ~over => Held' <= calls' BY <1>1, <1>2, <2>1, <2>2
  <2>5. ~over' => ~over OBVIOUS
  <2> QED BY <2>1, <2>2, <2>3, <2>4, <2>5 DEF Counted
<1>4. CASE StopAutoRefresh
  <2>1. ClearTicker /\ UNCHANGED starting /\ calls' = calls + 1 /\ ~managed' BY <1>4 DEF StopAutoRefresh
  <2>2. /\ live' \subseteq 1..(MaxCalls + 1) /\ ticker' = 0
        /\ Held \in Nat /\ Held' <= Held /\ Held' \in Nat
    <3>1. starting' \in Nat BY <2>1 DEF FlagsTyped
    <3>2. live' \in SUBSET (1..(MaxCalls + 1)) BY <2>1, StopCounts
    <3>3. Cardinality(live') \in Nat BY <3>2, LiveIsFinite
    <3> QED BY <2>1, <3>1, <3>3, StopCounts DEF Held
  <2>3. Held' <= calls' + 1 BY <1>1, <1>2, <2>1, <2>2
  <2>4. ~over => Held' <= calls' BY <1>1, <1>2, <2>1, <2>2
  <2>5. ~over' => ~over OBVIOUS
  <2> QED BY <2>1, <2>2, <2>3, <2>4, <2>5 DEF Counted
<1>5. CASE SetTicker
  <2>1. calls' = calls BY <1>5 DEF SetTicker, bounds
  <2>2. live' \subseteq 1..(MaxCalls + 1) /\ ticker' \in live' /\ ticker' # 0 /\ Held' = Held
    BY <1>5, SetCounts
  <2>3. ~over' => ~over OBVIOUS
  <2> QED BY <1>2, <2>1, <2>2, <2>3 DEF Counted
<1>6. CASE VisibilityChange
  <2>1. /\ starting = 0 /\ calls' = calls /\ managed' = managed /\ settings' = settings
        /\ IF managed THEN FollowVisibility(~visible) ELSE UNCHANGED tickerVars
    BY <1>6 DEF VisibilityChange
  <2>2. ~over' => ~over OBVIOUS
  <2>3. CASE ~managed
    <3>1. UNCHANGED <<ticker, live, starting>> BY <2>1, <2>3 DEF tickerVars
    <3> QED BY <1>2, <2>1, <2>2, <2>3, <3>1 DEF Counted, Held
  <2>4. CASE managed
    <3>1. FollowVisibility(~visible) /\ (~visible) \in BOOLEAN BY <2>1, <2>4
    <3>2. over BY <2>4 DEF InLine
    <3>3. PICK h, k : h = Held /\ k = Held' OBVIOUS
    <3>4. /\ live' \subseteq 1..(MaxCalls + 1) /\ ticker' \in live' \cup {0}
          /\ h \in Nat /\ k <= h + 1
          /\ settings.autoRefreshToken /\ ticker # 0 => k <= h
          /\ settings.autoRefreshToken /\ starting' = 0 => k <= h
          /\ settings.autoRefreshToken /\ starting' = 0 /\ ticker # 0 => k <= h - 1
          /\ ~settings.autoRefreshToken => k = h
      BY <3>1, <3>3, FollowCounts
    <3>5. k \in Nat
      <4>1. live' \in SUBSET (1..(MaxCalls + 1)) /\ starting' \in Nat
        BY <3>1, <3>4 DEF FollowVisibility, Start, FlagsTyped, tickerVars
      <4>2. Cardinality(live') \in Nat BY <4>1, LiveIsFinite
      <4> QED BY <3>3, <4>1, <4>2 DEF Held
    <3>6. h <= calls + 1 /\ (settings.autoRefreshToken /\ ticker = 0 => h <= calls)
      BY <1>2, <2>1, <2>4, <3>3
    <3>7. k <= calls + 1
      <4>1. CASE ~settings.autoRefreshToken BY <1>1, <3>4, <3>6, <4>1
      <4>2. CASE settings.autoRefreshToken /\ ticker # 0 BY <1>1, <3>4, <3>5, <3>6, <4>2
      <4>3. CASE settings.autoRefreshToken /\ ticker = 0 BY <1>1, <3>4, <3>5, <3>6, <4>3
      <4> QED BY <4>1, <4>2, <4>3
    <3>8. ASSUME settings.autoRefreshToken, starting' = 0 PROVE k <= calls
      <4>1. CASE ticker # 0 BY <1>1, <3>4, <3>5, <3>6, <3>8, <4>1
      <4>2. CASE ticker = 0 BY <1>1, <3>4, <3>5, <3>6, <3>8, <4>2
      <4> QED BY <4>1, <4>2
    <3> QED BY <2>1, <3>2, <3>3, <3>4, <3>7, <3>8 DEF Counted
  <2> QED BY <2>3, <2>4
<1>7. CASE RunInit
  <2>1. /\ calls' = calls /\ settings' = settings
        /\ FollowVisibility(visible \/ ~settings.browser)
        /\ (visible \/ ~settings.browser) \in BOOLEAN
    BY <1>7 DEF RunInit, FlagsTyped
  <2>2. ~over /\ over'
    <3>1. ~over BY <1>7
    <3>2. line # <<>> /\ Head(line) = "init" /\ EndOperation /\ managed' \in BOOLEAN
      BY <1>7 DEF RunInit, FlagsTyped
    <3>3. over' BY <3>2, EndKeeps
    <3> QED BY <3>1, <3>3
  <2>3. PICK h, k : h = Held /\ k = Held' OBVIOUS
  <2>4. /\ live' \subseteq 1..(MaxCalls + 1) /\ ticker' \in live' \cup {0}
        /\ h \in Nat /\ k <= h + 1
        /\ settings.autoRefreshToken /\ starting' = 0 => k <= h
    BY <2>1, <2>3, FollowCounts
  <2>5. k \in Nat
    <3>1. live' \in SUBSET (1..(MaxCalls + 1)) /\ starting' \in Nat
      BY <2>1, <2>4 DEF FollowVisibility, Start, FlagsTyped, tickerVars
    <3>2. Cardinality(live') \in Nat BY <3>1, LiveIsFinite
    <3> QED BY <2>3, <3>1, <3>2 DEF Held
  <2>6. h <= calls BY <1>2, <2>2, <2>3
  <2>7. k <= calls + 1 BY <1>1, <2>4, <2>5, <2>6
  <2>8. ASSUME settings.autoRefreshToken, starting' = 0 PROVE k <= calls
    BY <1>1, <2>4, <2>5, <2>6, <2>8
  <2> QED BY <2>1, <2>2, <2>3, <2>4, <2>7, <2>8 DEF Counted
<1>8. ASSUME UNCHANGED <<ticker, live, starting, calls, managed, settings>>, ~RunInit PROVE Counted'
  BY <1>2, <1>8 DEF Counted, Held
<1>9. CASE Grant \/ Tick \/ FirstTick \/ Return \/ Elsewhere \/ SessionChange
  <2>1. UNCHANGED <<ticker, live, starting, calls, managed, settings>>
    BY <1>9 DEF Grant, Tick, FirstTick, Return, Elsewhere, SessionChange, tickerVars, bounds
  <2> QED BY <1>7, <1>8, <2>1
<1>10. CASE RunTick \/ RunRecover \/ UNCHANGED vars
  <2>1. UNCHANGED <<ticker, live, starting, calls, managed, settings>>
    BY <1>10 DEF RunTick, RunRecover, vars, tickerVars, bounds
  <2> QED BY <1>7, <1>8, <2>1
<1> QED BY <1>3, <1>4, <1>5, <1>6, <1>7, <1>9, <1>10 DEF Next

(* What the bounds limit. *)
LEMMA BoundsKeep ==
    ASSUME FlagsTyped, Bounded, [Next]_vars
    PROVE  Bounded'
<1> USE AutoRefreshAssumption DEF AutoRefreshAssumption
<1>1. CASE StartAutoRefresh \/ StopAutoRefresh
  BY <1>1 DEF StartAutoRefresh, StopAutoRefresh, Bounded
<1>2. CASE SetTicker
  BY <1>2 DEF SetTicker, Bounded, bounds
<1>3. CASE VisibilityChange
  <2>1. changes < MaxChanges /\ changes' = changes + 1 /\ returning' \in {returning, returning + 1}
        /\ UNCHANGED <<first, session, calls, faults>>
    BY <1>3 DEF VisibilityChange
  <2> QED BY <2>1 DEF Bounded
<1>4. CASE Grant \/ Tick \/ Elsewhere \/ UNCHANGED vars
  BY <1>4 DEF Grant, Tick, Elsewhere, Bounded, bounds, vars
<1>5. CASE FirstTick \/ Return
  BY <1>5 DEF FirstTick, Return, Bounded, bounds
<1>6. ASSUME Refresh \/ UNCHANGED <<session, faults>>
      PROVE  session' \in SessionState /\ faults' \in 0..MaxFaults
  BY <1>6 DEF Refresh, Bounded, SessionState
<1>7. CASE RunTick \/ RunRecover \/ RunInit
  <2>1. UNCHANGED <<first, returning, calls, changes>> /\ (Refresh \/ UNCHANGED <<session, faults>>)
    BY <1>7 DEF RunTick, RunRecover, RunInit, Recover
  <2> QED BY <1>6, <2>1 DEF Bounded
<1>8. CASE SessionChange
  <2>1. session' \in {"fresh", "near", "expired"} BY <1>8 DEF SessionChange
  <2> QED BY <1>8, <2>1 DEF SessionChange, Bounded, bounds, SessionState
<1> QED BY <1>1, <1>2, <1>3, <1>4, <1>5, <1>7, <1>8 DEF Next

(* The variables keep their types: all the more, the intervals that run are at most one for each
   call and one for _initialize, however often the visibility changes and whatever overlaps. *)
THEOREM Typed == Spec => []TypeOK
<1>1. Init => CountInv
  <2> SUFFICES ASSUME Init PROVE CountInv OBVIOUS
  <2>1. FlagsTyped BY InitTracks DEF IInv
  <2>2. InLine BY Apart DEF Init, InLine, Waits
  <2>3. Cardinality({}) = 0 BY FS_EmptySet
  <2>4. Held = 0 BY <2>3 DEF Init, Held
  <2>5. Counted BY <2>4 DEF Init, Counted
  <2>6. Bounded BY AutoRefreshAssumption DEF Init, Bounded, AutoRefreshAssumption
  <2> QED BY <2>1, <2>2, <2>5, <2>6 DEF CountInv
<1>2. IInv /\ CountInv /\ [Next]_vars => CountInv'
  <2> SUFFICES ASSUME IInv, CountInv, [Next]_vars PROVE CountInv' OBVIOUS
  <2>1. FlagsTyped' BY NextTracks DEF IInv
  <2>2. /\ InLine'
        /\ Over(wanted, line) => Over(wanted, line)'
        /\ RunInit => ~Over(wanted, line)
        /\ ~RunInit => (Over(wanted, line)' <=> Over(wanted, line))
    BY LineKeeps DEF CountInv
  <2>3. Bounded' BY BoundsKeep DEF CountInv
  <2>4. Counted' BY <2>2, <2>3, CountKeeps
  <2> QED BY <2>1, <2>2, <2>3, <2>4 DEF CountInv
<1>3. IInv /\ CountInv => TypeOK
  <2> SUFFICES ASSUME IInv, CountInv PROVE TypeOK OBVIOUS
  <2> USE DEF CountInv
  <2>1. wanted \in Seq(Operation) /\ line \in Seq(Operation)
    <3>1. CASE Waits(wanted, line) BY <3>1 DEF Waits, Operation
    <3>2. CASE Runs(wanted, line) BY <3>2 DEF Runs
    <3>3. CASE Over(wanted, line)
      <4>1. Later \subseteq Operation BY DEF Later, Operation
      <4> QED BY <3>3, <4>1, SequencesOf DEF Over
    <3> QED BY <3>1, <3>2, <3>3 DEF InLine
  <2>2. starting \in 0..(MaxCalls + 1)
    <3>1. live \in SUBSET (1..(MaxCalls + 1)) BY DEF Counted
    <3>2. PICK n : n = Cardinality(live) OBVIOUS
    <3>3. n \in Nat BY <3>1, <3>2, LiveIsFinite
    <3>4. starting + n <= calls + 1 /\ starting \in Nat BY <3>2 DEF Counted, Held, FlagsTyped
    <3>5. calls \in 0..MaxCalls BY DEF Bounded
    <3> QED BY <3>3, <3>4, <3>5, AutoRefreshAssumption DEF AutoRefreshAssumption
  <2>3. returning \in 0..MaxChanges
    BY AutoRefreshAssumption DEF Bounded, AutoRefreshAssumption
  <2>4. /\ live \subseteq 1..(MaxCalls + 1) /\ ticker \in live \cup {0}
    BY DEF Counted
  <2>5. /\ elsewhere \in BOOLEAN /\ initialized \in BOOLEAN
        /\ elsewhere => line = <<>>
    BY DEF InLine
  <2>6. stopped \in {"no", "yes", "overruled"}
    BY DEF IInv
  <2> QED BY <2>1, <2>2, <2>3, <2>4, <2>5, <2>6 DEF TypeOK, FlagsTyped, Bounded
<1>4. Spec => []CountInv BY <1>1, <1>2, Tracks, PTL DEF Spec
<1> QED BY <1>3, <1>4, Tracks, PTL
=============================================================================
