---------------------------- MODULE AutoRefresh ----------------------------
(***************************************************************************)
(* The background refresh of one GoTrueClient (auth-js): the interval that *)
(* startAutoRefresh sets and stopAutoRefresh clears, the visibilitychange  *)
(* callback that manages both, the ticks they cause, and initialize, which *)
(* sets all of it up while it has the lock.  A tick asks for the lock only *)
(* if it is available, but waits in line behind an operation of its own    *)
(* client.  How a refresh works is left to AuthSession.                    *)
(*                                                                         *)
(* Promise reactions run before the next event: a timer fires, or the      *)
(* visibility changes, only when no _startAutoRefresh is half done.  The   *)
(* application may call in a reaction or in an event, so at any time.      *)
(***************************************************************************)
EXTENDS Naturals, Sequences, SequencesExt

CONSTANTS
    MaxCalls,               \* bound: calls of startAutoRefresh and stopAutoRefresh
    MaxChanges,             \* bound: changes of the visibility
    MaxFaults,              \* bound: refreshes that fail for a reason that passes
    MaxLine                 \* bound: operations in line when an interval fires

ASSUME AutoRefreshAssumption ==
    /\ MaxCalls \in Nat /\ MaxChanges \in Nat
    /\ MaxFaults \in Nat /\ MaxLine \in Nat \ {0}

VARIABLES
    settings,               \* isBrowser() and the option autoRefreshToken
    visible,                \* document.visibilityState
    managed,                \* visibilityChangedCallback is installed
    ticker,                 \* autoRefreshTicker, 0 for null
    live,                   \* the intervals set and not cleared
    starting,               \* _startAutoRefresh calls awaiting _stopAutoRefresh
    first,                  \* timeouts for a first tick that have not fired
    returning,              \* visibility callbacks awaiting initializePromise
    wanted,                 \* requests of this client for the lock of all tabs
    line,                   \* its operations under the lock, the running one first
    elsewhere,              \* another tab has the lock
    initialized,            \* initializePromise has resolved
    session,                \* what is left of the stored session
    calls, changes, faults, \* what the bounds limit
    raced,                  \* history: a start was half done at another start or stop
    stopped                 \* history: stopAutoRefresh came last; initialize overruled it

tickerVars == <<ticker, live, starting, raced>>
lockVars == <<wanted, line, elsewhere, initialized>>
bounds == <<calls, changes, faults>>
vars == <<settings, visible, managed, tickerVars, stopped, first, returning, lockVars, session,
          bounds>>

(* "near": within AUTO_REFRESH_TICK_THRESHOLD ticks of its expiry, so that a
   tick refreshes it; "expired": within EXPIRY_MARGIN_MS, so that any call does. *)
SessionState == {"none", "fresh", "near", "expired"}

Operation == {"init", "recover", "tick"}

Init ==
    /\ settings \in [browser : BOOLEAN, autoRefreshToken : BOOLEAN]
    /\ visible \in BOOLEAN
    /\ managed = FALSE
    /\ ticker = 0 /\ live = {} /\ starting = 0
    /\ first = 0 /\ returning = 0
    /\ wanted = <<"init">> /\ line = <<>>
    /\ elsewhere \in BOOLEAN
    /\ initialized = FALSE
    /\ session \in SessionState
    /\ calls = 0 /\ changes = 0 /\ faults = 0
    /\ raced = FALSE /\ stopped = "no"
-----------------------------------------------------------------------------
\* _stopAutoRefresh, up to its end: it awaits nothing.
ClearTicker ==
    /\ live' = live \ {ticker}
    /\ ticker' = 0
    /\ raced' = (raced \/ starting > 0)

\* Variant to refute: _startAutoRefresh does not stop what runs.
StartOver ==
    /\ UNCHANGED <<live, ticker>>
    /\ raced' = (raced \/ starting > 0)
    /\ starting' = starting + 1

\* _startAutoRefresh, up to its await.
Start ==
    /\ ClearTicker
    /\ starting' = starting + 1

\* _startAutoRefresh after its await: setInterval, and a timeout for the first tick.
SetTicker ==
    /\ starting > 0
    /\ starting' = starting - 1
    /\ LET id == CHOOSE i \in 1..(MaxCalls + 1) : i \notin live IN
          /\ ticker' = id
          /\ live' = live \cup {id}
    /\ first' = first + 1
    /\ UNCHANGED <<settings, visible, managed, raced, stopped, returning, lockVars, session,
                   bounds>>

StartAutoRefresh ==
    /\ calls < MaxCalls /\ calls' = calls + 1
    /\ managed' = FALSE
    /\ Start
    /\ stopped' = "no"
    /\ UNCHANGED <<settings, visible, first, returning, lockVars, session, changes, faults>>

\* Variant to refute: stopAutoRefresh leaves the visibility callback installed.
StopKeepsCallback ==
    /\ calls < MaxCalls /\ calls' = calls + 1
    /\ ClearTicker
    /\ stopped' = "yes"
    /\ UNCHANGED <<settings, visible, managed, starting, first, returning, lockVars, session,
                   changes, faults>>

StopAutoRefresh ==
    /\ calls < MaxCalls /\ calls' = calls + 1
    /\ managed' = FALSE
    /\ ClearTicker
    /\ stopped' = "yes"
    /\ UNCHANGED <<settings, visible, starting, first, returning, lockVars, session, changes,
                   faults>>

\* Variant to refute: a hidden tab keeps its ticker.
FollowVisible(shown) ==
    IF settings.autoRefreshToken /\ shown THEN Start ELSE UNCHANGED tickerVars

\* What the visibility means for the ticker.
FollowVisibility(shown) ==
    IF ~settings.autoRefreshToken
      THEN UNCHANGED tickerVars
      ELSE IF shown THEN Start ELSE ClearTicker /\ UNCHANGED starting

\* _onVisibilityChanged(false), as an event.
VisibilityChange ==
    /\ starting = 0
    /\ settings.browser
    /\ changes < MaxChanges /\ changes' = changes + 1
    /\ visible' = ~visible
    /\ IF managed THEN FollowVisibility(~visible) ELSE UNCHANGED tickerVars
    /\ returning' = IF managed /\ ~visible THEN returning + 1 ELSE returning
    /\ UNCHANGED <<settings, managed, stopped, first, lockVars, session, calls, faults>>
-----------------------------------------------------------------------------
\* The lock of all tabs is given to the next request of this client.
Grant ==
    /\ wanted # <<>> /\ line = <<>> /\ ~elsewhere
    /\ line' = <<Head(wanted)>>
    /\ wanted' = Tail(wanted)
    /\ UNCHANGED <<settings, visible, managed, tickerVars, stopped, first, returning, elsewhere,
                   initialized, session, bounds>>

\* Variant to refute: the tick does not ask whether the lock is available.
EnqueueTickAnyway ==
    /\ line' = Append(line, "tick")
    /\ UNCHANGED <<wanted, elsewhere, initialized>>

\* _acquireLock(0, ...): in line behind an operation of this client, or the lock if
\* it is available; if it is not, the tick is dropped.
EnqueueTick ==
    /\ line # <<>> \/ (wanted = <<>> /\ ~elsewhere)
    /\ line' = Append(line, "tick")
    /\ UNCHANGED <<wanted, elsewhere, initialized>>

\* An interval fires.
Tick ==
    /\ starting = 0 /\ live # {}
    /\ Len(line) < MaxLine
    /\ EnqueueTick
    /\ UNCHANGED <<settings, visible, managed, tickerVars, stopped, first, returning, session,
                   bounds>>

\* The timeout for a first tick fires and initializePromise resolves; nothing
\* cancels it.
FirstTick ==
    /\ starting = 0 /\ first > 0
    /\ initialized
    /\ first' = first - 1
    /\ EnqueueTick \/ (line = <<>> /\ (wanted # <<>> \/ elsewhere) /\ UNCHANGED lockVars)
    /\ UNCHANGED <<settings, visible, managed, tickerVars, stopped, returning, session, bounds>>

\* The visibility callback goes on once initializePromise resolves: _acquireLock(-1).
Return ==
    /\ returning > 0 /\ initialized
    /\ returning' = returning - 1
    /\ IF line # <<>>
         THEN line' = Append(line, "recover") /\ UNCHANGED wanted
         ELSE wanted' = Append(wanted, "recover") /\ UNCHANGED line
    /\ UNCHANGED <<settings, visible, managed, tickerVars, stopped, first, elsewhere, initialized,
                   session, bounds>>

\* The first in line ends; the lock is given back, and the promise of the operation
\* that took it resolves, when the line is empty.
EndOperation ==
    /\ line' = Tail(line)
    /\ initialized' = (initialized \/ Len(line) = 1)
    /\ UNCHANGED <<wanted, elsewhere>>

\* _callRefreshToken: a new session, an error that passes, or a refusal.
Refresh ==
    \/ session' \in {"fresh", "none"} /\ UNCHANGED faults
    \/ faults < MaxFaults /\ faults' = faults + 1 /\ UNCHANGED session

\* Variant to refute: the tick leaves a session alone that has expired already.
RunTickInTime ==
    /\ line # <<>> /\ Head(line) = "tick"
    /\ IF session = "near" THEN Refresh ELSE UNCHANGED <<session, faults>>
    /\ EndOperation
    /\ UNCHANGED <<settings, visible, managed, tickerVars, stopped, first, returning, calls,
                   changes>>

\* _autoRefreshTokenTick under the lock.
RunTick ==
    /\ line # <<>> /\ Head(line) = "tick"
    /\ IF session \in {"near", "expired"} THEN Refresh ELSE UNCHANGED <<session, faults>>
    /\ EndOperation
    /\ UNCHANGED <<settings, visible, managed, tickerVars, stopped, first, returning, calls,
                   changes>>

\* _recoverAndRefresh.
Recover ==
    IF session = "expired" /\ settings.autoRefreshToken
      THEN Refresh
      ELSE UNCHANGED <<session, faults>>

\* The visibility callback under the lock: no longer visible, abort.
RunRecover ==
    /\ line # <<>> /\ Head(line) = "recover"
    /\ IF visible THEN Recover ELSE UNCHANGED <<session, faults>>
    /\ EndOperation
    /\ UNCHANGED <<settings, visible, managed, tickerVars, stopped, first, returning, calls,
                   changes>>

\* _initialize under the lock, with _handleVisibilityChange at its end, which knows of
\* no stopAutoRefresh before it; without a browser that is startAutoRefresh.
RunInit ==
    /\ line # <<>> /\ Head(line) = "init"
    /\ Recover
    /\ managed' = settings.browser
    /\ FollowVisibility(visible \/ ~settings.browser)
    /\ stopped' = IF stopped = "yes" /\ settings.autoRefreshToken THEN "overruled" ELSE stopped
    /\ EndOperation
    /\ UNCHANGED <<settings, visible, first, returning, calls, changes>>
-----------------------------------------------------------------------------
\* Another tab takes the lock, behind the requests of this one, and gives it back.
Elsewhere ==
    /\ elsewhere \/ (line = <<>> /\ wanted = <<>>)
    /\ elsewhere' = ~elsewhere
    /\ UNCHANGED <<settings, visible, managed, tickerVars, stopped, first, returning, wanted,
                   line,
                   initialized, session, bounds>>

\* Time passes, or a user signs in.
SessionChange ==
    /\ session' = CASE session = "none"  -> "fresh"
                    [] session = "fresh" -> "near"
                    [] OTHER             -> "expired"
    /\ UNCHANGED <<settings, visible, managed, tickerVars, stopped, first, returning, lockVars,
                   bounds>>

Next ==
    \/ StartAutoRefresh \/ StopAutoRefresh \/ SetTicker \/ VisibilityChange
    \/ Grant \/ Tick \/ FirstTick \/ Return
    \/ RunTick \/ RunRecover \/ RunInit
    \/ Elsewhere \/ SessionChange

(* Promise reactions run, timers fire, operations and other tabs give the lock
   back.  An interval meets the lock available again and again: no other tab
   takes it at each and every tick. *)
Fairness ==
    /\ WF_vars(SetTicker) /\ WF_vars(Grant)
    /\ WF_vars(FirstTick) /\ WF_vars(Return)
    /\ WF_vars(RunTick) /\ WF_vars(RunRecover) /\ WF_vars(RunInit)
    /\ WF_vars(elsewhere /\ Elsewhere)
    /\ SF_vars(Tick)

Spec == Init /\ [][Next]_vars

FairSpec == Spec /\ Fairness
-----------------------------------------------------------------------------
TypeOK ==
    /\ settings \in [browser : BOOLEAN, autoRefreshToken : BOOLEAN]
    /\ visible \in BOOLEAN /\ managed \in BOOLEAN
    /\ live \subseteq 1..(MaxCalls + 1)
    /\ ticker \in live \cup {0}
    /\ starting \in 0..(MaxCalls + 1)
    /\ first \in Nat /\ returning \in 0..MaxChanges
    /\ wanted \in Seq(Operation) /\ line \in Seq(Operation)
    /\ elsewhere \in BOOLEAN /\ initialized \in BOOLEAN
    /\ elsewhere => line = <<>>
    /\ session \in SessionState
    /\ calls \in 0..MaxCalls /\ changes \in 0..MaxChanges /\ faults \in 0..MaxFaults
    /\ raced \in BOOLEAN /\ stopped \in {"no", "yes", "overruled"}

(* No interval runs that autoRefreshTicker has lost, and so none that
   stopAutoRefresh could not clear, unless a start overlapped with another. *)
TickerTracked == ~raced => live = {ticker} \ {0}

(* After stopAutoRefresh no interval runs until the next startAutoRefresh, and
   none is about to, however the visibility changes and whatever still waits for
   initializePromise or the lock.  Two stops do not hold: one that overlapped with a
   start, and one before initialize ended, which then starts or manages the ticker all
   the same, although the doc of stopAutoRefresh leaves the visibility to the caller. *)
StopHolds == stopped = "yes" /\ ~raced => live = {} /\ starting = 0

(* While the visibility callback is installed the ticker runs in a visible tab
   and in no hidden one, whatever came before initialize installed it. *)
TickerFollowsVisibility ==
    managed /\ settings.autoRefreshToken /\ starting = 0 /\ ~raced =>
        (ticker # 0 <=> visible)

(* "If refreshing fails it will be retried for as long as necessary": a session
   that has expired is refreshed, or found refused, while an interval runs. *)
ExpiredIsHandled ==
    session = "expired" /\ live # {} ~> session # "expired" \/ live = {}

(* The doc of stopAutoRefresh: "Stops an active auto refresh process running in
   the background (if any)": no interval runs once the calls are done. *)
StopStops == stopped = "yes" /\ starting = 0 => live = {}
=============================================================================
