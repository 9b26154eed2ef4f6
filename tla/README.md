# TLA+ models of the Supabase JavaScript client

This directory holds a TLA+ development of the client libraries under
`src/packages/core`: modules translated from the TypeScript code, TLC
configurations that check them on small instances, and proofs of their main
invariants that TLAPS checks. `PROJECT.json` lists the components, the runs,
the variants of the code that the runs must refute, the lines each definition
stands for, the findings, the hazards and the theorems.

Everything below is about one commit; line numbers in `PROJECT.json` are of
that commit.

## 1. The system

| Component | State it keeps | Operations | Interacts with |
|---|---|---|---|
| auth-js `locks.ts` | `PROCESS_LOCKS`, the browser's LockManager | `processLock`, `navigatorLock` | called by `_acquireLock` |
| auth-js `GoTrueClient`, lock | `lockAcquired`, `pendingInLock` | `_acquireLock` | the lock function; every public method that touches the session |
| auth-js `GoTrueClient`, session | the session in storage, `refreshingDeferred`, `stateChangeEmitters` | `getSession`, `setSession`, `refreshSession`, `signOut`, sign-ins, `_recoverAndRefresh`, `_callRefreshToken`, `_saveSession`, `_removeSession` | auth server, storage shared by tabs, subscribers, a BroadcastChannel |
| auth-js `GoTrueClient`, auto refresh | `autoRefreshTicker`, `visibilityChangedCallback`, `initializePromise` | `startAutoRefresh`, `stopAutoRefresh`, the tick, the visibility callback, `initialize` | timers, the page, the lock |
| auth-js, other methods | the code verifier in storage | sign-ins, PKCE, the session from the URL, users, identities, MFA, OAuth, web3 | auth server, storage, subscribers, the lock |
| auth-js claims | the JWKS cache and its age | `getClaims`, `fetchJwk` | auth server |
| auth-js WebAuthn | the controller of `webAuthnAbortService` | `register`, `authenticate`, `cancelCeremony` | browser, MFA requests |
| auth-js admin API | none | one request per method | auth server |
| realtime-js client | `conn`, `_connectionState`, `channels`, `sendBuffer`, `pendingHeartbeatRef`, timers, `_authPromise` | `connect`, `disconnect`, `sendHeartbeat`, `setAuth`, `push`, connection handlers | WebSocket, channels |
| realtime-js channel, push | `state`, `bindings`, `joinPush`, `pushBuffer`, `rejoinTimer`, `timeoutTimer` | `subscribe`, `unsubscribe`, `_push`, `_trigger`, `teardown`, reply and timeout of a push | client, server |
| realtime-js presence | `state`, `pendingDiffs`, `joinRef` | `syncState`, `syncDiff` | channel |
| realtime-js serializer, transformers | none | encode, decode, convert | client |
| postgrest-js | a URL and headers that builders share | builder methods, `then` | fetch |
| storage-js, functions-js | none, but for the download builders | one request per call | fetch, abort signals, timers |
| supabase-js | `changedAccessToken`, the sub-clients | composition: auth events set the realtime token, requests fetch a token | all of the above |

Behaviours that are hard here:

* **Concurrency.** JavaScript runs one thread per tab, and yields at every
  `await`; tabs run side by side and share the storage and the lock manager.
  Whatever was read before an `await` may be stale after it.
* **Failure.** Requests fail before or after the server acted (refresh tokens
  rotate, so a lost answer matters), storage and subscribers throw, operations
  under the lock reject, pages go away with a token in hand.
* **Ordering.** Promise reactions run before timers; operations queue behind
  each other in the lock; a reply may come after the timeout of its push.
* **Timeouts and retries.** Acquire timeouts, the 30 s window of a refresh, the
  ticker, reconnect and rejoin timers, heartbeats.

What makes the components correct:

* the lock: one operation at a time, first come first served, nobody forgotten,
  whatever times out or fails (`MutualExclusion`, `LockSpec`,
  `EveryRequestAnswered`);
* the client's lock: the same for the operations of clients that nest
  (`OneAtATimeUnlessLeft`, `QueuedInOrder`, `EveryOperationSettles`);
* the session: one refresh in flight per client, storage holds the newest
  token, a used token is never presented again without a cause, a sign-out is
  not undone, every call is answered (`SingleFlight`, `StoredIsCurrent`,
  `ReuseHasCause`, `SignedOutStays`, `EveryCallEnds`);
* auto refresh: at most one interval, which a stop ends and the visibility
  controls, and an expired session refreshed while it runs (`TickerTracked`,
  `StopHolds`, `TickerFollowsVisibility`, `ExpiredIsHandled`);
* realtime: a channel's state agrees with its timers and with the server
  (`RejoinArmed`, `JoinedAgrees`), what became of a push is final
  (`PushSettled`), a lost connection and a lost join are made again
  (`Reconnects`, `Joins`), the token of the session reaches the server
  (`TokenSettles`), presence equals the server's state (`PresenceAgrees`);
* the auth methods: what subscribers were told is what is stored
  (`ToldIsStored`), and a code can be redeemed until something takes its
  verifier rightly (`CodeRedeemable`); withdrawn keys are not trusted for long
  (`KeysFresh`); the browser is asked for one ceremony at a time
  (`OneCeremony`);
* requests: what is sent is what the chain of calls says (`RequestIsItsChain`),
  and what comes back is told as it was and in the way that was asked for
  (`FailuresShow`).

## 2. Modules

### ExclusiveLock

The abstract lock that `LockFunc` (auth-js `lib/types.ts`) asks for: a call
asks, waits, holds and is over; the lock passes to who waited longest; a
waiting call may give up.

### ProcessLock

`processLock`. `PROCESS_LOCKS[name]` is `tail`, the promise a call leaves there
is its `entry`, `previousOperation` is `previous`, `currentOperation` is
`operation`. `Call` is the code up to the first `await`. `Start` is the race
won by the previous operation and the start of `fn`; `Timeout` the race won by
the timer; `Finish` and `FinishRefused` the end of `fn`; `Forward` the `catch`
that awaits the previous operation. Microtasks run before the event loop takes
a timer, so `Timeout` needs `Microtasks = {}`. Names share nothing, one is
modelled.

### NavigatorLock

`navigatorLock` over an external `LockManager`, modelled from the options the
code passes and the cases its callback handles: `ifAvailable` for timeout 0
(`Refused`), a signal for positive ones (`Abort`), a null lock without
`ifAvailable` (`NullLock`). `PageGone` is the page being closed; the manager
then drops its request or lock.

### AuthLock

`GoTrueClient._acquireLock` over `ExclusiveLock` (an INSTANCE whose actions its
own actions call). `AskForLock` and `QueueInLock` are its two branches,
`EnterLock` the start of the callback, `FirstFails`, `FirstEnds`, `Drain` and
`Leave` the awaits of the callback, `StartQueued` and `End` the operations.
`left` is a history variable: the operations that were still queued or running
when the lock of their client was given back.

### AuthSession

The session of one storage key. A call (`KindOf`) is one of

| kind | code |
|---|---|
| `get` | `getSession` and what goes through `_useSession` under the lock |
| `emit` | `onAuthStateChange`: the INITIAL_SESSION emission, started under the lock and not awaited there |
| `recover` | `_recoverAndRefresh` at startup or when the page becomes visible |
| `set` | `setSession` |
| `signIn` | the sign-in methods, which save without the lock |
| `signOut` | `signOut` with a scope other than `others` |

A session is a user (one sign-in), the generation of its refresh token and
whether its access token is still good. The server (external) rotates tokens:
it redeems the newest token of a user once and refuses older ones. A server
with a reuse interval would accept an older token for some seconds; the model
is the strict one, in which a mistake shows. Calls that take the lock run one
at a time over all clients: this is what AuthLock examines, and AuthSession
assumes it. `Begin` reads storage; `RefreshStored` and `SetExpired` call
`_callRefreshToken` (`CallRefreshToken`), which joins `refreshingDeferred` or
creates it; `Redeem`, `Retry` and `GiveUp` are `_refreshAccessToken`;
`SaveRefreshed`, `SaveFails`, `NotifyRefreshed`, `Remove`, `NotifyRemoved` and
`RemoveFails` the rest of `_callRefreshToken` up to its `finally`.
`setSession` brings the newest refresh token of its user or an older one
(`Brought`). With an access token that has expired it refreshes (`SetExpired`);
with a good one it asks for the user and saves both tokens, the refresh token
unchecked (`SignIn`, `SaveSignIn`), or fails (`SetFails`): a session that is
gone on the server is removed from storage. `UseStored` has `_recoverAndRefresh`
with the option `autoRefreshToken` off too. An answer that `handleError` cannot
read makes the refresh throw what is no AuthError (`GiveUp`). `lost`, `loose`,
`spent` and `signedOut` are history variables; `faults` bounds how many things
go wrong. Left out: an invalid session in storage, `userStorage`, the user
object, what an event carries.

### AutoRefresh

The background refresh of one client. `ticker` is `autoRefreshTicker`, `live`
the intervals that the platform still fires, so that an interval the client
lost stays visible. `_startAutoRefresh` awaits `_stopAutoRefresh` before it
sets the interval: `Start` is the code up to that `await`, `SetTicker` the code
after it, and `starting` counts the calls between the two. Reactions run before
the next event, so `VisibilityChange`, `Tick` and `FirstTick` need
`starting = 0`; the application's own calls do not. `line` is what the lock of
the client holds and queues, `wanted` its requests to the lock of all tabs,
`elsewhere` that another tab has it: a tick is dropped when the lock is not
available and waits behind an operation of its own client (`EnqueueTick`).
`RunInit` is `_initialize` under the lock with `_handleVisibilityChange` at its
end; `initialized` is that `initializePromise` has resolved, which the drain of
`_acquireLock` delays. A session is fresh, within reach of a tick, expired or
gone; how it is refreshed is AuthSession's matter, here a refresh has one of
three outcomes. `stopped` is history: a `stopAutoRefresh` has come after every
`startAutoRefresh`, and whether `_initialize` has overruled it since. Left out:
a sign-in from the URL during `_initialize` (see
AuthApi), other calls of the client (they would only make `line` longer), the
BroadcastChannel.

### AuthApi

The other methods of GoTrueClient. A method is the set of step sequences its
code may take (`signUp`, `updateUser`, `challengeAndVerify` ...), and an action
per kind of step says what it does: wait for `initializePromise`, take and give
back the lock, load the session, need one, ask the server in one of several
ways with one of several outcomes, store, take and forget the code verifier,
save, remove, notify. So any two methods, and `_initialize` with what the URL
has, interleave at every `await`. Sessions and flows are named for the call
that began them. `lost`, `spoiled` and `crossed` are history variables.
Refreshes when a session is loaded are AuthSession's.

### JwksCache and WebAuthn

`getClaims` and `fetchJwk`: the cached set, its age, requests that overlap and
are answered late, a server that publishes and withdraws keys, a clock.
`cached_at` is the time the call began with, as in the code.
WebAuthn: `_register` and `_authenticate` step by step, the one controller of
`webAuthnAbortService`, signals of the application's own, the errors of the
browser and the codes the library makes of them, and the removal of a factor of
the same name after a failed enrollment.

### RealtimeChannel, RealtimeClient

RealtimeChannel has what each handler does to one channel: an operator from its
record to its record afterwards (`Errored`, `Left`, `TornDown`, `Resent`,
`JoinOk` ...), with the join push and the rejoin timer that belong to it.
RealtimeClient composes channels of one topic with the socket: WebSockets that
open, fail, die without telling, or are replaced before they open; the
heartbeat; the reconnect timer; the fallback timers of `disconnect` and of a
missed heartbeat; the send buffer; pushes, the push buffer and their timeouts;
removals that go on after an `await`. What runs in one turn of the event loop
is one step, and promise reactions (`tails`) run before the next event. Several
channel objects are made one after another for one topic: topics share nothing
but the socket. The server is external: one channel process per topic and
WebSocket, messages in order, failures counted by `MaxEvents`.

### RealtimeAuth

How a token gets from the session to the server: `_handleTokenChanged`,
`_getAccessToken`, `setAuth` and `_performAuth` with `_authPromise`, the
payload of joins, the flush of the send buffer that waits for the auth, the
heartbeat that asks for the token. Calls of `setAuth` overlap.

### RealtimePresence

`syncState`, `syncDiff` and `pendingDiffs`, against a server whose diffs may
overtake the state and whose messages of an earlier join may come late.
`joinCount` counts the joins; `joinRef` is the last one's ref, or none when
`Push.resend` sent it again without making one. `told`
is what a subscriber makes of the join and leave events.

### PostgrestQuery and LibraryCalls

PostgrestQuery: each builder method as what it does to the URL parameters, the
headers and the flags, which builders made from one query builder share.
LibraryCalls: one call of storage-js, postgrest-js, functions-js or the admin
API from its arguments to its outcome. A method is what it asks of the answer;
aborts, timeouts, answers of every shape and bodies that break off interleave,
and builders may be awaited again. An error of the auth server whose body is
`null` is thrown whatever was set (`NullError`): auth-js reads a field of it.

### Conversions

Pure algorithms with their reference definitions: base64url, UTF-8, the binary
frames of the serializer, the paths of storage-js. The statements are
assumptions that TLC evaluates with the run `library`.

### MCRealtime and MCLibrary

Modules that share no state are checked in one run: a behaviour is one of the
module that `part` names, the variables of the others stay as they begin. A
property of one part says nothing of the others (`KeysFresh` is
`part = "jwks" => Jwks!KeysFresh`). In MCRealtime the part that does not run is
in its initial state, in which none of its fair actions is enabled.

## 3. Runs

| Run | What it shows | Bounds |
|---|---|---|
| `process_lock` | `processLock` implements `ExclusiveLock`; entries settle in order; no spurious timeout; untimed calls run | four calls, two of them timed: two timed-out calls in a row, and one between two others |
| `navigator_lock` | `navigatorLock` implements `ExclusiveLock`; every request is answered | four pages: one without timeout, one immediate, one timed, one with null locks |
| `auth_lock` | order, exclusion and progress of `_acquireLock` | two tabs, five operations; four in one tab, so that one may fail with others queued behind it and the lock be taken again |
| `auth_lock_escape` | finding: after a failed holder two clients operate at once | as above |
| `auth_session` | the session's properties | two tabs, four calls of four kinds, two users, one fault, two generations |
| `set_session` | finding: `setSession` returns another user's session | as above |
| `callback_lock` | finding: callbacks run outside the lock | as above, with a sign-in |
| `auto_refresh` | the ticker follows calls, visibility and initialize; an expired session is handled | three calls of start or stop (an overlap and what follows it), two changes of the visibility (away and back), one failed refresh, two operations in line when an interval fires; with and without a browser and the option `autoRefreshToken`, any initial session |
| `auto_refresh_stop` | finding: a stop in the same turn as a start stops nothing | two calls |
| `realtime` | channels and the socket agree whatever fails, connections and joins are made again, a changed token reaches the server | two channel objects of one topic, two pushes of the first, six references (enough that one is always free), a push buffer of one (so that the oldest goes), two WebSockets (one and an orphan), three calls, failures or late answers in all; tokens: one issued, two overlapping `setAuth`, one lost connection |
| `library` | auth methods two at a time, JWKS cache, WebAuthn, builders, presence, outcomes of requests; the conversions | two calls beside `_initialize`; two calls of `getClaims`, two keys, a TTL of 2 on a clock to 3 (before, at and past its end); three ceremonies (a third replaces the second, which replaced the first), one name; two chains of three calls on one query builder, a column with the name of a parameter; two presence keys, three presences, two joins; each builder awaited twice |
| `initialize_throws` | finding: `initialize` throws | as `library`, its part `auth`, with `throwOnError` |

Deadlock checking is off: calls are made once, and after them the systems may
stop.

**Fairness.** Promise reactions run, storage, subscribers and the operations
given to a lock return, requests are answered or fail: weak fairness on those
steps. None on calls being made, on timers, on pages closing, on time passing.
The lock manager answers what it can. In AutoRefresh the timeouts of first ticks
fire, another tab gives the lock back, and an interval is strongly fair: another
tab does not hold the lock at each and every tick, 30 s apart. That is an
assumption about the other tabs, not something the code enforces; a tick that
never finds the lock refreshes nothing.
In RealtimeClient timers fire, a WebSocket opens or is told closed, what is
delivered is handled, and the server answers: weak fairness, none on calls or
failures. The reconnect, heartbeat and fallback timers are fair as a group each,
since one of a group may disable another. RealtimeAuth is strongly fair in
`OnConnOpen \/ JoinOk \/ Reconnect`: the model has room for a bounded number of
`setAuth` calls at once, and these steps, which begin one, are disabled
meanwhile by the bound alone.

**What the properties exempt.** `Reconnects` and `Joins` leave out a
manual disconnect, and `Unwatched`: an orphan is a WebSocket that was replaced
before it opened, and its late `onclose` stops the heartbeat of its successor,
its late `onopen` the reconnect timer. `TokenSettles` leaves out a token that
changes while a channel is joining (`oldJoin`): the join was written with the
old one and the server is not told. `PresenceAgrees` leaves out diffs of an
earlier join that were still pending (`outdated`): nothing removes them.
`ToldIsStored` leaves out a change that met an event outside the lock
(`crossed`). `RequestIsItsChain` leaves out a query builder used twice and
columns named as parameters are; `Joins` channels that `teardown` has left
without bindings, and a channel that leaves itself. TLC finds a counterexample
as soon as any of these exemptions is dropped; no doc or test of the repository
promises more.

Of the safety properties three leave out what docs do speak of. `StoredIsCurrent`
and `ReuseHasCause` leave out tokens that `setSession` took although they were
redeemed (`spent`): with a good access token it does not look at the refresh
token, though its doc says "If the refresh token or access token in the current
session is invalid, an error will be thrown" (`GoTrueClient.ts:1814`); the
refused refresh comes when the access token expires. `StopHolds` leaves out a
stop before `_initialize` has ended (`stopped = "overruled"`), and a stop in the
middle of a start, which is finding (4).

**Findings.** (1) `_acquireLock`: the rejection of the operation that took the
lock skips the drain loop. (2) `_callRefreshToken` ignores its token when a
refresh is in flight, and `setSession` then answers with another user's session.
(3) The INITIAL_SESSION emission runs outside the lock that the doc of
`onAuthStateChange` says its callbacks run in. (4) `startAutoRefresh` followed
in the same turn by `stopAutoRefresh` leaves the ticker running, because the
stop finds none to clear; nor does a stop outlast an `_initialize` that is still
to end, which installs the visibility callback or starts the ticker all the
same, though the doc says "you must manage visibility changes on your own". (5)
With `throwOnError` a sign-in from the URL that fails makes `_initialize` throw,
which its comment says it never does; `initializePromise` stays rejected, and
every method that awaits it rejects. Two starts in one turn leave an interval
that nobody can clear; the test that starts twice awaits the first call, and no
doc forbids or promises anything, so `TickerTracked` exempts the overlap
(`raced`).

## 4. Proofs

TLAPS proves for every value of the constants that satisfies the assumptions.
Each invariant and action property of the passing runs is a theorem; so are the
two refinements of `ExclusiveLock`.

* `ProcessLockProofs`: `TypeCorrect`, `SettlesInOrder`, `Exclusive`,
  `Refinement` (every behaviour of ProcessLock is one of ExclusiveLock) and
  `TimeoutsHaveCause` (`NoSpuriousTimeout`). The
  inductive invariant says that the calls made form a chain in the order of
  their arrival, that an entry settles only after the entry before it, and that
  an operation that started found its predecessor settled. By
  `PreviousSettledMeansAll` one settled predecessor means that all have, which
  is why looking at the last entry is enough; mutual exclusion and the
  refinement follow. For `TimeoutsHaveCause`: of the entries that are pending
  one is the first (`FirstPending`); if no reaction is queued, its operation
  runs. Assumed: `CallsAssumption`.
* `NavigatorLockProofs`: `Typed`, `Exclusive` and `Refinement`. The inductive
  invariant adds to the types that the manager's queue holds the unanswered
  requests in the order of their arrival, however many were dropped from its
  middle (`RemoveFirstProperties`): so the first of the queue has waited
  longest, as ExclusiveLock asks. A call with a null lock runs without the lock
  and is over for ExclusiveLock. Assumed: `NavigatorAssumption`.
* `AuthLockProofs`: `TypeCorrect`, `FlagIsRight`, `InOrder` and `OneAtATime`.
  The inductive invariant ties `lockAcquired`, `holder` and `stage` to the
  holder of the global lock, every active operation to a place in
  `pendingInLock` of its client, and `last` of each queued operation to the
  entry before it; operations outside the lock are in `left`. Assumed:
  `AuthLockAssumption`.
* `AuthSessionProofs`: `TypeCorrect`, `OneRefreshPerClient`, `StorageIsCurrent`,
  `NoReuseUnderTheLock` and `SignOutIsFinal`. The argument has two layers.
  `TypeInv` holds the types and who refreshes: a call is in flight exactly if
  `refreshingDeferred` of its client is its own, and what it works with is a
  session. `TokenInv` follows the tokens: calls that have the lock run one at a
  time (`Exclusive`); a refresh without the lock is on record (`LooseFlight`);
  so a token that was read, or is about to be saved, can only be outdated by a
  refresh on record, by a lost answer or because `setSession` was given it so
  (`ReadIsCurrent`, `HeldIsCurrent`); a session that a sign-in will make is
  nobody's before (`SignInIsNew`); and after a sign-out no call that has the
  lock has a session in hand (`SignedOutForAll`). `StoredIsCurrent` is not
  inductive without them: the call that saves must hold the newest token at that
  moment. Steps that only move calls to later stages are handled once, in
  `CalmSteps`. Assumed: `AuthSessionAssumption`, among it that a sign-in makes a
  session of its own.
* `AutoRefreshProofs`: `TickerIsTracked`, `StopAutoRefreshHolds`,
  `ManagedTickerFollows` and `Typed`. The inductive invariant of the first
  three: without an overlap at most one start is half done, it has found the
  ticker cleared; the ticker is on, or about to be, exactly when a managed tab
  is visible; and after a stop there is neither, nor a visibility callback that
  acts (`Unmanaged`). `Typed` says besides that there is always a number left for
  a new interval, and needs a count (`CountInv`): intervals that fire and
  starts that are half done are together at most one more than the calls of the
  application, because `_initialize` runs once (`InLine`) and a tab that becomes
  visible again restarts only an interval that was cleared before. Assumed:
  `AutoRefreshAssumption`.
* `RealtimeClientProofs`: `ChannelsStayArmed` (`RejoinArmed`), `PushesSettle`
  (`PushSettled`), `JoinedOnTheServer` (`JoinedAgrees`), `Typed`, and with
  RealtimeAuth beside it `TypesHold`. Three invariants:
  - `Inv`. `Sound` says of each channel, besides `RejoinArmed`, that one that
    awaits the answer to its join is joining or errored: only so does the answer
    `error` start the rejoin timer. `Buffers` says that what is in the buffer of
    a channel is a push of that channel, waiting or timed out: so neither a
    flush nor a drop touches a push that was settled. Each handler of
    RealtimeChannel has a lemma that it keeps a channel sound and its buffer as
    it was or empty (`Kept`); steps that change channels only in that way are
    one lemma (`ChannelsStep`).
  - `Joint`, with `Inv`. `Wires`: a WebSocket that is not open, or was replaced,
    carries nothing, and each has at most one join. `Answered`: an `ok` on its
    way to the client is for the join that stands on the server, or the end of
    that join follows it. `Members`: the socket has one channel of the topic,
    and if that is joined, its join stands on the current WebSocket, or the news
    of its end is on the way, or a WebSocket is broken and its close still to
    come (`Linked`). `JoinedAgrees` is the case in which nothing is on its way.
    It is not inductive: the answer that makes a channel joined was written
    when the join stood, and whatever ended it since came behind that answer.
  - `Clocks`, the types of the timers and flags.

  Assumed: `ClientAssumption`, `ChannelAssumption`, and for `TypesHold`
  `TokenAssumption` of MCRealtime. Nothing is assumed of the number of channels,
  pushes, references or WebSockets; a join waits for a reference that is free
  (`RefLeft`), so `Ref` bounds how many are in use at once.
* `AuthApiProofs`: `ApiTyped`, `SubscribersKnow` (`ToldIsStored`) and
  `CodesRedeemable` (`CodeRedeemable`). A caller is the list of steps it has
  left, so the inductive invariant reads what was done from what is still to be
  done. `StepsOrdered`: a change of the storage is followed by the event that
  tells of it, at most two changes are left and the second is a save, a verifier
  is exchanged right after it was taken and forgotten after that. `WillBeTold`:
  subscribers were told of what is stored, or some caller that is about to tell
  holds exactly that, or one is about to save. `VerifierKept` and `CodeKept`: a
  flow that began has its verifier, and a caller at the exchange took the one of
  its own code, unless something is on record that took it. `OneHolder`: at most
  one caller has the lock, which is why a second caller's change cannot come
  between a change and its event without being recorded in `crossed`. Assumed:
  `PageIsNoCall`.
* `LibraryProofs`, over MCLibrary: `Composition` (a behaviour of the run is one
  of each of its parts, which share no state) and with it
  - `KeysAreFresh`: the cached set, and every answer on its way, has only keys
    that were published at the time it is dated with (`Dated`), and a call that
    fetches or trusts a key names it (`Named`). A late answer that overwrites a
    newer one is dated with its own call, which is why `KeysFresh` survives it.
  - `OneCeremonyAtATime`: whoever the service has aborted, or has as its
    controller, uses its signal (`Served`).
  - `CallsShowFailures`: what a method asks of the answer determines its
    outcome, at each stage of the call and after each of the ways it can be cut
    off (`CallsInv`).
  - `PresencesAgree`: from the copy of the state, and from the pending diffs,
    the messages on their way lead to the state of the server, whatever their
    order (`Leads`); what a subscriber was told is the copy.
  - `RequestsAreTheirChains` (`RequestIsItsChain`): the parameters of a source
    that one chain has read as what the calls of that chain mean (`ChainInv`).
    The lemmas say what `append` and `set` of URLSearchParams leave to be read
    (`AppendReads`, `SetReads`) and what one more call adds to the meaning of a
    chain (`MeansAppend`). A source that two chains have is exempt, also before
    the second one edits it; a column with the name of a parameter too.
  - `TypesHold`: the types of all parts, among them that the calls of all chains
    together are at most `MaxCalls`, which needs that their sum counts each of
    them once (`OneMore`).

  Assumed: `ProofsApply` of MCLibrary, which TLC evaluates with the run
  `library`: the bounds are numbers, the chains finitely many, the operators
  among those of postgrest-js, and the values that stand for "none" are none of
  the others.

Sequences of any length, and sums over any finite set, are reasoned about with
`NatSetInduction`: a set that has 0 and with each number the next has all. It
follows from the library's theorem that < is well-founded on Nat, and is used
for the recursive functions of the models (`Picked`, `SetParams`, `Flushed`,
`AfterDiffs`) and for `Made`, each through a lemma that there is such a function.
No module uses RECURSIVE operators.

Only model-checked: the liveness properties (`UntimedCallsRun`,
`EveryRequestAnswered`, `EveryOperationSettles`, `EveryCallEnds`,
`ExpiredIsHandled`, `Reconnects`, `Joins`, `TokenSettles`), which need fairness
and ENABLED; the conversions, which are checked over bounded inputs; and the
findings.

## 5. Noted while modelling

Behaviours of the code that the models have and that no doc or test speaks of:

* `_leaveOpenTopic` finds any channel of the topic that is joined or joining,
  also the one that is about to join: a rejoin that comes twice leaves itself.
* `_remove` drops every channel of the topic from the socket: removing a channel
  twice drops its successor; `removeAllChannels` drops, after its `await`, a
  channel that was made meanwhile.
* A channel that subscribes after it was removed, or after `teardown`, joins on
  the server and hears nothing; its rejoin timer goes on.
* `Push.resend` while the timeout still runs starts no new one and listens for
  no reply.
* `disconnect` removes the handlers that would end the disconnecting, so only
  its timeout does, and that may reset the state of a later connection.
* `_register` (WebAuthn) unenrolls a verified factor of the same name after any
  enrollment error.
* There is one slot for the code verifier: a second flow makes the first one's
  code useless.
* Builders made from one PostgREST query builder share its URL: a reused query
  builder sends the filters of an earlier chain.
* The serializer writes lengths in one byte and does not check them:
  `FramesReadAsWritten` says for which lengths that is right.
* An error of the auth server whose body is `null` becomes a TypeError in
  `_getErrorMessage`, which the methods throw and do not return. `ErrorsAsSet`
  lists it among what is thrown whatever was set (`ThrowsAnyway`).
* `setSession` saves a refresh token that it does not check, and a stop does not
  outlast `_initialize`: see "What the properties exempt".
* `invoke` with a timeout does not hear an abort that came before the call;
  storage's `exists` throws what its siblings return.

## 6. Not modelled, and what is left

* Types: `lib/types.ts`, the query parser of postgrest-js, generated types: they
  have no behaviour at run time, and are a large part of the lines.
* Stateless conversions without a case worth stating: the transformers of
  Postgres values, the WebAuthn conversion of options and credentials to and
  from JSON, settings and URLs of supabase-js, error classes, formatting.
* Wrappers of the platform: the choice of a WebSocket, the Web Worker that may
  keep the heartbeat, storage adapters and polyfills.
* The REST fallback of `RealtimeChannel.send` and `httpSend` (one request each),
  and the filters of channel bindings.
* The BroadcastChannel between tabs and `userStorage`: what a tab is told of
  another tab's events, and when, is promised nowhere; the session they share
  is in AuthSession.

Left: channels of two topics, to check that they share nothing but the socket.
