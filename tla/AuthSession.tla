---------------------------- MODULE AuthSession ----------------------------
(***************************************************************************)
(* The session of a user as the GoTrueClients of one storage key keep it   *)
(* (auth-js/src/GoTrueClient.ts): calls that load it, refresh it when its  *)
(* access token has expired, save a new one or remove it.  Refresh tokens  *)
(* rotate: the auth server (external) redeems a user's newest token once   *)
(* and refuses the older ones.  A client refreshes one token at a time;    *)
(* calls that need a refresh meanwhile wait on refreshingDeferred.         *)
(*                                                                         *)
(* Calls made through _acquireLock run one at a time over all clients, the *)
(* promise that AuthLock examines.  The sign-in methods do not take the    *)
(* lock, and the INITIAL_SESSION of onAuthStateChange ("emit") starts in   *)
(* the lock but is not awaited there.                                      *)
(***************************************************************************)
EXTENDS Naturals, FiniteSets

CONSTANTS
    Calls,                  \* the calls made
    Clients,                \* the clients, in one tab or several
    ClientOf,               \* the client of each call
    KindOf,                 \* what each call is
    Users,                  \* the server's sessions, one for each sign-in of a user
    UserOf,                 \* the one whose tokens a "set" or "signIn" brings
    MaxFaults,              \* bound: how often network, storage, subscribers or pages fail
    MaxGen,                 \* bound: a session of this generation does not expire
    None                    \* no session, no call

Kinds == {"get", "emit", "set", "signIn", "signOut", "recover"}

Session == [user : Users, gen : Nat, fresh : BOOLEAN]

ASSUME AuthSessionAssumption ==
    /\ ClientOf \in [Calls -> Clients]
    /\ KindOf \in [Calls -> Kinds]
    /\ UserOf \in [Calls -> Users]
    /\ \A c, d \in Calls :                 \* a sign-in makes a session of its own
          /\ KindOf[c] = "signIn" /\ KindOf[d] \in {"set", "signIn"}
          /\ UserOf[c] = UserOf[d]
          => c = d
    /\ MaxFaults \in Nat /\ MaxGen \in Nat \ {0}
    /\ None \notin Calls /\ None \notin Session

VARIABLES
    newest,                 \* server: generation of each user's newest token, 0 once revoked
    stored,                 \* storage: the session under storageKey
    pc,                     \* where each call stands
    session,                \* the session each call works with
    deferred,               \* refreshingDeferred of each client, named by its creator
    joined,                 \* the deferred a call waits on
    settled,                \* how the deferred created by a call was settled
    faults,                 \* how many things have failed
    lost,                   \* history: users whose newest token did not reach storage
    loose,                  \* history: users with a refresh led by a call without the lock
    spent,                  \* history: tokens that setSession took although they were redeemed
    signedOut               \* history: a sign-out came after all sign-ins

authVars == <<newest, stored>>
callVars == <<pc, session>>
flightVars == <<deferred, joined, settled>>
history == <<lost, loose, spent, signedOut>>
vars == <<authVars, callVars, flightVars, history, faults>>

Locked == {c \in Calls : KindOf[c] \notin {"emit", "signIn"}}

(* "failed": the error left the catch block of _callRefreshToken; "gone": the
   page of the client went away. *)
Over == {"done", "failed", "gone"}

InProgress(c) == pc[c] \notin {"idle"} \cup Over

\* Variant to refute: lockNoOp, calls exclude no other.
NoOpLock == TRUE

LockFree == \A c \in Locked : ~InProgress(c)

\* The stages of the call that created refreshingDeferred.
FlightStage == {"request", "answered", "refused", "refreshed", "remove", "removed"}

Stage ==
    FlightStage \cup
    {"idle", "read", "joined", "signIn", "logout", "leave", "left"} \cup Over

(* "session" and "error" resolve the deferred, with error "retry" for one that
   is an AuthRetryableFetchError; "thrown" rejects it. *)
Outcome == {"session", "error", "retry", "thrown"}

\* A sign-in makes a session that nobody has seen before.
NewUsers == {UserOf[c] : c \in {d \in Calls : KindOf[d] = "signIn"}}

Init ==
    /\ newest = [u \in Users |-> 1]
    /\ stored \in {None} \cup [user : Users \ NewUsers, gen : {1}, fresh : BOOLEAN]
    /\ pc = [c \in Calls |-> "idle"]
    /\ session = [c \in Calls |-> None]
    /\ deferred = [k \in Clients |-> None]
    /\ joined = [c \in Calls |-> None]
    /\ settled = [c \in Calls |-> "pending"]
    /\ lost = {} /\ loose = {} /\ spent = {} /\ signedOut = FALSE
    /\ faults = 0

Fault == faults < MaxFaults /\ faults' = faults + 1

Go(c, stage) == pc' = [pc EXCEPT ![c] = stage]
-----------------------------------------------------------------------------
\* Variant to refute: the lock excludes the calls of one client only.
BeginInProcess(c) ==
    /\ pc[c] = "idle"
    /\ \A d \in Locked : ClientOf[d] = ClientOf[c] => ~InProgress(d)
    /\ KindOf[c] \notin {"set", "signIn"}
    /\ session' = [session EXCEPT ![c] = stored]
    /\ Go(c, "read")
    /\ UNCHANGED <<authVars, flightVars, history, faults>>

\* A call is made, and starts when the lock is free: it reads the storage.
Begin(c) ==
    /\ pc[c] = "idle" /\ LockFree
    /\ KindOf[c] \notin {"set", "signIn"}
    /\ session' = [session EXCEPT ![c] = stored]
    /\ Go(c, "read")
    /\ UNCHANGED <<authVars, flightVars, history, faults>>

\* Variant to refute: refreshingDeferred is not looked at.
CallRefreshTokenAnyway(c, s) ==
    /\ session' = [session EXCEPT ![c] = s]
    /\ Go(c, "request")
    /\ deferred' = [deferred EXCEPT ![ClientOf[c]] = c]
    /\ loose' = IF c \in Locked THEN loose ELSE loose \cup {s.user}
    /\ UNCHANGED <<authVars, joined, settled, lost, spent, signedOut, faults>>

\* _callRefreshToken(token): join the refresh of this client or lead a new one.
CallRefreshToken(c, s) ==
    LET k == ClientOf[c] IN
    /\ session' = [session EXCEPT ![c] = s]
    /\ IF deferred[k] # None
         THEN /\ Go(c, "joined")
              /\ joined' = [joined EXCEPT ![c] = deferred[k]]
              /\ UNCHANGED <<deferred, loose>>
         ELSE /\ Go(c, "request")
              /\ deferred' = [deferred EXCEPT ![k] = c]
              /\ loose' = IF c \in Locked THEN loose ELSE loose \cup {s.user}
              /\ UNCHANGED joined
    /\ UNCHANGED <<authVars, settled, lost, spent, signedOut, faults>>

\* The tokens that a call can bring: of those given out so far, the newest or one that was redeemed.
Brought(c) == 1..newest[UserOf[c]] \cup {1}

\* setSession with an access token that has expired: refresh with the token given.
SetExpired(c) ==
    /\ pc[c] = "idle" /\ LockFree
    /\ KindOf[c] = "set"
    /\ \E gen \in Brought(c) :
          CallRefreshToken(c, [user |-> UserOf[c], gen |-> gen, fresh |-> FALSE])

\* setSession with one that has not, or a sign-in: the server answers with the user of the access
\* token, or with a new session.  The refresh token given to setSession is not looked at.
SignIn(c) ==
    LET u == UserOf[c] IN
    /\ pc[c] = "idle"
    /\ c \in Locked => LockFree
    /\ KindOf[c] \in {"set", "signIn"}
    /\ newest[u] # 0
    /\ \E gen \in Brought(c) :
          /\ session' = [session EXCEPT ![c] = [user |-> u, gen |-> gen, fresh |-> TRUE]]
          /\ spent' = IF gen = newest[u] THEN spent ELSE spent \cup {<<u, gen>>}
    /\ Go(c, "signIn")
    /\ UNCHANGED <<authVars, flightVars, lost, loose, signedOut, faults>>

\* setSession again, when the server does not answer with a user: _getUser removes what is stored
\* if the session of the access token is gone, and returns any other error.
SetFails(c) ==
    /\ pc[c] = "idle" /\ LockFree
    /\ KindOf[c] = "set"
    /\ \/ newest[UserOf[c]] = 0 /\ Go(c, "leave") /\ UNCHANGED faults
       \/ Fault /\ Go(c, "done")
    /\ UNCHANGED <<authVars, session, flightVars, history>>

\* _saveSession of a session that came without a refresh; SIGNED_IN follows.
SaveSignIn(c) ==
    /\ pc[c] = "signIn"
    /\ stored' = session[c]
    /\ signedOut' = FALSE
    /\ Go(c, "done")
    /\ UNCHANGED <<newest, session, flightVars, lost, loose, spent, faults>>

\* __loadSession and _recoverAndRefresh find nothing, or a session still good; or, with
\* autoRefreshToken off, _recoverAndRefresh leaves one that has expired as it is.
UseStored(c) ==
    /\ pc[c] = "read"
    /\ session[c] # None /\ KindOf[c] # "recover" => session[c].fresh
    /\ Go(c, CASE KindOf[c] # "signOut" -> "done"
               [] session[c] = None     -> "leave"
               [] OTHER                 -> "logout")
    /\ UNCHANGED <<authVars, session, flightVars, history, faults>>

\* They find a session whose access token expired, or is about to.
RefreshStored(c) ==
    /\ pc[c] = "read"
    /\ session[c] # None /\ ~session[c].fresh
    /\ CallRefreshToken(c, session[c])
-----------------------------------------------------------------------------
\* The server redeems the token if it is the newest of its user.
Redeem(c) ==
    LET s == session[c] IN
    /\ pc[c] = "request"
    /\ IF s.gen = newest[s.user]
         THEN /\ newest' = [newest EXCEPT ![s.user] = @ + 1]
              /\ session' = [session EXCEPT ![c] = [s EXCEPT !.gen = @ + 1, !.fresh = TRUE]]
              /\ Go(c, "answered")
         ELSE /\ Go(c, "refused")
              /\ UNCHANGED <<newest, session>>
    /\ UNCHANGED <<stored, flightVars, history, faults>>

\* The network or the gateway fails, before or after the server saw the request
\* (AuthRetryableFetchError), and there is time for another attempt.
Retry(c) ==
    LET s == session[c] IN
    /\ Fault
    /\ Go(c, "request")
    /\ \/ /\ pc[c] \in {"request", "refused"}
          /\ UNCHANGED <<session, lost>>
       \/ /\ pc[c] = "answered"
          /\ session' = [session EXCEPT ![c] = [s EXCEPT !.gen = @ - 1, !.fresh = FALSE]]
          /\ lost' = lost \cup {s.user}
    /\ UNCHANGED <<authVars, flightVars, loose, spent, signedOut>>

\* Variant to refute: the deferred is dropped and never settled.
SettleNobody(c, outcome, stage) ==
    /\ deferred' = [deferred EXCEPT ![ClientOf[c]] = None]
    /\ Go(c, stage)
    /\ UNCHANGED <<joined, settled>>

\* The deferred of c is settled and dropped; c goes on with the outcome.
Settle(c, outcome, stage) ==
    /\ settled' = [settled EXCEPT ![c] = outcome]
    /\ deferred' = [deferred EXCEPT ![ClientOf[c]] = None]
    /\ Go(c, stage)
    /\ UNCHANGED joined

\* What a call does once its refresh is over.
AfterRefresh(c, outcome) ==
    CASE KindOf[c] = "signOut" /\ outcome = "session" -> "logout"
      [] KindOf[c] = "recover" /\ outcome = "error"   -> "leave"
      [] OTHER                                        -> "done"

\* It fails and there is no time left: the error is returned, the session is kept.  Or the answer
\* is one that _getErrorMessage can make nothing of: what it throws is no AuthError.
GiveUp(c) ==
    /\ Fault
    /\ pc[c] \in {"request", "answered", "refused"}
    /\ lost' = IF pc[c] = "answered" THEN lost \cup {session[c].user} ELSE lost
    /\ \E outcome \in {"retry", "thrown"} : Settle(c, outcome, AfterRefresh(c, outcome))
    /\ UNCHANGED <<authVars, session, loose, spent, signedOut>>

\* Variant to refute: the refreshed session is announced and not saved.
SaveNothing(c) ==
    /\ pc[c] = "answered"
    /\ Go(c, "refreshed")
    /\ UNCHANGED <<authVars, session, flightVars, history, faults>>

\* Variant to refute: the refreshed session is saved without its refresh token.
SaveWithoutToken(c) ==
    /\ pc[c] = "answered"
    /\ stored' = [user |-> session[c].user, fresh |-> TRUE]
    /\ signedOut' = (signedOut /\ KindOf[c] # "set")
    /\ Go(c, "refreshed")
    /\ UNCHANGED <<newest, session, flightVars, lost, loose, spent, faults>>

\* The answer arrives: _saveSession of the refreshed session.
SaveRefreshed(c) ==
    /\ pc[c] = "answered"
    /\ stored' = session[c]
    /\ signedOut' = (signedOut /\ KindOf[c] # "set")
    /\ Go(c, "refreshed")
    /\ UNCHANGED <<newest, session, flightVars, lost, loose, spent, faults>>

\* storage.setItem fails: not an AuthError, the deferred is rejected.
SaveFails(c) ==
    /\ Fault
    /\ pc[c] = "answered"
    /\ lost' = lost \cup {session[c].user}
    /\ Settle(c, "thrown", "done")
    /\ UNCHANGED <<authVars, session, loose, spent, signedOut>>

\* TOKEN_REFRESHED: the subscribers return, or one throws a retryable AuthError,
\* another error, or an AuthError that is not retryable.
NotifyRefreshed(c) ==
    /\ pc[c] = "refreshed"
    /\ \/ Settle(c, "session", AfterRefresh(c, "session")) /\ UNCHANGED faults
       \/ \E outcome \in {"retry", "thrown"} : Settle(c, outcome, "done") /\ Fault
       \/ Go(c, "remove") /\ Fault /\ UNCHANGED flightVars
    /\ UNCHANGED <<authVars, session, history>>

\* The refusal arrives, or a subscriber threw: _removeSession.
Remove(c) ==
    /\ pc[c] \in {"refused", "remove"}
    /\ stored' = None
    /\ Go(c, "removed")
    /\ UNCHANGED <<newest, session, flightVars, history, faults>>

\* SIGNED_OUT: the subscribers return and the deferred is resolved with the error.
NotifyRemoved(c) ==
    /\ pc[c] = "removed"
    /\ Settle(c, "error", AfterRefresh(c, "error"))
    /\ UNCHANGED <<authVars, session, history, faults>>

\* storage.removeItem fails, or a subscriber throws: the error leaves the catch
\* block, and finally drops the deferred as it is.
RemoveFails(c) ==
    /\ Fault
    /\ pc[c] \in {"refused", "remove", "removed"}
    /\ deferred' = [deferred EXCEPT ![ClientOf[c]] = None]
    /\ Go(c, "failed")
    /\ UNCHANGED <<authVars, session, joined, settled, history>>

\* refreshingDeferred.promise settles for a call that joined.
Resume(c) ==
    LET leader == joined[c] IN
    /\ pc[c] = "joined"
    /\ settled[leader] # "pending"
    /\ session' = [session EXCEPT ![c] = session[leader]]
    /\ Go(c, AfterRefresh(c, settled[leader]))
    /\ UNCHANGED <<authVars, flightVars, history, faults>>
-----------------------------------------------------------------------------
\* _signOut asks the server to revoke the session; 401, 403 and 404 count as done.
Logout(c) ==
    /\ pc[c] = "logout"
    /\ newest' \in {newest, [newest EXCEPT ![session[c].user] = 0]}
    /\ \/ Go(c, "leave") /\ UNCHANGED faults
       \/ Go(c, "done") /\ Fault
    /\ UNCHANGED <<stored, session, flightVars, history>>

\* _removeSession at the end of _signOut, of _recoverAndRefresh or of _getUser; it may throw.
Leave(c) ==
    /\ pc[c] = "leave"
    /\ \/ /\ Fault
          /\ Go(c, "done")
          /\ UNCHANGED <<stored, signedOut>>
       \/ /\ Go(c, "left")
          /\ stored' = None
          /\ signedOut' = (signedOut \/ KindOf[c] = "signOut")
          /\ UNCHANGED faults
    /\ UNCHANGED <<newest, session, flightVars, lost, loose, spent>>

\* SIGNED_OUT, whatever the subscribers do.
NotifyLeft(c) ==
    /\ pc[c] = "left"
    /\ Go(c, "done")
    /\ UNCHANGED <<authVars, session, flightVars, history, faults>>

\* The page of a client is closed or reloaded, with what its calls had in hand.
PageGone(k) ==
    LET here == {c \in Calls : ClientOf[c] = k /\ InProgress(c)} IN
    /\ here # {} /\ Fault
    /\ pc' = [c \in Calls |-> IF c \in here THEN "gone" ELSE pc[c]]
    /\ deferred' = [deferred EXCEPT ![k] = None]
    /\ lost' = lost \cup
         {session[c].user : c \in {d \in here : pc[d] \in {"answered", "signIn"}}}
    /\ UNCHANGED <<authVars, session, joined, settled, loose, spent, signedOut>>

\* Time passes: the stored access token comes within the margin of its expiry.
Expire ==
    /\ stored # None /\ stored.fresh /\ stored.gen < MaxGen
    /\ stored' = [stored EXCEPT !.fresh = FALSE]
    /\ UNCHANGED <<newest, callVars, flightVars, history, faults>>

\* What a call does once it was made.
Step(c) ==
    \/ SaveSignIn(c) \/ UseStored(c) \/ RefreshStored(c)
    \/ Redeem(c) \/ Retry(c) \/ GiveUp(c)
    \/ SaveRefreshed(c) \/ SaveFails(c) \/ NotifyRefreshed(c)
    \/ Remove(c) \/ NotifyRemoved(c) \/ RemoveFails(c) \/ Resume(c)
    \/ Logout(c) \/ Leave(c) \/ NotifyLeft(c)

Next ==
    \/ \E c \in Calls :
          Begin(c) \/ SetExpired(c) \/ SignIn(c) \/ SetFails(c) \/ Step(c)
    \/ \E k \in Clients : PageGone(k)
    \/ Expire

(* Promise reactions run, storage and subscribers return, and a request is
   answered or fails; nobody has to call, and pages stay open. *)
Fairness == \A c \in Calls : WF_vars(Step(c))

Spec == Init /\ [][Next]_vars

FairSpec == Spec /\ Fairness
-----------------------------------------------------------------------------
TypeOK ==
    /\ newest \in [Users -> Nat]
    /\ stored \in Session \cup {None}
    /\ pc \in [Calls -> Stage]
    /\ session \in [Calls -> Session \cup {None}]
    /\ deferred \in [Clients -> Calls \cup {None}]
    /\ joined \in [Calls -> Calls \cup {None}]
    /\ settled \in [Calls -> Outcome \cup {"pending"}]
    /\ lost \subseteq Users /\ loose \subseteq Users /\ signedOut \in BOOLEAN
    /\ spent \subseteq Users \X Nat
    /\ faults \in 0..MaxFaults

(* The test "refresh should only happen once": a client has one refresh in
   flight at a time, the one that its refreshingDeferred stands for, from the
   request to the last notification. *)
SingleFlight ==
    \A c \in Calls : pc[c] \in FlightStage <=> deferred[ClientOf[c]] = c

(* Rotation does not lose a session: what storage holds is the newest token of
   its user, or a call is about to save the newest one, unless an answer never
   reached storage, a call without the lock refreshed that user's token, or the
   token is one that setSession took unchecked after it had been redeemed. *)
StoredIsCurrent ==
    stored # None =>
        \/ newest[stored.user] \in {0, stored.gen}
        \/ stored.user \in lost \cup loose
        \/ <<stored.user, stored.gen>> \in spent
        \/ \E c \in Calls :
              /\ pc[c] = "answered"
              /\ session[c].user = stored.user /\ session[c].gen = newest[stored.user]

(* Under the lock a client never presents a refresh token that was redeemed
   before, though all tabs share it, except after a lost answer or a refresh
   outside the lock, or when that very token came to storage with a setSession
   whose access token was still good, which checks nothing else.  A caller of
   setSession brings a token of its own. *)
ReuseHasCause ==
    \A c \in Locked :
        pc[c] = "request" /\ KindOf[c] # "set" =>
            \/ newest[session[c].user] \in {0, session[c].gen}
            \/ session[c].user \in lost \cup loose
            \/ <<session[c].user, session[c].gen>> \in spent

(* A sign-out is undone by a new sign-in, or else by a refresh that was led
   outside the lock: no locked call of another tab brings the session back. *)
SignedOutStays ==
    signedOut /\ stored # None => stored.user \in loose

(* Every call comes to an end, those that wait for the refresh of another call
   too: an error, a rejection or a lost answer settles the deferred they wait
   on.  Only the failure of the cleanup in its catch block does not. *)
EveryCallEnds ==
    \A c \in Calls :
        InProgress(c) ~> \/ pc[c] \in Over
                         \/ pc[c] = "joined" /\ pc[joined[c]] = "failed"

(* The doc of setSession: "If the current session is expired, setSession will
   take care of refreshing it to obtain a new session": the session returned is
   one of the user whose tokens were given. *)
SetSessionReturnsItsUser ==
    \A c \in Calls :
        /\ KindOf[c] = "set" /\ pc[c] = "done" /\ session[c] # None
        /\ joined[c] # None => settled[joined[c]] = "session"
        => session[c].user = UserOf[c]

(* The doc of onAuthStateChange: "The callback function runs inside an
   exclusive lock": no other call that has the lock is in progress. *)
CallbackInsideLock ==
    \A c \in Calls, d \in Locked :
        pc[c] \in {"refreshed", "removed", "left"} /\ InProgress(d) => c = d
=============================================================================
