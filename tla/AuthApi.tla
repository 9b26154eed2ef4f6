------------------------------- MODULE AuthApi -------------------------------
(***************************************************************************)
(* The methods of GoTrueClient (auth-js) around the core of AuthSession:   *)
(* every way to sign in, PKCE and its one stored code verifier, the        *)
(* session from the URL of the page, users, identities, MFA and OAuth.  A  *)
(* method is the sequences of steps it may take, one per way to call it;   *)
(* the actions below say what each step does.  Many methods take no lock.  *)
(* A session that has to be refreshed when it is loaded is AuthSession's.  *)
(***************************************************************************)
EXTENDS Naturals, Sequences, SequencesExt, FiniteSets

CONSTANTS
    Call,                   \* calls of a method, each made once
    Page,                   \* the call of _initialize by the constructor
    Earlier,                \* the session, and the PKCE flow, of an earlier page
    throwOnError,           \* the setting of the client
    None

ASSUME PageIsNoCall == Page \notin Call

Caller == Call \cup {Page}
Session == Caller \cup {Earlier}       \* named for the call that obtained it
Flow == Call \cup {Earlier}            \* named for the call that began it

VARIABLES
    flowType,               \* flowType
    stored,                 \* the session in storage
    verifier,               \* the flow whose code verifier is in storage
    told,                   \* the session of the last event that subscribers got
    holders,                \* the callers that hold the lock: one at most
    todo,                   \* the steps a caller has left
    held,                   \* the session a caller has loaded or received
    taken,                  \* the verifier that an exchange has read
    code,                   \* the flow whose code a caller exchanges
    result,                 \* "none", "ok", "error" returned, "thrown"
    begun,                  \* flows that have stored a verifier
    used,                   \* the server: flows whose code was exchanged
    spoiled,                \* history: flows whose verifier is rightly gone
    lost,                   \* history: flows refused for want of their verifier
    crossed                 \* history: a change met an event still to come, outside the lock

flowVars == <<verifier, taken, code, begun, used, spoiled, lost>>
sessionVars == <<stored, told, held, crossed>>
vars == <<flowType, sessionVars, flowVars, holders, todo, result>>

Event == {"SIGNED_IN", "SIGNED_OUT", "TOKEN_REFRESHED", "USER_UPDATED", "PASSWORD_RECOVERY",
          "MFA_CHALLENGE_VERIFIED"}
-----------------------------------------------------------------------------
(* The methods.  "ask" is a request, "askSession" one whose answer must have a session and
   "askMaybe" one whose answer may. *)
SignedIn == <<"save", "SIGNED_IN">>
InLock(steps) == <<"lock">> \o steps \o <<"unlock">>
Initialized(steps) == <<"init">> \o InLock(steps)
Invalid == <<"invalid">>

signInAnonymously == {<<"askMaybe">> \o SignedIn}
signUp == {<<"verifier", "askMaybe">> \o SignedIn, <<"askMaybe">> \o SignedIn, Invalid}
signInWithPassword == {<<"askSession">> \o SignedIn, Invalid}
signInWithOAuth == {<<"verifier">>}
signInWithEthereum == {<<"wallet", "askSession">> \o SignedIn, <<"askSession">> \o SignedIn}
signInWithSolana == {<<"wallet", "askSession">> \o SignedIn, <<"askSession">> \o SignedIn}
signInWithIdToken == {<<"askSession">> \o SignedIn}
signInWithOtp == {<<"verifier", "ask">>, <<"ask">>, Invalid}
verifyOtp == {<<"askMaybe">> \o SignedIn, <<"askMaybe", "save", "PASSWORD_RECOVERY">>}
signInWithSSO == {<<"verifier", "ask">>}
resetPasswordForEmail == {<<"verifier", "ask">>}
resend == {<<"ask">>, Invalid}

\* Exchanging a code: the verifier is forgotten once the server has answered with a 200.
ExchangeCode == <<"take", "exchange", "forget", "check">> \o SignedIn
exchangeCodeForSession == {Initialized(ExchangeCode)}

reauthenticate == {Initialized(<<"load", "need", "ask">>)}
getUserOfSession == Initialized(<<"load", "needUser", "askUser">>)
getUser == {getUserOfSession, <<"askUser">>}
updateUser ==
    {Initialized(<<"load", "need">> \o pkce \o <<"ask", "save", "USER_UPDATED">>) :
        pkce \in {<<>>, <<"verifier">>}}
refreshSession ==
    {Initialized(<<"load", "need", "askRefresh", "save", "TOKEN_REFRESHED">>),
     Initialized(<<"load", "askRefresh", "save", "TOKEN_REFRESHED">>)}

\* Variant to refute: nobody is told.
SessionGoneSilently == <<"remove", "forget">>

\* The server's answer that a user is gone removes the session and the verifier.
SessionGone == <<"remove", "SIGNED_OUT", "forget">>
\* With scope "others" the session stays.
signOut == {Initialized(<<"load", "askLogout">> \o SessionGone), Initialized(<<"load", "askLogout">>)}

getUserIdentities == {Initialized(<<"load", "need", "askUser">>)}
linkIdentityOAuth == {<<"load", "verifier", "ask">>}
linkIdentityIdToken == {<<"load", "askSession", "save", "USER_UPDATED">>}
unlinkIdentity == {<<"load", "ask">>}

unenroll == {<<"load", "ask">>}
enroll == {<<"load", "ask">>}
verifySteps == InLock(<<"load", "askSession", "save", "MFA_CHALLENGE_VERIFIED">>)
challengeSteps == InLock(<<"load", "ask">>)
verify == {verifySteps}
challenge == {challengeSteps}
challengeAndVerify == {challengeSteps \o verifySteps}
listFactors == {getUserOfSession}
getAuthenticatorAssuranceLevel == {Initialized(<<"load">>)}
getAuthorizationDetails == {<<"load", "need", "ask">>}
approveAuthorization == {<<"load", "need", "ask">>}
denyAuthorization == {<<"load", "need", "ask">>}

Methods == UNION {
    signInAnonymously, signUp, signInWithPassword, signInWithOAuth, signInWithEthereum,
    signInWithSolana, signInWithIdToken, signInWithOtp, verifyOtp, signInWithSSO,
    resetPasswordForEmail, resend, exchangeCodeForSession, reauthenticate, getUser, updateUser,
    refreshSession, signOut, getUserIdentities, linkIdentityOAuth, linkIdentityIdToken,
    unlinkIdentity, unenroll, enroll, verify, challenge, challengeAndVerify, listFactors,
    getAuthenticatorAssuranceLevel, getAuthorizationDetails, approveAuthorization,
    denyAuthorization}

(* _initialize holds the lock first.  What the URL of the page has decides how it goes on;
   the event of a session from the URL comes from a timer, after the lock is given back. *)
InitializeSteps(url) ==
    CASE url = "code" /\ verifier # None ->
            IF flowType = "pkce"
            THEN ExchangeCode \o <<"save", "unlock", "SIGNED_IN">> ELSE <<"fail">>
      [] url = "tokens" ->
            IF flowType = "implicit"
            THEN <<"askUser", "save", "unlock", "SIGNED_IN">> ELSE <<"fail">>
      [] url = "error" -> <<"fail">>
      [] url = "identity error" -> <<"failKept">>
      [] OTHER -> <<"recover", "SIGNED_IN", "unlock">>
-----------------------------------------------------------------------------
Init ==
    /\ flowType \in {"pkce", "implicit"}
    /\ stored \in {None, Earlier} /\ told = stored
    /\ verifier \in {None, Earlier}
    /\ holders = {Page}
    /\ todo = [c \in Caller |-> IF c = Page THEN <<"detect">> ELSE <<>>]
    /\ held = [c \in Caller |-> None] /\ taken = [c \in Caller |-> None]
    /\ code = [c \in Caller |-> None]
    /\ result = [c \in Caller |-> "none"]
    /\ begun = {Earlier} /\ used = {} /\ lost = {}
    /\ spoiled = IF verifier = None THEN {Earlier} ELSE {}
    /\ crossed = FALSE

At(c, step) == todo[c] # <<>> /\ Head(todo[c]) = step

\* c goes on with these steps; after the last one its promise is fulfilled.
Goes(c, steps) ==
    /\ todo' = [todo EXCEPT ![c] = steps]
    /\ result' = IF steps = <<>> /\ c # Page THEN [result EXCEPT ![c] = "ok"] ELSE result
    /\ UNCHANGED holders

Continues(c) == Goes(c, Tail(todo[c]))

Ends(c, how) ==
    /\ todo' = [todo EXCEPT ![c] = <<>>]
    /\ result' = [result EXCEPT ![c] = how]
    /\ holders' = holders \ {c}

\* An error of this library: _returnResult throws it or returns it.
ReturnResult(c) == Ends(c, IF throwOnError THEN "thrown" ELSE "error")

\* _initialize when the session from the URL ends with an error: the old session goes too.
InitializeFails == IF throwOnError THEN Ends(Page, "thrown") ELSE Goes(Page, <<"remove", "SIGNED_OUT", "unlock">>)

Fails(c) == IF c = Page THEN InitializeFails ELSE ReturnResult(c)

\* Any other error: the methods throw it again, _initialize makes an AuthUnknownError of it.
Throws(c) == Ends(c, IF c = Page /\ ~throwOnError THEN "ok" ELSE "thrown")

Detect(url) ==
    /\ At(Page, "detect")
    /\ code' = [code EXCEPT ![Page] = IF url = "code" THEN Earlier ELSE None]
    /\ Goes(Page, InitializeSteps(url))
    /\ UNCHANGED <<flowType, sessionVars, verifier, taken, begun, used, spoiled, lost>>

Begin(c, steps) ==
    /\ result[c] = "none" /\ todo[c] = <<>>
    /\ todo' = [todo EXCEPT ![c] = steps]
    /\ UNCHANGED <<flowType, sessionVars, flowVars, holders, result>>

\* await this.initializePromise
AwaitInitialize(c) ==
    /\ At(c, "init") /\ result[Page] # "none"
    /\ IF result[Page] = "thrown" THEN Ends(c, "thrown") ELSE Continues(c)
    /\ UNCHANGED <<flowType, sessionVars, flowVars>>

\* Variant to refute: a lock that keeps nobody out.
LockAnyway(c) ==
    /\ At(c, "lock")
    /\ holders' = holders \cup {c}
    /\ todo' = [todo EXCEPT ![c] = Tail(@)]
    /\ UNCHANGED <<flowType, sessionVars, flowVars, result>>

Lock(c) ==
    /\ At(c, "lock") /\ holders = {}
    /\ holders' = {c}
    /\ todo' = [todo EXCEPT ![c] = Tail(@)]
    /\ UNCHANGED <<flowType, sessionVars, flowVars, result>>

Unlock(c) ==
    /\ At(c, "unlock")
    /\ holders' = holders \ {c}
    /\ todo' = [todo EXCEPT ![c] = Tail(@)]
    /\ result' = IF c = Page \/ todo'[c] = <<>> THEN [result EXCEPT ![c] = "ok"] ELSE result
    /\ UNCHANGED <<flowType, sessionVars, flowVars>>

\* _useSession: the session in storage, or an error when it has to be refreshed and is not.
UseSession(c) ==
    /\ At(c, "load")
    /\ \/ Continues(c) /\ held' = [held EXCEPT ![c] = stored]
       \/ stored # None /\ (Fails(c) \/ Throws(c)) /\ UNCHANGED held
    /\ UNCHANGED <<flowType, stored, told, crossed, flowVars>>

\* AuthSessionMissingError, thrown by most methods; getUser returns it as it is.
NeedSession(c) ==
    /\ At(c, "need") \/ At(c, "needUser")
    /\ IF held[c] # None THEN Continues(c)
       ELSE IF At(c, "need") THEN Fails(c) ELSE Ends(c, "error")
    /\ UNCHANGED <<flowType, sessionVars, flowVars>>

\* _recoverAndRefresh with a session that need not be refreshed.
Recover ==
    /\ At(Page, "recover")
    /\ held' = [held EXCEPT ![Page] = stored]
    /\ Goes(Page, IF stored = None THEN <<"unlock">> ELSE Tail(todo[Page]))
    /\ UNCHANGED <<flowType, stored, told, crossed, flowVars>>

\* A wallet that is missing, refuses or answers with something else.
Wallet(c) ==
    /\ At(c, "wallet")
    /\ Continues(c) \/ Throws(c)
    /\ UNCHANGED <<flowType, sessionVars, flowVars>>

FailsAtOnce(c) ==
    /\ \/ (At(c, "invalid") \/ At(c, "fail")) /\ Fails(c)
       \/ At(c, "failKept") /\ Ends(c, IF throwOnError THEN "thrown" ELSE "ok")
    /\ UNCHANGED <<flowType, sessionVars, flowVars>>
-----------------------------------------------------------------------------
\* The answers of the server, and what _handleRequest and handleError make of them: of an error
\* that is null _getErrorMessage reads a field, as the xform of many methods does of a null result.
Answer == [status : {"none", "gateway", "ok", "error"}, json : BOOLEAN, null : BOOLEAN,
           code : {"none", "weak_password", "session_not_found", "other"}, reasons : BOOLEAN]

handleError(a) ==
    CASE a.status \in {"none", "gateway"} -> "AuthRetryableFetchError"
      [] a.status = "error" /\ ~a.json -> "AuthUnknownError"
      [] a.status = "error" /\ a.json /\ a.null -> "TypeError"
      [] a.status = "error" /\ a.json /\ ~a.null /\ (a.code = "weak_password" \/ (a.code = "none" /\ a.reasons))
            -> "AuthWeakPasswordError"
      [] a.status = "error" /\ a.json /\ ~a.null /\ a.code = "session_not_found" -> "AuthSessionMissingError"
      [] OTHER -> "AuthApiError"

_handleRequest(a) ==
    IF a.status # "ok" THEN handleError(a)
    ELSE IF a.json THEN "ok" ELSE handleError([a EXCEPT !.status = "none"])

Outcome == {_handleRequest(a) : a \in Answer}

Refuses(c, outcome) == IF outcome = "TypeError" THEN Throws(c) ELSE Fails(c)

Receives(c, session) == held' = [held EXCEPT ![c] = session]

Ask(c, outcome) ==
    /\ At(c, "ask")
    /\ IF outcome = "ok" THEN Continues(c) ELSE Refuses(c, outcome)
    /\ UNCHANGED <<flowType, sessionVars, flowVars>>

\* The user that the server has for a token.  With an AuthSessionMissingError _getUser
\* removes the session and the verifier first.
AskUser(c, outcome) ==
    /\ At(c, "askUser")
    /\ CASE outcome = "ok" -> Continues(c)
         [] outcome = "AuthSessionMissingError" -> Goes(c, SessionGone \o <<"fail">>)
         [] OTHER -> Refuses(c, outcome)
    /\ IF outcome = "ok" /\ c = Page THEN Receives(c, c) ELSE UNCHANGED held
    /\ UNCHANGED <<flowType, stored, told, crossed, flowVars>>

\* A session is required (AuthInvalidTokenResponseError), or may come later by mail.
AskSession(c, outcome) ==
    /\ \/ At(c, "askSession") \/ At(c, "askMaybe")
    /\ \/ outcome = "ok" /\ Continues(c) /\ Receives(c, c)
       \/ outcome = "ok" /\ At(c, "askMaybe") /\ Goes(c, <<>>) /\ UNCHANGED held
       \/ (outcome # "ok" \/ At(c, "askSession")) /\ Refuses(c, outcome) /\ UNCHANGED held
    /\ UNCHANGED <<flowType, stored, told, crossed, flowVars>>

\* _callRefreshToken: see AuthSession for the calls that share one request.
AskRefresh(c, outcome) ==
    /\ At(c, "askRefresh")
    /\ CASE outcome = "ok" -> Continues(c) /\ Receives(c, c)
         [] outcome \in {"AuthRetryableFetchError", "TypeError"} -> Refuses(c, outcome) /\ UNCHANGED held
         [] OTHER -> Goes(c, <<"remove", "SIGNED_OUT", "fail">>) /\ UNCHANGED held
    /\ UNCHANGED <<flowType, stored, told, crossed, flowVars>>

\* Without a session nobody is asked; a 401, 403 or 404 is as good as done.
AskLogout(c, outcome) ==
    /\ At(c, "askLogout")
    /\ \/ (held[c] = None \/ outcome \in {"ok", "AuthApiError"}) /\ Continues(c)
       \/ held[c] # None /\ outcome # "ok" /\ Refuses(c, outcome)
    /\ UNCHANGED <<flowType, sessionVars, flowVars>>
-----------------------------------------------------------------------------
\* getCodeChallengeAndMethod: one verifier is stored, whatever flow is under way.
Forgetting(d) ==
    todo[d] # <<>> /\ Head(todo[d]) \in {"forget", "SIGNED_OUT"} /\ Contains(todo[d], "forget")

getCodeChallengeAndMethod(c) ==
    /\ At(c, "verifier")
    /\ Continues(c)
    /\ IF flowType = "pkce"
       THEN /\ verifier' = c
            /\ begun' = begun \cup {c}
            /\ spoiled' = spoiled \cup begun \cup (IF \E d \in Caller : Forgetting(d) THEN {c} ELSE {})
       ELSE UNCHANGED <<verifier, begun, spoiled>>
    /\ UNCHANGED <<flowType, sessionVars, taken, code, used, lost>>

\* The server gives a code for a flow that it was asked for.
Redeemable == {f \in begun : f = Earlier \/ result[f] = "ok"}

TakeVerifier(c, f) ==
    /\ At(c, "take")
    /\ c = Page => f = code[c]
    /\ Continues(c)
    /\ code' = [code EXCEPT ![c] = f]
    /\ taken' = [taken EXCEPT ![c] = verifier]
    /\ UNCHANGED <<flowType, sessionVars, verifier, begun, used, spoiled, lost>>

\* Variant to refute: the verifier is forgotten whatever came of the exchange.
ExchangeFailsForgetting(c) == (Fails(c) \/ Throws(c)) /\ verifier' = None /\ UNCHANGED spoiled

\* An exchange that fails leaves the verifier for another try.
ExchangeFails(c) == (Fails(c) \/ Throws(c)) /\ UNCHANGED <<verifier, spoiled>>

Exchange(c) ==
    LET f == code[c]
        accepted == taken[c] = f /\ f \notin used
    IN  /\ At(c, "exchange")
        /\ \/ /\ accepted /\ used' = used \cup {f}
              /\ Continues(c)
              /\ Receives(c, c) \/ UNCHANGED held
              /\ spoiled' = spoiled \cup begun
              /\ UNCHANGED <<verifier, lost>>
           \/ /\ used' = used \/ (accepted /\ used' = used \cup {f})
              /\ lost' = IF taken[c] # f /\ f \notin used THEN lost \cup {f} ELSE lost
              /\ ExchangeFails(c)
              /\ UNCHANGED held
        /\ UNCHANGED <<flowType, stored, told, crossed, taken, code, begun>>

Check(c) ==
    /\ At(c, "check")
    /\ IF held[c] = None THEN Fails(c) ELSE Continues(c)
    /\ UNCHANGED <<flowType, sessionVars, flowVars>>

ForgetVerifier(c) ==
    /\ At(c, "forget")
    /\ Continues(c)
    /\ verifier' = None
    /\ UNCHANGED <<flowType, sessionVars, taken, code, begun, used, spoiled, lost>>

\* The storage of the verifier fails; that of the session is AuthSession's.
StorageFails(c) ==
    /\ (At(c, "verifier") /\ flowType = "pkce") \/ At(c, "take") \/ At(c, "forget")
    /\ Throws(c)
    /\ UNCHANGED <<flowType, sessionVars, flowVars>>
-----------------------------------------------------------------------------
\* An event still to come of a change made already, by somebody the lock does not keep out.
Telling(d) ==
    LET left == Range(todo[d])
    IN  left \cap Event # {} /\ left \cap {"save", "remove", "recover"} = {}

Crosses(c) == \E d \in Caller \ {c} : Telling(d) /\ ~({c, d} \subseteq holders)

SaveSession(c) ==
    /\ At(c, "save")
    /\ Continues(c)
    /\ stored' = held[c]
    /\ crossed' = (crossed \/ Crosses(c))
    /\ UNCHANGED <<flowType, told, held, flowVars>>

\* _removeSession takes the verifier along.
RemoveSession(c) ==
    /\ At(c, "remove")
    /\ Continues(c)
    /\ stored' = None /\ verifier' = None
    /\ spoiled' = spoiled \cup begun
    /\ crossed' = (crossed \/ Crosses(c))
    /\ UNCHANGED <<flowType, told, held, taken, code, begun, used, lost>>

NotifyAllSubscribers(c) ==
    /\ todo[c] # <<>> /\ Head(todo[c]) \in Event
    /\ told' = IF At(c, "SIGNED_OUT") THEN None ELSE held[c]
    /\ Continues(c)
    /\ UNCHANGED <<flowType, stored, held, crossed, flowVars>>

Step(c) ==
    \/ AwaitInitialize(c) \/ Lock(c) \/ Unlock(c) \/ UseSession(c) \/ NeedSession(c)
    \/ Wallet(c) \/ FailsAtOnce(c)
    \/ \E outcome \in Outcome :
            \/ Ask(c, outcome) \/ AskUser(c, outcome) \/ AskSession(c, outcome)
            \/ AskRefresh(c, outcome) \/ AskLogout(c, outcome)
    \/ getCodeChallengeAndMethod(c) \/ \E f \in Redeemable : TakeVerifier(c, f)
    \/ Exchange(c) \/ Check(c) \/ ForgetVerifier(c) \/ StorageFails(c)
    \/ SaveSession(c) \/ RemoveSession(c) \/ NotifyAllSubscribers(c)

Next ==
    \/ \E url \in {"none", "code", "tokens", "error", "identity error"} : Detect(url)
    \/ Recover
    \/ \E c \in Call : \E steps \in Methods : Begin(c, steps)
    \/ \E c \in Caller : Step(c)

Spec == Init /\ [][Next]_vars
-----------------------------------------------------------------------------
TypeOK ==
    /\ flowType \in {"pkce", "implicit"}
    /\ stored \in Session \cup {None} /\ told \in Session \cup {None}
    /\ verifier \in Flow \cup {None} /\ holders \in SUBSET Caller /\ Cardinality(holders) <= 1
    /\ held \in [Caller -> Session \cup {None}]
    /\ taken \in [Caller -> Flow \cup {None}] /\ code \in [Caller -> Flow \cup {None}]
    /\ result \in [Caller -> {"none", "ok", "error", "thrown"}]
    /\ begun \in SUBSET Flow /\ used \in SUBSET Flow /\ spoiled \in SUBSET Flow
    /\ lost \in SUBSET Flow /\ crossed \in BOOLEAN

\* When nothing is under way the last event told subscribers of the session in storage;
\* unless a change and an event crossed outside the lock.
ToldIsStored == (\A c \in Caller : todo[c] = <<>>) /\ ~crossed => told = stored

\* A code is refused for want of its verifier only if another flow began, a code was exchanged
\* or the session was removed since its own flow began: no failed try costs the verifier.
CodeRedeemable == lost \subseteq spoiled

\* Claimed at GoTrueClient.ts:441: never throw in this method.
InitializeNeverThrows == result[Page] # "thrown"
=============================================================================
