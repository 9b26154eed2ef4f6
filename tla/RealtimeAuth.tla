---------------------------- MODULE RealtimeAuth ----------------------------
(***************************************************************************)
(* How an access token gets from the auth client to realtime channels:     *)
(* SupabaseClient._handleTokenChanged and _getAccessToken, setAuth and     *)
(* _performAuth of RealtimeClient with its _authPromise, and the tokens in *)
(* join messages.  Calls of setAuth overlap while they wait for the token. *)
(* What the session is at a time is the business of AuthSession; here it   *)
(* changes as it likes.  One channel and one connection stand for all.     *)
(***************************************************************************)
EXTENDS Naturals, Sequences, SequencesExt

CONSTANTS
    MaxToken,               \* bound: access tokens ever issued; 0 is the API key
    Auth,                   \* bound: calls of setAuth in progress at once
    MaxLost                 \* bound: lost connections

Token == 0..MaxToken
Null == MaxToken + 1        \* null and undefined
Asking == MaxToken + 2      \* of a _performAuth: it waits for a token
Idle == MaxToken + 3        \* of a _performAuth: it is not in progress

VARIABLES
    session,                \* the access token of the session, 0 without one
    issued,                 \* tokens issued so far
    notices,                \* auth events whose subscribers have not run yet
    changedAccessToken,     \* of SupabaseClient
    performing,             \* each _performAuth: Idle, Asking, or the token it was given
    authPromise,            \* _authPromise, "none" for null
    accessTokenValue,       \* of RealtimeClient
    conn,                   \* "none", "connecting", "open"
    flushAfter,             \* the call whose end _onConnOpen waits for, or "none"
    lost,                   \* connections lost so far
    channel,                \* "closed", "joining", "joined", "errored"
    joinPayload,            \* access_token in the payload of joinPush
    sendBuffer,             \* the access_tokens of joins in the sendBuffer
    server,                 \* the token the server has for the channel, Null for none
    oldJoin                 \* history: the token changed after this join was written

authVars == <<session, issued, notices, changedAccessToken>>
connVars == <<conn, flushAfter, lost>>
chanVars == <<channel, joinPayload, sendBuffer, server, oldJoin>>
vars == <<authVars, performing, authPromise, accessTokenValue, connVars, chanVars>>

Init ==
    /\ session = 0 /\ issued = 0 /\ notices = <<>> /\ changedAccessToken = Null
    /\ performing = [a \in Auth |-> Idle] /\ authPromise = "none"
    /\ accessTokenValue = Null
    /\ conn = "none" /\ flushAfter = "none" /\ lost = 0
    /\ channel = "closed" /\ joinPayload = Null /\ sendBuffer = <<>> /\ server = Null
    /\ oldJoin = FALSE
-----------------------------------------------------------------------------
\* The session is saved or removed; the subscribers run later.
SessionChanges ==
    /\ \/ /\ issued < MaxToken /\ issued' = issued + 1
          /\ session' = issued'
          /\ notices' = Append(notices, issued')
       \/ /\ session # 0 /\ session' = 0
          /\ notices' = Append(notices, 0)
          /\ UNCHANGED issued
    /\ UNCHANGED <<changedAccessToken, performing, authPromise, accessTokenValue, connVars, chanVars>>

\* A call of setAuth without a token begins: it asks for one.
Begin(a) ==
    /\ performing[a] = Idle
    /\ performing' = [performing EXCEPT ![a] = Asking]
    /\ authPromise' = a

\* _performAuth, once it has the token.
Apply(token) ==
    IF accessTokenValue = token
      THEN UNCHANGED <<accessTokenValue, joinPayload, server, oldJoin>>
      ELSE /\ accessTokenValue' = token
           /\ joinPayload' = token
           /\ server' = IF channel = "joined" THEN token ELSE server
           /\ oldJoin' = (oldJoin \/ channel = "joining")

\* _handleTokenChanged: setAuth with the token of the event, at once, or asking for it.
TokenChanged ==
    /\ notices # <<>> /\ notices' = Tail(notices)
    /\ LET token == Head(notices) IN
       \/ /\ token # 0 /\ changedAccessToken # token
          /\ changedAccessToken' = token
          /\ Apply(token) /\ authPromise' = "none"
          /\ UNCHANGED performing
       \/ /\ token # 0 /\ changedAccessToken = token
          /\ UNCHANGED <<changedAccessToken, performing, authPromise, accessTokenValue,
                         joinPayload, server, oldJoin>>
       \/ /\ token = 0
          /\ changedAccessToken' = Null
          /\ \E a \in Auth : Begin(a)
          /\ UNCHANGED <<accessTokenValue, joinPayload, server, oldJoin>>
    /\ UNCHANGED <<session, issued, connVars, channel, sendBuffer>>

\* _getAccessToken: the session as it is now, or the API key.
TokenRead(a) ==
    /\ performing[a] = Asking
    /\ performing' = [performing EXCEPT ![a] = session]
    /\ UNCHANGED <<authVars, authPromise, accessTokenValue, connVars, chanVars>>

\* flushSendBuffer: the server gets the joins, the last one counts.
FlushSendBuffer ==
    /\ sendBuffer' = <<>>
    /\ IF sendBuffer = <<>>
         THEN UNCHANGED <<server, oldJoin>>
         ELSE server' = Last(sendBuffer) /\ oldJoin' = (oldJoin \/ server' # accessTokenValue)

\* The end of setAuth: it clears _authPromise, also that of a later call.
AuthEnds(a) ==
    /\ performing[a] \in Token
    /\ performing' = [performing EXCEPT ![a] = Idle]
    /\ authPromise' = "none"
    /\ Apply(performing[a])
    /\ UNCHANGED <<authVars, connVars, channel, sendBuffer>>

\* The promise reaction of _onConnOpen behind it.
FlushAfterAuth ==
    /\ flushAfter # "none" /\ performing[flushAfter] = Idle
    /\ flushAfter' = "none"
    /\ IF conn = "open" THEN FlushSendBuffer ELSE UNCHANGED <<sendBuffer, server, oldJoin>>
    /\ UNCHANGED <<authVars, performing, authPromise, accessTokenValue, conn, lost, channel,
                   joinPayload>>
-----------------------------------------------------------------------------
\* connect: the auth is started unless one is in progress.
Connecting ==
    IF conn = "none"
      THEN /\ conn' = "connecting"
           /\ IF authPromise = "none" THEN \E a \in Auth : Begin(a)
              ELSE UNCHANGED <<performing, authPromise>>
      ELSE UNCHANGED <<conn, performing, authPromise>>

\* The join message has the payload as it is now, wherever it waits; what updateJoinPayload
\* does later makes another payload.
SendJoin(payload) ==
    IF conn = "open"
      THEN server' = payload /\ UNCHANGED sendBuffer
      ELSE sendBuffer' = Append(sendBuffer, payload) /\ UNCHANGED server

\* subscribe.
Subscribe ==
    /\ channel = "closed" /\ channel' = "joining"
    /\ Connecting
    /\ joinPayload' = IF accessTokenValue = Null THEN joinPayload ELSE accessTokenValue
    /\ SendJoin(joinPayload')
    /\ oldJoin' = FALSE
    /\ UNCHANGED <<authVars, accessTokenValue, flushAfter, lost>>

\* _onConnOpen.
OnConnOpen ==
    /\ conn = "connecting" /\ conn' = "open"
    /\ \/ /\ authPromise # "none" /\ flushAfter' = authPromise
          /\ UNCHANGED <<performing, authPromise, sendBuffer, server, oldJoin>>
       \/ /\ authPromise = "none" /\ accessTokenValue = Null
          /\ \E a \in Auth : Begin(a) /\ flushAfter' = a
          /\ UNCHANGED <<sendBuffer, server, oldJoin>>
       \/ /\ authPromise = "none" /\ accessTokenValue # Null
          /\ FlushSendBuffer
          /\ UNCHANGED <<flushAfter, performing, authPromise>>
    /\ UNCHANGED <<authVars, accessTokenValue, lost, channel, joinPayload>>

\* The reply to the join, and the hook of subscribe that calls setAuth.
JoinOk ==
    /\ conn = "open" /\ channel = "joining" /\ sendBuffer = <<>>
    /\ channel' = "joined"
    /\ \E a \in Auth : Begin(a)
    /\ UNCHANGED <<authVars, accessTokenValue, connVars, joinPayload, sendBuffer, server, oldJoin>>

\* Variant to refute: only a connection and a join ask for the token.
NoAuth == UNCHANGED <<performing, authPromise>>

\* What a heartbeat does besides: see RealtimeClient.
HeartbeatAuth == \E a \in Auth : Begin(a)

Heartbeat ==
    /\ conn = "open"
    /\ HeartbeatAuth
    /\ UNCHANGED <<authVars, accessTokenValue, connVars, chanVars>>

\* The connection is lost, and made again; the channel rejoins when it is open.
ConnLost ==
    /\ conn = "open" /\ lost < MaxLost /\ lost' = lost + 1
    /\ conn' = "none"
    /\ channel' = IF channel = "closed" THEN "closed" ELSE "errored"
    /\ server' = Null
    /\ UNCHANGED <<authVars, performing, authPromise, accessTokenValue, flushAfter, joinPayload,
                   sendBuffer, oldJoin>>

Reconnect ==
    /\ conn = "none" /\ lost > 0
    /\ authPromise = "none"
    /\ Connecting
    /\ UNCHANGED <<authVars, accessTokenValue, flushAfter, lost, chanVars>>

Rejoin ==
    /\ conn = "open" /\ channel = "errored" /\ channel' = "joining"
    /\ SendJoin(joinPayload)
    /\ oldJoin' = FALSE
    /\ UNCHANGED <<authVars, performing, authPromise, accessTokenValue, connVars, joinPayload>>

Next ==
    \/ SessionChanges \/ TokenChanged
    \/ \E a \in Auth : TokenRead(a) \/ AuthEnds(a)
    \/ FlushAfterAuth \/ Subscribe \/ OnConnOpen \/ JoinOk \/ Heartbeat
    \/ ConnLost \/ Reconnect \/ Rejoin

Spec == Init /\ [][Next]_vars

(* Subscribers run, requests for the token are answered, the network works in the end and
   the heartbeat goes on. *)
Fairness ==
    /\ WF_vars(TokenChanged) /\ WF_vars(Heartbeat) /\ WF_vars(FlushAfterAuth)
    /\ \A a \in Auth : WF_vars(TokenRead(a) \/ AuthEnds(a))
    /\ SF_vars(OnConnOpen \/ JoinOk \/ Reconnect) /\ WF_vars(Rejoin)

FairSpec == Spec /\ Fairness
-----------------------------------------------------------------------------
TypeOK ==
    /\ session \in Token /\ issued \in Token /\ notices \in Seq(Token)
    /\ changedAccessToken \in Token \cup {Null}
    /\ performing \in [Auth -> Token \cup {Asking, Idle}]
    /\ authPromise \in Auth \cup {"none"} /\ flushAfter \in Auth \cup {"none"}
    /\ accessTokenValue \in Token \cup {Null}
    /\ conn \in {"none", "connecting", "open"}
    /\ channel \in {"closed", "joining", "joined", "errored"}
    /\ joinPayload \in Token \cup {Null} /\ server \in Token \cup {Null}
    /\ sendBuffer \in Seq(Token \cup {Null})
    /\ oldJoin \in BOOLEAN

\* In the end a connected client has the token of the session, however its requests for it
\* overlapped, and so does the server for a joined channel; unless the token changed while
\* the channel was joining.
TokenSettles ==
    <>[](conn = "open" =>
            /\ accessTokenValue = session
            /\ channel = "joined" => server = session \/ oldJoin)
=============================================================================
