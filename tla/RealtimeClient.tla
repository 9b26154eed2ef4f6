--------------------------- MODULE RealtimeClient ---------------------------
(***************************************************************************)
(* RealtimeClient (realtime-js) with its channels: the WebSocket that is   *)
(* connected, lost, found dead by the heartbeat, replaced and disconnected,*)
(* and channels that join, push, rejoin and leave over it.  All timers,    *)
(* socket events and calls of the application interleave; what runs in one *)
(* turn of the event loop is one step.                                     *)
(*                                                                         *)
(* Channels of different topics share nothing but the socket: the channels *)
(* of the model are objects made one after another for one topic.  The     *)
(* server (Phoenix) is external: it joins one channel process per topic    *)
(* and connection, and answers in order.                                   *)
(***************************************************************************)
EXTENDS RealtimeChannel, FiniteSets, SequencesExt

CONSTANTS
    Channel,                \* channel objects of one topic
    Owner,                  \* the channel on which a push is sent
    Conn,                   \* bound: WebSockets that exist at once
    MaxEvents               \* bound: calls of the application, failures, late answers

ASSUME ClientAssumption ==
    /\ Owner \in [Push -> Channel]
    /\ Conn \subseteq Nat \ {0} /\ IsFiniteSet(Conn)
    /\ MaxEvents \in Nat

VARIABLES
    chan,                   \* the channel objects
    created,                \* those that client.channel() has made
    push,                   \* what became of each push
    conn,                   \* conn, 0 for null
    ready,                  \* readyState of each WebSocket, as the network has it
    connState,              \* _connectionState
    manual,                 \* _wasManualDisconnect
    up, down,               \* messages on their way, per WebSocket
    joined,                 \* the join_ref of the server's channel, per WebSocket
    sendBuffer,             \* sendBuffer
    reconnect,              \* reconnectTimer is running
    reconnecting,           \* its callbacks waiting for 10 ms and for the auth
    heartbeat,              \* heartbeatTimer is running
    pendingHeartbeat,       \* pendingHeartbeatRef: of this or an earlier WebSocket
    heartbeatFallbacks,     \* timeouts set by a missed heartbeat
    fallbacks,              \* timeouts set by disconnect
    flushes,                \* onopen handlers waiting for the auth before they flush
    tails,                  \* removeChannel and removeAllChannels after their await
    events                  \* what MaxEvents limits

netVars == <<conn, ready, connState, manual, up, down, joined, sendBuffer>>
timerVars == <<reconnect, reconnecting, heartbeat, pendingHeartbeat, heartbeatFallbacks,
               fallbacks, flushes>>
vars == <<chan, created, push, netVars, timerVars, tails, events>>

(* "dead": open for this side, but nothing passes; "failed": onerror was called and
   onclose will be; "none": closed, or with its handlers removed. *)
ReadyState == {"none", "connecting", "open", "dead", "failed", "closing"}

PushState == {"new", "buffered", "sent", "ok", "error", "timedOut", "dropped"}

Message == [event : {"phx_join", "phx_leave", "push"}, ref : Ref \cup {0} \cup Push]

Reply == [event : {"ok", "mismatch", "error", "phx_close", "phx_error"},
          ref : Ref \cup {0} \cup Push]

Init ==
    /\ chan = [c \in Channel |-> [NewChannel EXCEPT !.routed = FALSE]]
    /\ created = {}
    /\ push = [p \in Push |-> "new"]
    /\ conn = 0
    /\ ready = [k \in Conn |-> "none"]
    /\ connState = "disconnected" /\ manual = FALSE
    /\ up = [k \in Conn |-> <<>>] /\ down = [k \in Conn |-> <<>>]
    /\ joined = [k \in Conn |-> {}]
    /\ sendBuffer = <<>>
    /\ reconnect = FALSE /\ reconnecting = 0
    /\ heartbeat = FALSE /\ pendingHeartbeat = "none" /\ heartbeatFallbacks = 0
    /\ fallbacks = 0 /\ flushes = 0
    /\ tails = <<>>
    /\ events = 0
-----------------------------------------------------------------------------
\* isConnected.
Connected == conn # 0 /\ ready[conn] \in {"open", "dead"}

Routed == {c \in created : chan[c].routed}

\* _canPush.
CanPush(c) == Connected /\ chan[c].state = "joined"

Msg(event, ref) == [event |-> event, ref |-> ref]

\* RealtimeClient.push of messages: to the WebSocket, or into the buffer.
Transmit(msgs) ==
    /\ sendBuffer' = IF Connected THEN sendBuffer ELSE sendBuffer \o msgs
    /\ up' = IF Connected /\ ready[conn] = "open" THEN [up EXCEPT ![conn] = @ \o msgs] ELSE up

\* _makeRef: a reference that nothing holds any more; Ref bounds how many are held at once.
Refs(msgs) == {m.ref : m \in ToSet(msgs)}
UsedRefs ==
    {chan[c].joinRef : c \in Channel} \cup Refs(sendBuffer)
        \cup UNION {Refs(up[k]) \cup Refs(down[k]) \cup joined[k] : k \in Conn}
RefLeft == \E r \in Ref : r \notin UsedRefs
NewRef == CHOOSE r \in Ref : r \notin UsedRefs

\* _remove, of a channel that closes: the channels of its topic leave the socket.
Removed(chans, c) ==
    IF chans[c].state = "closed"
      THEN [d \in Channel |-> [chans[d] EXCEPT !.routed = FALSE]]
      ELSE chans

\* unsubscribe.
Unsubscribed(chans, c) == Removed([chans EXCEPT ![c] = Left(@)], c)

\* The channel that _leaveOpenTopic finds: any that is joined or joining, also the
\* one that is about to join.
OpenOfTopic == {d \in Routed : chan[d].state \in {"joined", "joining"}}
AfterLeaveOpenTopic ==
    IF OpenOfTopic = {} THEN chan ELSE Unsubscribed(chan, CHOOSE d \in OpenOfTopic : TRUE)
LeaveOpenTopicMessages ==
    IF OpenOfTopic = {} THEN <<>>
    ELSE <<Msg("phx_leave", chan[CHOOSE d \in OpenOfTopic : TRUE].joinRef)>>

\* _rejoin, of a channel that is not leaving.
Rejoin(c) ==
    LET ch == Resent([AfterLeaveOpenTopic[c] EXCEPT !.state = "joining", !.joinedOnce = TRUE],
                     NewRef)
    IN  /\ RefLeft
        /\ chan' = [AfterLeaveOpenTopic EXCEPT ![c] = ch]
        /\ Transmit(LeaveOpenTopicMessages \o <<Msg("phx_join", ch.joinRef)>>)

\* connect.
Connect ==
    IF connState \in {"connecting", "disconnecting"} \/ Connected
      THEN UNCHANGED <<conn, ready, connState, manual, pendingHeartbeat>>
      ELSE \E k \in Conn :
             /\ ready[k] = "none" /\ \A j \in Conn : ready[j] = "none" => k <= j
             /\ conn' = k
             /\ ready' = [ready EXCEPT ![k] = "connecting"]
             /\ connState' = "connecting" /\ manual' = FALSE
             /\ pendingHeartbeat' = IF pendingHeartbeat = "this" THEN "earlier"
                                    ELSE pendingHeartbeat

\* The WebSocket k is gone, and what was on its way with it.
Gone(k) ==
    /\ up' = [up EXCEPT ![k] = <<>>]
    /\ down' = [down EXCEPT ![k] = <<>>]
    /\ joined' = [joined EXCEPT ![k] = {}]

\* teardown destroys the pushes of a channel, sent or not: their replies and timeouts
\* have no binding any more.
DestroyPushes(chans) ==
    push' = [p \in Push |->
               IF chans[Owner[p]].routed /\ push[p] \in {"buffered", "sent"}
                 THEN "dropped" ELSE push[p]]

\* disconnect, with the channels as chans.  The handlers go with the connection, also
\* the onclose that was to end the disconnecting: that is left to the timeout.
Disconnect(chans) ==
    IF connState = "disconnecting"
      THEN /\ chan' = chans
           /\ UNCHANGED <<push, netVars, reconnect, heartbeat, pendingHeartbeat, fallbacks>>
      ELSE /\ manual' = TRUE
           /\ IF conn = 0
                THEN /\ connState' = "disconnected"
                     /\ chan' = chans
                     /\ UNCHANGED <<push, conn, ready, up, down, joined, fallbacks, reconnect,
                                    heartbeat, pendingHeartbeat>>
                ELSE /\ connState' = "disconnecting" /\ fallbacks' = fallbacks + 1
                     /\ ready' = [ready EXCEPT ![conn] = "none"]
                     /\ conn' = 0
                     /\ Gone(conn)
                     /\ reconnect' = FALSE /\ heartbeat' = FALSE
                     /\ pendingHeartbeat' = IF pendingHeartbeat = "this" THEN "earlier"
                                            ELSE pendingHeartbeat
                     /\ chan' = [c \in Channel |->
                                   IF chans[c].routed THEN TornDown(chans[c]) ELSE chans[c]]
                     /\ DestroyPushes(chans)
           /\ UNCHANGED sendBuffer
-----------------------------------------------------------------------------
\* What MaxEvents bounds.
Counted == events < MaxEvents /\ events' = events + 1

(* Calls of the application. *)

CallConnect ==
    /\ Counted
    /\ Connect
    /\ UNCHANGED <<chan, created, push, up, down, joined, sendBuffer, reconnect, reconnecting,
                   heartbeat, heartbeatFallbacks, fallbacks, flushes, tails>>

CallDisconnect ==
    /\ Counted
    /\ Disconnect(chan)
    /\ UNCHANGED <<created, reconnecting, heartbeatFallbacks, flushes, tails>>

\* channel(): an object that is in the socket already is returned, not made again.  The names
\* of the objects mean nothing: they are given in one order.
NextChannel == CHOOSE c \in Channel : c \notin created
CreateChannel ==
    /\ created # Channel /\ Routed = {}
    /\ created' = created \cup {NextChannel}
    /\ chan' = [chan EXCEPT ![NextChannel] = NewChannel]
    /\ UNCHANGED <<push, netVars, timerVars, tails, events>>

\* subscribe; on() for presence on a joined channel is removeChannel's unsubscribe and
\* this, one after the other.
Subscribe(c) ==
    /\ c \in created /\ Counted
    /\ Connect
    /\ IF chan[c].state = "closed"
         THEN Rejoin(c)
         ELSE UNCHANGED <<chan, up, sendBuffer>>
    /\ UNCHANGED <<created, push, down, joined, reconnect, reconnecting, heartbeat,
                   heartbeatFallbacks, fallbacks, flushes, tails>>

\* unsubscribe, and removeChannel up to its await.
RemoveChannel(c) ==
    /\ c \in created /\ Counted
    /\ chan' = Unsubscribed(chan, c)
    /\ Transmit(<<Msg("phx_leave", chan[c].joinRef)>>)
    /\ tails' \in {tails, Append(tails, "one")}
    /\ UNCHANGED <<created, push, conn, ready, connState, manual, down, joined, timerVars>>

\* removeAllChannels up to its await.
RemoveAllChannels ==
    /\ Counted
    /\ IF Routed = {}
         THEN UNCHANGED <<chan, up, sendBuffer>>
         ELSE LET c == CHOOSE d \in Routed : TRUE
              IN  /\ chan' = Unsubscribed(chan, c)
                  /\ Transmit(<<Msg("phx_leave", chan[c].joinRef)>>)
    /\ tails' = Append(tails, "all")
    /\ UNCHANGED <<created, push, conn, ready, connState, manual, down, joined, timerVars>>

\* Both after their await; the second drops whatever channel it finds.
RunTail ==
    /\ tails # <<>> /\ tails' = Tail(tails)
    /\ IF Head(tails) = "all"
         THEN Disconnect([c \in Channel |-> [chan[c] EXCEPT !.routed = FALSE]])
         ELSE IF Routed = {}
           THEN Disconnect(chan)
           ELSE UNCHANGED <<chan, push, netVars, reconnect, heartbeat, pendingHeartbeat, fallbacks>>
    /\ UNCHANGED <<created, reconnecting, heartbeatFallbacks, flushes, events>>

\* _push, from send or track; it throws before the first subscribe.
SendPush(p) ==
    LET c == Owner[p] IN
    /\ push[p] = "new" /\ chan[c].joinedOnce /\ Counted
    /\ IF CanPush(c)
         THEN /\ push' = [push EXCEPT ![p] = "sent"]
              /\ Transmit(<<Msg("push", p)>>)
              /\ UNCHANGED chan
         ELSE /\ chan' = [chan EXCEPT ![c].pushBuffer = Buffered(chan[c], p)]
              /\ push' = [q \in Push |->
                            IF q = p THEN "buffered"
                            ELSE IF q \in ToSet(chan[c].pushBuffer) \ ToSet(Buffered(chan[c], p))
                                    /\ push[q] = "buffered"
                            THEN "dropped" ELSE push[q]]
              /\ UNCHANGED <<up, sendBuffer>>
    /\ UNCHANGED <<created, conn, ready, connState, manual, down, joined, timerVars, tails>>
-----------------------------------------------------------------------------
(* Events of the WebSockets.  Promise reactions run before them. *)

Event == tails = <<>>

\* _triggerChanError.
ChannelsErrored == [c \in Channel |-> IF c \in Routed THEN Errored(chan[c]) ELSE chan[c]]

\* flushSendBuffer, on whatever connection there is.
FlushSendBuffer(readyNow) ==
    IF conn # 0 /\ readyNow[conn] \in {"open", "dead"}
      THEN /\ up' = IF readyNow[conn] = "open" THEN [up EXCEPT ![conn] = @ \o sendBuffer] ELSE up
           /\ sendBuffer' = <<>>
      ELSE UNCHANGED <<up, sendBuffer>>

\* _onConnOpen, of the current connection or of one that was replaced before.  The buffer is
\* flushed at once, or later, when the auth takes its time.
OnConnOpen(k) ==
    /\ Event
    /\ ready[k] = "connecting"
    /\ ready' = [ready EXCEPT ![k] = "open"]
    /\ connState' = "connected"
    /\ \/ FlushSendBuffer([ready EXCEPT ![k] = "open"]) /\ UNCHANGED <<flushes, events>>
       \/ Counted /\ flushes' = flushes + 1 /\ UNCHANGED <<up, sendBuffer>>
    /\ reconnect' = FALSE
    /\ heartbeat' = TRUE
    /\ UNCHANGED <<chan, created, push, conn, manual, down, joined, reconnecting,
                   pendingHeartbeat, heartbeatFallbacks, fallbacks, tails>>

Flush ==
    /\ Event
    /\ flushes > 0 /\ flushes' = flushes - 1
    /\ FlushSendBuffer(ready)
    /\ UNCHANGED <<chan, created, push, conn, ready, connState, manual, down, joined, reconnect,
                   reconnecting, heartbeat, pendingHeartbeat, heartbeatFallbacks, fallbacks,
                   tails, events>>

\* _onConnError: a connection attempt fails; its onclose comes later.
OnConnError(k) ==
    /\ Event /\ Counted
    /\ ready[k] = "connecting"
    /\ ready' = [ready EXCEPT ![k] = "failed"]
    /\ connState' = "disconnected"
    /\ chan' = ChannelsErrored
    /\ UNCHANGED <<created, push, conn, manual, up, down, joined, sendBuffer, timerVars, tails>>

\* Variant to refute: the reconnection is left to the application.
NotScheduled == reconnect

\* Whether reconnectTimer runs after an onclose.
Scheduled == reconnect \/ ~manual

\* _onConnClose: of the current connection, or of one that was replaced before.
OnConnClose(k) ==
    /\ Event
    /\ \/ ready[k] \in {"failed", "closing"} /\ UNCHANGED events
       \/ ready[k] = "open" /\ Counted
    /\ ready' = [ready EXCEPT ![k] = "none"]
    /\ Gone(k)
    /\ connState' = "disconnected"
    /\ chan' = ChannelsErrored
    /\ heartbeat' = FALSE
    /\ reconnect' = Scheduled
    /\ UNCHANGED <<created, push, conn, manual, sendBuffer, reconnecting, pendingHeartbeat,
                   heartbeatFallbacks, fallbacks, flushes, tails>>

\* The network: nothing passes any more, and neither end is told.
ConnDies(k) ==
    /\ Event /\ Counted
    /\ ready[k] = "open"
    /\ ready' = [ready EXCEPT ![k] = "dead"]
    /\ Gone(k)
    /\ UNCHANGED <<chan, created, push, conn, connState, manual, sendBuffer, timerVars, tails>>
-----------------------------------------------------------------------------
(* The server. *)

\* The server takes the next message of the WebSocket k.  A second join of a topic
\* closes the first; a leave of an earlier join is ignored.
Serve(k) ==
    LET m == Head(up[k])
        old == SetToSeq({Msg("phx_close", r) : r \in joined[k]})
        Answer(replies, now) ==
            /\ down' = [down EXCEPT ![k] = @ \o replies]
            /\ joined' = [joined EXCEPT ![k] = now]
    IN
    /\ Event
    /\ ready[k] = "open" /\ up[k] # <<>>
    /\ up' = [up EXCEPT ![k] = Tail(@)]
    /\ \/ /\ m.event = "phx_join"
          /\ \/ Answer(old \o <<Msg("ok", m.ref)>>, {m.ref}) /\ UNCHANGED events
             \/ Answer(old \o <<Msg("mismatch", m.ref)>>, {m.ref}) /\ Counted
             \/ Answer(old \o <<Msg("error", m.ref)>>, {}) /\ Counted
             \/ Answer(old, {}) /\ Counted
       \/ /\ m.event = "phx_leave"
          /\ IF m.ref \in joined[k]
               THEN Answer(<<Msg("phx_close", m.ref)>>, {})
               ELSE UNCHANGED <<down, joined>>
          /\ UNCHANGED events
       \/ /\ m.event = "push"
          /\ \/ Answer(<<Msg(IF joined[k] # {} THEN "ok" ELSE "error", m.ref)>>, joined[k])
                /\ UNCHANGED events
             \/ UNCHANGED <<down, joined>> /\ Counted
    /\ UNCHANGED <<chan, created, push, conn, ready, connState, manual, sendBuffer, timerVars,
                   tails>>

\* The server's channel process crashes, or is closed from the server.
ServerDrops(k) ==
    /\ Event /\ Counted
    /\ ready[k] = "open"
    /\ \E r \in joined[k], event \in {"phx_error", "phx_close"} :
          down' = [down EXCEPT ![k] = Append(@, Msg(event, r))]
    /\ joined' = [joined EXCEPT ![k] = {}]
    /\ UNCHANGED <<chan, created, push, conn, ready, connState, manual, up, sendBuffer, timerVars,
                   tails>>
-----------------------------------------------------------------------------
(* _onConnMessage, by what arrives: one message of the WebSocket k, for the channels
   of the topic that the socket has. *)
Arrives(k, kinds) ==
    /\ Event
    /\ ready[k] = "open" /\ down[k] # <<>>
    /\ Head(down[k]).event \in kinds
    /\ down' = [down EXCEPT ![k] = Tail(@)]
    /\ UNCHANGED <<created, conn, ready, connState, manual, joined, reconnect, reconnecting,
                   heartbeat, pendingHeartbeat, heartbeatFallbacks, fallbacks, flushes, tails,
                   events>>

\* Variant to refute: a reply is for the channel that waits for one, whatever it answers.
HearingAny(ref) == {c \in Routed : chan[c].intact /\ chan[c].hears}

\* The channels whose joinPush has a binding for a reply to ref.
Hearing(ref) ==
    {c \in Routed : chan[c].intact /\ chan[c].hears /\ chan[c].joinRef = ref}

\* Variant to refute: what timed out in the buffer is sent all the same.
StillThere(p) == push[p] # "new"

\* The pushes of a buffer that have not timed out there.
StillWanted(p) == push[p] # "timedOut"

\* The messages that send them, in the order of the buffer.
Flushed(buffer) ==
    LET flushed[i \in 0..Len(buffer)] ==
          IF i = 0 THEN <<>>
          ELSE IF StillWanted(buffer[i]) THEN Append(flushed[i - 1], Msg("push", buffer[i]))
          ELSE flushed[i - 1]
    IN  flushed[Len(buffer)]

JoinAnswered(k) ==
    LET m == Head(down[k])
        hearing == Hearing(m.ref)
    IN
    /\ Arrives(k, {"ok", "mismatch", "error"}) /\ m.ref \notin Push
    /\ IF hearing = {}
         THEN UNCHANGED <<chan, push, up, sendBuffer>>
         ELSE LET c == CHOOSE d \in hearing : TRUE
                  flushed == Flushed(chan[c].pushBuffer)
              IN  CASE m.event = "error" ->
                         /\ chan' = [chan EXCEPT ![c] = JoinError(@)]
                         /\ UNCHANGED <<push, up, sendBuffer>>
                    [] OTHER ->
                         /\ push' = [p \in Push |->
                                       IF p \in ToSet(chan[c].pushBuffer) /\ StillWanted(p)
                                         THEN "sent" ELSE push[p]]
                         /\ IF m.event = "ok"
                              THEN /\ chan' = [chan EXCEPT ![c] = JoinOk(@)]
                                   /\ Transmit(flushed)
                              ELSE /\ chan' = [d \in Channel |->
                                         IF d = c THEN [Mismatched(chan[c]) EXCEPT !.routed = FALSE]
                                                  ELSE [chan[d] EXCEPT !.routed = FALSE]]
                                   /\ Transmit(flushed \o <<Msg("phx_leave", m.ref)>>)

PushAnswered(k) ==
    LET m == Head(down[k]) IN
    /\ Arrives(k, {"ok", "error"}) /\ m.ref \in Push
    /\ push' = IF Owner[m.ref] \in Routed /\ chan[Owner[m.ref]].intact /\ push[m.ref] = "sent"
                 THEN [push EXCEPT ![m.ref] = m.event]
                 ELSE push
    /\ UNCHANGED <<chan, up, sendBuffer>>

ServerDropArrives(k) ==
    LET m == Head(down[k])
        concerned == {c \in Routed : Concerns(m.ref, chan[c])}
    IN
    /\ Arrives(k, {"phx_close", "phx_error"})
    /\ chan' = IF concerned = {} THEN chan
               ELSE LET c == CHOOSE d \in concerned : TRUE
                    IN  IF m.event = "phx_close"
                          THEN IF chan[c].intact
                                 THEN Removed([chan EXCEPT ![c] = Closed(@)], c) ELSE chan
                          ELSE [chan EXCEPT ![c] = Errored(@)]
    /\ UNCHANGED <<push, up, sendBuffer>>

\* The heartbeat and its answer overtake nothing that matters, and are not queued.
HeartbeatAnswered ==
    /\ Event
    /\ pendingHeartbeat = "this" /\ ready[conn] = "open"
    /\ pendingHeartbeat' = "none"
    /\ UNCHANGED <<chan, created, push, netVars, reconnect, reconnecting, heartbeat,
                   heartbeatFallbacks, fallbacks, flushes, tails, events>>
-----------------------------------------------------------------------------
(* Timers.  One that fires while its answer is on the way counts as a fault. *)

OnTheWay(ref) ==
    ref # 0 /\ conn # 0 /\ ready[conn] \in {"connecting", "open"}
        /\ ref \in Refs(up[conn]) \cup Refs(down[conn]) \cup Refs(sendBuffer)
Late(ref) == IF OnTheWay(ref) THEN Counted ELSE UNCHANGED events

JoinTimeout(c) ==
    /\ Event
    /\ chan[c].timer = "running"
    /\ Late(chan[c].joinRef)
    /\ chan' = [chan EXCEPT ![c] = JoinTimedOut(@)]
    /\ UNCHANGED <<created, push, netVars, timerVars, tails>>

PushTimeout(p) ==
    /\ Event
    /\ push[p] \in {"buffered", "sent"}
    /\ Late(p)
    /\ push' = [push EXCEPT ![p] = "timedOut"]
    /\ UNCHANGED <<chan, created, netVars, timerVars, tails>>

\* _rejoinUntilConnected: the timer is set again before anything else.  A channel that the
\* socket has dropped gets no answer and would rejoin for ever: this counts as a fault too.
RejoinTimer(c) ==
    /\ Event
    /\ chan[c].rejoin /\ chan[c].state # "leaving" /\ Connected
    /\ CASE ~chan[c].routed -> Counted
         [] chan[c].state = "joining" -> Late(chan[c].joinRef)
         [] OTHER -> UNCHANGED events
    /\ Rejoin(c)
    /\ UNCHANGED <<created, push, conn, ready, connState, manual, down, joined, timerVars, tails>>

\* The reconnectTimer fires; its callback connects after 10 ms, or, when the auth takes its
\* time, in a step of its own.
ReconnectTimer ==
    /\ Event
    /\ reconnect /\ reconnect' = FALSE
    /\ \/ Connect /\ UNCHANGED <<reconnecting, events>>
       \/ /\ Counted /\ reconnecting' = reconnecting + 1
          /\ UNCHANGED <<conn, ready, connState, manual, pendingHeartbeat>>
    /\ UNCHANGED <<chan, created, push, up, down, joined, sendBuffer, heartbeat,
                   heartbeatFallbacks, fallbacks, flushes, tails>>

Reconnect ==
    /\ Event
    /\ reconnecting > 0 /\ reconnecting' = reconnecting - 1
    /\ Connect
    /\ UNCHANGED <<chan, created, push, up, down, joined, sendBuffer, reconnect, heartbeat,
                   heartbeatFallbacks, fallbacks, flushes, tails, events>>

\* sendHeartbeat, with no answer to the last one outstanding.
SendHeartbeat ==
    /\ Event
    /\ heartbeat /\ Connected /\ pendingHeartbeat = "none"
    /\ pendingHeartbeat' = "this"
    /\ UNCHANGED <<chan, created, push, netVars, reconnect, reconnecting, heartbeat,
                   heartbeatFallbacks, fallbacks, flushes, tails, events>>

\* sendHeartbeat, with the last one unanswered: the connection is closed.  No answer comes
\* to a heartbeat of an earlier WebSocket, and its reference is still pending.
HeartbeatTimeout ==
    /\ Event
    /\ heartbeat /\ Connected /\ pendingHeartbeat # "none"
    /\ IF ready[conn] = "open" /\ pendingHeartbeat = "this" THEN Counted ELSE UNCHANGED events
    /\ pendingHeartbeat' = "none"
    /\ manual' = FALSE
    /\ ready' = [ready EXCEPT ![conn] = "closing"]
    /\ heartbeatFallbacks' = heartbeatFallbacks + 1
    /\ UNCHANGED <<chan, created, push, conn, connState, up, down, joined, sendBuffer, reconnect,
                   reconnecting, heartbeat, fallbacks, flushes, tails>>

\* Its timeout of 100 ms.
HeartbeatFallback ==
    /\ Event
    /\ heartbeatFallbacks > 0 /\ heartbeatFallbacks' = heartbeatFallbacks - 1
    /\ reconnect' = (reconnect \/ ~Connected)
    /\ UNCHANGED <<chan, created, push, netVars, reconnecting, heartbeat, pendingHeartbeat,
                   fallbacks, flushes, tails, events>>

\* The timeout of disconnect.
DisconnectFallback ==
    /\ Event
    /\ fallbacks > 0 /\ fallbacks' = fallbacks - 1
    /\ connState' = "disconnected"
    /\ UNCHANGED <<chan, created, push, conn, ready, manual, up, down, joined, sendBuffer,
                   reconnect, reconnecting, heartbeat, pendingHeartbeat, heartbeatFallbacks,
                   flushes, tails, events>>
-----------------------------------------------------------------------------
Application ==
    \/ CallConnect \/ CallDisconnect \/ CreateChannel \/ RemoveAllChannels
    \/ \E c \in Channel : Subscribe(c) \/ RemoveChannel(c)
    \/ \E p \in Push : SendPush(p)

Network ==
    \E k \in Conn :
        \/ OnConnOpen(k) \/ OnConnError(k) \/ OnConnClose(k) \/ ConnDies(k)
        \/ Serve(k) \/ ServerDrops(k)
        \/ JoinAnswered(k) \/ PushAnswered(k) \/ ServerDropArrives(k)

Timers ==
    \/ \E c \in Channel : JoinTimeout(c) \/ RejoinTimer(c)
    \/ \E p \in Push : PushTimeout(p)
    \/ ReconnectTimer \/ Reconnect \/ SendHeartbeat \/ HeartbeatAnswered \/ HeartbeatTimeout
    \/ HeartbeatFallback \/ DisconnectFallback

Next == Application \/ RunTail \/ Flush \/ Network \/ Timers

Spec == Init /\ [][Next]_vars

(* Timers fire, the network delivers what it does not lose and the server answers; the
   application calls when it likes, and failures are never due. *)
Fairness ==
    /\ WF_vars(RunTail) /\ WF_vars(Flush)
    /\ \A k \in Conn :
          /\ WF_vars(OnConnOpen(k) \/ (ready[k] # "open" /\ OnConnClose(k)))
          /\ WF_vars(Serve(k))
          /\ WF_vars(JoinAnswered(k) \/ PushAnswered(k) \/ ServerDropArrives(k))
    /\ \A c \in Channel : WF_vars(JoinTimeout(c)) /\ WF_vars(RejoinTimer(c))
    /\ WF_vars(ReconnectTimer \/ Reconnect)
    /\ WF_vars(SendHeartbeat \/ HeartbeatAnswered \/ HeartbeatTimeout)
    /\ WF_vars(HeartbeatFallback \/ DisconnectFallback)

FairSpec == Spec /\ Fairness
-----------------------------------------------------------------------------
TypeOK ==
    /\ chan \in [Channel -> ChannelRecord]
    /\ \A c \in Channel : Len(chan[c].pushBuffer) <= MaxBuffer
    /\ created \subseteq Channel
    /\ push \in [Push -> PushState]
    /\ conn \in Conn \cup {0} /\ ready \in [Conn -> ReadyState]
    /\ connState \in {"disconnected", "connecting", "connected", "disconnecting"}
    /\ manual \in BOOLEAN
    /\ up \in [Conn -> Seq(Message)] /\ down \in [Conn -> Seq(Reply)]
    /\ joined \in [Conn -> SUBSET (Ref \cup {0})]
    /\ sendBuffer \in Seq(Message)
    /\ reconnect \in BOOLEAN /\ reconnecting \in Nat
    /\ heartbeat \in BOOLEAN /\ pendingHeartbeat \in {"none", "this", "earlier"}
    /\ heartbeatFallbacks \in Nat /\ fallbacks \in Nat /\ flushes \in Nat
    /\ tails \in Seq({"one", "all"})
    /\ events \in 0..MaxEvents

\* A channel of the socket that has errored tries again, and one that tries is neither
\* joined, closed nor left, unless it was torn down before.
RejoinArmed ==
    \A c \in Routed :
        /\ chan[c].state = "errored" => chan[c].rejoin
        /\ chan[c].rejoin => chan[c].state \in {"joining", "errored"} \/ ~chan[c].intact

\* An end of c's membership that the client will learn of.
EndOnTheWay(c) ==
    \/ \E i \in DOMAIN down[conn] :
          /\ down[conn][i].event \in {"phx_close", "phx_error"}
          /\ down[conn][i].ref = chan[c].joinRef
    \/ \E k \in Conn : ready[k] \in {"failed", "closing", "dead"}

\* A channel of the socket that is joined is joined on the server, by the same join and
\* on the current connection, unless news of the end is on its way.
JoinedAgrees ==
    \A c \in Routed :
        chan[c].state = "joined" =>
            conn # 0 /\ (joined[conn] = {chan[c].joinRef} \/ EndOnTheWay(c))

\* What became of a push does not change: no late answer, and no sending of a push that
\* its caller was told is lost.
PushSettled ==
    [][\A p \in Push :
          push[p] \in {"ok", "error", "timedOut", "dropped"} => push'[p] = push[p]]_vars

\* A WebSocket that was replaced before it opened; its events count as those of the current.
Orphaned == \E k \in Conn : k # conn /\ ready[k] # "none"

\* Every connection that is lost, or dead without telling, is replaced in the end; but for
\* one whose heartbeat was stopped by the late onclose of an orphan, or whose reconnection
\* was by its late open.
Unwatched == (Connected /\ ~heartbeat) \/ Orphaned
Reconnects ==
    conn # 0 /\ ready[conn] # "open" ~> (conn # 0 /\ ready[conn] = "open") \/ manual \/ Unwatched

\* A channel in the socket that waits to be joined is joined in the end, unless the
\* application leaves or disconnects, or the channel leaves itself.
Waiting == \E c \in Routed : chan[c].intact /\ chan[c].state \in {"joining", "errored"}
Joins == Waiting ~> ~Waiting \/ manual \/ Unwatched
=============================================================================
