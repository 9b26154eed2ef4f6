-------------------------- MODULE RealtimeChannel --------------------------
(***************************************************************************)
(* What the handlers of a RealtimeChannel (realtime-js) do to the channel: *)
(* operators from the record of a channel to its record afterwards, with   *)
(* the join Push and the rejoin Timer that belong to it.  RealtimeClient   *)
(* composes them with the socket.                                          *)
(*                                                                         *)
(* The record of a channel:                                                *)
(*   state       CHANNEL_STATES                                            *)
(*   routed      the socket's channels include it, so that it gets messages*)
(*   intact      its own bindings for phx_close, phx_error and phx_reply   *)
(*               exist: teardown drops them, nothing puts them back        *)
(*   joinedOnce  subscribe was called                                      *)
(*   joinRef     joinPush.ref, 0 for the empty string                      *)
(*   hears       joinPush has its binding for the reply to joinRef         *)
(*   timer       joinPush.timeoutTimer: "off", "running", or "spent": the  *)
(*               timeout fired without effect and the field is still set   *)
(*   rejoin      rejoinTimer is running                                    *)
(*   pushBuffer  the pushes waiting for the channel to be joined           *)
(***************************************************************************)
EXTENDS Naturals, Sequences

CONSTANTS
    Push,                   \* messages the application sends on channels
    Ref,                    \* message references
    MaxBuffer               \* MAX_PUSH_BUFFER_SIZE

ASSUME ChannelAssumption ==
    /\ Ref \subseteq Nat \ {0}
    /\ MaxBuffer \in Nat \ {0}

ChannelState == {"closed", "errored", "joined", "joining", "leaving"}

ChannelRecord ==
    [state : ChannelState, routed : BOOLEAN, intact : BOOLEAN, joinedOnce : BOOLEAN,
     joinRef : Ref \cup {0}, hears : BOOLEAN, timer : {"off", "running", "spent"},
     rejoin : BOOLEAN, pushBuffer : Seq(Push)]

\* The constructor.
NewChannel ==
    [state |-> "closed", routed |-> TRUE, intact |-> TRUE, joinedOnce |-> FALSE,
     joinRef |-> 0, hears |-> FALSE, timer |-> "off", rejoin |-> FALSE, pushBuffer |-> <<>>]
-----------------------------------------------------------------------------
\* Variant to refute: an error does not start the rejoin timer.
ErroredForGood(ch) ==
    IF ch.state \in {"leaving", "closed"} \/ ~ch.intact
      THEN ch
      ELSE [ch EXCEPT !.state = "errored"]

\* phx_error, from the server or because the connection is gone.
Errored(ch) ==
    IF ch.state \in {"leaving", "closed"} \/ ~ch.intact
      THEN ch
      ELSE [ch EXCEPT !.state = "errored", !.rejoin = TRUE]

\* phx_close.  The socket removes the channel by its topic: see Removed.
Closed(ch) == IF ch.intact THEN [ch EXCEPT !.state = "closed", !.rejoin = FALSE] ELSE ch

\* _trigger ignores closes and errors of another join; the empty string is no ref.
Concerns(ref, ch) == ref = 0 \/ ref = ch.joinRef

\* joinPush.destroy.
JoinDestroyed(ch) == [ch EXCEPT !.hears = FALSE, !.timer = "off"]

\* unsubscribe.  Leaving, the channel cannot push, so the leave is taken to be
\* acknowledged at once, and the channel closes; without bindings it stays leaving.
Left(ch) == Closed([JoinDestroyed(ch) EXCEPT !.state = "leaving"])

\* teardown.
TornDown(ch) ==
    [JoinDestroyed(ch) EXCEPT !.state = "closed", !.intact = FALSE, !.rejoin = FALSE,
                              !.pushBuffer = <<>>]

\* Variant to refute: a resend starts a timeout that does not bind the reply.
ResentDeaf(ch, ref) == [ch EXCEPT !.joinRef = ref, !.timer = "running"]

\* joinPush.resend, up to what it sends.  A timeout that still runs is not started
\* again, and then the push has neither a ref nor a binding for the reply.
Resent(ch, ref) ==
    IF ch.timer = "off"
      THEN [ch EXCEPT !.joinRef = ref, !.hears = TRUE, !.timer = "running"]
      ELSE [ch EXCEPT !.joinRef = 0, !.hears = FALSE]

\* The timeout of joinPush fires.
JoinTimedOut(ch) ==
    IF ~ch.hears THEN [ch EXCEPT !.timer = "spent"]
    ELSE IF ch.state # "joining" THEN JoinDestroyed(ch)
    ELSE [JoinDestroyed(ch) EXCEPT !.state = "errored", !.rejoin = TRUE]

\* joinPush gets "ok"; the buffer is sent, see Deliver.
JoinOk(ch) ==
    [JoinDestroyed(ch) EXCEPT !.state = "joined", !.rejoin = FALSE, !.pushBuffer = <<>>]

\* joinPush gets "error": the hook of the constructor, then the one of subscribe.
JoinError(ch) == [Errored(JoinDestroyed(ch)) EXCEPT !.state = "errored"]

\* The hook of subscribe for "ok" finds other postgres_changes than it asked for: it
\* leaves, and the channel ends as errored with no rejoin timer.
Mismatched(ch) == [Left(JoinOk(ch)) EXCEPT !.state = "errored"]

\* Variant to refute: the limit is not enforced.
BufferedWithoutLimit(ch, p) == Append(ch.pushBuffer, p)

\* _addToPushBuffer: the oldest push makes room.
Buffered(ch, p) ==
    IF Len(ch.pushBuffer) < MaxBuffer
      THEN Append(ch.pushBuffer, p)
      ELSE Tail(Append(ch.pushBuffer, p))
=============================================================================
