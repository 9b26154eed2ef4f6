------------------------ MODULE RealtimeClientProofs ------------------------
(***************************************************************************)
(* Proofs about RealtimeClient, for any channels of a topic, pushes,       *)
(* WebSockets and bounds:                                                  *)
(*   - no channel of the socket is left errored without a timer that       *)
(*     rejoins it, and what a caller was told of a push stands (Inv);      *)
(*   - a channel that is joined is joined on the server, or news of the    *)
(*     end is on its way (Inv and Joint);                                  *)
(*   - the variables have their types (Inv, Joint and Clocks), those of    *)
(*     RealtimeAuth too, as MCRealtime composes the two.                   *)
(***************************************************************************)
EXTENDS MCRealtime, SequenceTheorems, FiniteSetTheorems, WellFoundedInduction, TLAPS

\* The record of a channel.
Shape(ch) ==
    /\ DOMAIN ch = {"state", "routed", "intact", "joinedOnce", "joinRef", "hears", "timer",
                    "rejoin", "pushBuffer"}
    /\ ch.state \in ChannelState
    /\ ch.routed \in BOOLEAN /\ ch.intact \in BOOLEAN /\ ch.joinedOnce \in BOOLEAN
    /\ ch.joinRef \in Ref \cup {0}
    /\ ch.hears \in BOOLEAN /\ ch.timer \in {"off", "running", "spent"} /\ ch.rejoin \in BOOLEAN
    /\ ch.pushBuffer \in Seq(Push)

\* A channel of the socket that has errored tries again; one that tries or awaits the answer
\* to its join is joining or errored, unless it was torn down.
Armed(ch) ==
    ch.routed =>
        /\ ch.state = "errored" => ch.rejoin
        /\ ch.rejoin => ch.state \in {"joining", "errored"} \/ ~ch.intact
        /\ ch.hears /\ ch.intact => ch.state \in {"joining", "errored"}

Sound(ch) == Shape(ch) /\ Armed(ch)

\* What every handler but the one that buffers does to the buffer: keep it or clear it.
Kept(old, new) == Sound(new) /\ new.pushBuffer \in {old.pushBuffer, <<>>}

Channels(chans) ==
    chans = [c \in Channel |-> chans[c]] /\ \A c \in Channel : Sound(chans[c])

AllKept(old, new) ==
    new = [c \in Channel |-> new[c]] /\ \A c \in Channel : Kept(old[c], new[c])

\* A buffer holds pushes of its own channel, and none that was sent, answered or dropped.
Buffers ==
    \A c \in Channel : \A i \in 1..Len(chan[c].pushBuffer) :
        /\ Owner[chan[c].pushBuffer[i]] = c
        /\ push[chan[c].pushBuffer[i]] \in {"buffered", "timedOut"}

Inv ==
    /\ created \subseteq Channel
    /\ push \in [Push -> PushState]
    /\ Channels(chan)
    /\ Buffers

\* The step of PushSettled.
Settled ==
    \A p \in Push : push[p] \in {"ok", "error", "timedOut", "dropped"} => push'[p] = push[p]
-----------------------------------------------------------------------------
(* What the handlers of RealtimeChannel do to one channel. *)

\* The constructor.
LEMMA NewSound == Sound(NewChannel) /\ Sound([NewChannel EXCEPT !.routed = FALSE])
BY SMT DEF NewChannel, Sound, Shape, Armed, ChannelState

\* A channel that leaves the socket is sound whatever its state.
LEMMA UnroutedKept ==
    ASSUME NEW ch, Shape(ch)
    PROVE  Kept(ch, [ch EXCEPT !.routed = FALSE])
BY SMT DEF Kept, Sound, Shape, Armed

\* A handler that sets the state to errored.
LEMMA ErroredState ==
    ASSUME NEW ch, Shape(ch)
    PROVE  /\ Shape([ch EXCEPT !.state = "errored"])
           /\ [ch EXCEPT !.state = "errored"].pushBuffer = ch.pushBuffer
           /\ [ch EXCEPT !.state = "errored"].rejoin = ch.rejoin
           /\ [ch EXCEPT !.state = "errored"].state = "errored"
BY SMT DEF Shape, ChannelState

\* One that starts the rejoin timer with it.
LEMMA RearmedKept ==
    ASSUME NEW ch, Sound(ch)
    PROVE  /\ Kept(ch, [ch EXCEPT !.state = "errored", !.rejoin = TRUE])
           /\ [ch EXCEPT !.state = "errored", !.rejoin = TRUE].rejoin
BY SMT DEF Kept, Sound, Shape, Armed, ChannelState

\* phx_error.
LEMMA ErroredKept ==
    ASSUME NEW ch, Sound(ch)
    PROVE  Kept(ch, Errored(ch))
BY RearmedKept DEF Errored, Kept

\* joinPush.destroy.
LEMMA JoinDestroyedKept ==
    ASSUME NEW ch, Sound(ch)
    PROVE  /\ Kept(ch, JoinDestroyed(ch))
           /\ JoinDestroyed(ch).state = ch.state /\ JoinDestroyed(ch).intact = ch.intact
BY SMT DEF JoinDestroyed, Kept, Sound, Shape, Armed, ChannelState

\* phx_close, but for the removal that follows.
LEMMA ClosedShape ==
    ASSUME NEW ch, Shape(ch)
    PROVE  /\ Shape(Closed(ch)) /\ Closed(ch).pushBuffer = ch.pushBuffer
           /\ ch.intact => Closed(ch).state = "closed" /\ ~Closed(ch).rejoin
           /\ ~ch.intact => Closed(ch) = ch
           /\ Closed(ch).routed = ch.routed /\ Closed(ch).intact = ch.intact
           /\ Closed(ch).hears = ch.hears
<1> DEFINE closed == [ch EXCEPT !.state = "closed", !.rejoin = FALSE]
<1>1. /\ Shape(closed) /\ closed.pushBuffer = ch.pushBuffer
      /\ closed.state = "closed" /\ ~closed.rejoin /\ closed.routed = ch.routed
      /\ closed.intact = ch.intact /\ closed.hears = ch.hears
  BY SMT DEF Shape, ChannelState
<1>2. (ch.intact => Closed(ch) = closed) /\ (~ch.intact => Closed(ch) = ch) BY DEF Closed
<1> HIDE DEF closed
<1> QED BY <1>1, <1>2

\* _addToPushBuffer.
LEMMA BufferSound ==
    ASSUME NEW ch, Sound(ch), NEW buffer \in Seq(Push)
    PROVE  /\ Sound([ch EXCEPT !.pushBuffer = buffer])
           /\ [ch EXCEPT !.pushBuffer = buffer].pushBuffer = buffer
BY SMT DEF Sound, Shape, Armed

\* unsubscribe.
LEMMA LeftKept ==
    ASSUME NEW ch, Sound(ch)
    PROVE  Kept(ch, Left(ch))
<1> DEFINE leaving == [JoinDestroyed(ch) EXCEPT !.state = "leaving"]
<1>1. /\ Shape(leaving) /\ ~leaving.hears /\ leaving.state = "leaving"
      /\ leaving.pushBuffer = ch.pushBuffer
  BY SMT DEF JoinDestroyed, Sound, Shape, ChannelState
<1>2. Left(ch) = Closed(leaving) BY DEF Left
<1> HIDE DEF leaving
<1>3. Kept(leaving, Closed(leaving))
  BY <1>1, ClosedShape DEF Kept, Sound, Armed
<1> QED BY <1>1, <1>2, <1>3 DEF Kept

\* teardown.
LEMMA TornDownKept ==
    ASSUME NEW ch, Sound(ch)
    PROVE  Kept(ch, TornDown(ch)) /\ TornDown(ch).pushBuffer = <<>>
BY SMT DEF TornDown, JoinDestroyed, Kept, Sound, Shape, Armed, ChannelState

\* _rejoin, once it has left the open channel of its topic.
LEMMA ResentKept ==
    ASSUME NEW ch, NEW ref \in Ref, Sound(ch)
    PROVE  Kept(ch, Resent([ch EXCEPT !.state = "joining", !.joinedOnce = TRUE], ref))
<1> DEFINE joining == [ch EXCEPT !.state = "joining", !.joinedOnce = TRUE]
<1>1. Sound(joining) /\ joining.state = "joining" /\ joining.pushBuffer = ch.pushBuffer
  BY SMT DEF Sound, Shape, Armed, ChannelState
<1> HIDE DEF joining
<1>2. Kept(joining, Resent(joining, ref))
  BY <1>1, SMT DEF Resent, Kept, Sound, Shape, Armed, ChannelState
<1> QED BY <1>1, <1>2 DEF Kept, joining

\* The timeout of the join.
LEMMA JoinTimedOutKept ==
    ASSUME NEW ch, Sound(ch)
    PROVE  Kept(ch, JoinTimedOut(ch))
<1> DEFINE spent == [ch EXCEPT !.timer = "spent"]
           errored == [JoinDestroyed(ch) EXCEPT !.state = "errored", !.rejoin = TRUE]
<1>1. Kept(ch, spent) BY SMT DEF Kept, Sound, Shape, Armed, ChannelState
<1>2. Kept(ch, JoinDestroyed(ch)) BY JoinDestroyedKept
<1>3. Kept(ch, errored) BY <1>2, RearmedKept DEF Kept
<1>4. JoinTimedOut(ch) \in {spent, JoinDestroyed(ch), errored} BY DEF JoinTimedOut
<1> HIDE DEF spent, errored
<1> QED BY <1>1, <1>2, <1>3, <1>4

\* The answer "ok" to the join.
LEMMA JoinOkKept ==
    ASSUME NEW ch, Sound(ch)
    PROVE  Kept(ch, JoinOk(ch)) /\ JoinOk(ch).pushBuffer = <<>>
BY SMT DEF JoinOk, JoinDestroyed, Kept, Sound, Shape, Armed, ChannelState

\* The answer "error" to a join that was awaited: the rejoin timer is started.
LEMMA JoinErrorKept ==
    ASSUME NEW ch, Sound(ch), ch.routed, ch.intact, ch.hears
    PROVE  Kept(ch, JoinError(ch))
<1> DEFINE errored == [JoinDestroyed(ch) EXCEPT !.state = "errored", !.rejoin = TRUE]
<1>1. ch.state \in {"joining", "errored"} BY DEF Sound, Armed
<1>2. /\ Kept(ch, JoinDestroyed(ch))
      /\ JoinDestroyed(ch).state = ch.state /\ JoinDestroyed(ch).intact = ch.intact
  BY JoinDestroyedKept
<1>3. Errored(JoinDestroyed(ch)) = errored BY <1>1, <1>2 DEF Errored
<1>4. Kept(ch, errored) /\ errored.rejoin BY <1>2, RearmedKept DEF Kept
<1> HIDE DEF errored
<1>5. Kept(ch, [errored EXCEPT !.state = "errored"])
  BY <1>4, ErroredState DEF Kept, Sound, Armed
<1> QED BY <1>3, <1>5 DEF JoinError

\* The answer "ok" with other changes than were asked for, and the removal that follows.
LEMMA MismatchedKept ==
    ASSUME NEW ch, Sound(ch)
    PROVE  /\ Kept(ch, [Mismatched(ch) EXCEPT !.routed = FALSE])
           /\ [Mismatched(ch) EXCEPT !.routed = FALSE].pushBuffer = <<>>
<1>1. Sound(Left(JoinOk(ch))) /\ Left(JoinOk(ch)).pushBuffer = <<>>
  BY JoinOkKept, LeftKept DEF Kept
<1> DEFINE left == Left(JoinOk(ch))
<1> HIDE DEF left
<1>2. Sound(left) /\ left.pushBuffer = <<>> BY <1>1 DEF left
<1> DEFINE errored == [left EXCEPT !.state = "errored"]
<1>3. Shape(errored) /\ errored.pushBuffer = <<>> BY <1>2, ErroredState DEF Sound
<1>4. Mismatched(ch) = errored BY DEF left, Mismatched
<1> HIDE DEF errored
<1> QED BY <1>3, <1>4, UnroutedKept DEF Kept
-----------------------------------------------------------------------------
(* What they do to the channels of the socket. *)

\* One channel changes.
LEMMA OneKept ==
    ASSUME NEW chans, Channels(chans), NEW c \in Channel, NEW ch, Kept(chans[c], ch)
    PROVE  AllKept(chans, [chans EXCEPT ![c] = ch])
<1>1. \A d \in Channel : Kept(chans[d], chans[d]) BY DEF Channels, Kept
<1>2. [chans EXCEPT ![c] = ch] = [d \in Channel |-> IF d = c THEN ch ELSE chans[d]]
  BY DEF Channels
<1>3. ASSUME NEW d \in Channel PROVE Kept(chans[d], [chans EXCEPT ![c] = ch][d])
  BY <1>1, <1>2
<1>4. [chans EXCEPT ![c] = ch] = [d \in Channel |-> [chans EXCEPT ![c] = ch][d]] BY <1>2
<1> QED BY <1>3, <1>4 DEF AllKept

\* One change after another.
LEMMA KeptTransitive ==
    ASSUME NEW a, NEW b, NEW c, AllKept(a, b), AllKept(b, c)
    PROVE  AllKept(a, c)
BY DEF AllKept, Kept

LEMMA KeptChannels ==
    ASSUME NEW a, NEW b, AllKept(a, b)
    PROVE  Channels(b)
BY DEF AllKept, Kept, Channels

\* The removal of all channels of the topic.
LEMMA AllUnroutedKept ==
    ASSUME NEW chans, Channels(chans)
    PROVE  AllKept(chans, [d \in Channel |-> [chans[d] EXCEPT !.routed = FALSE]])
<1>1. \A d \in Channel : Kept(chans[d], [chans[d] EXCEPT !.routed = FALSE])
  BY UnroutedKept DEF Channels, Sound
<1> QED BY <1>1 DEF AllKept

\* unsubscribe with the removal that follows.
LEMMA UnsubscribedKept ==
    ASSUME NEW chans, Channels(chans), NEW c \in Channel
    PROVE  AllKept(chans, Unsubscribed(chans, c))
<1> DEFINE left == [chans EXCEPT ![c] = Left(chans[c])]
<1>1. AllKept(chans, left) BY LeftKept, OneKept DEF Channels
<1>2. Channels(left) BY <1>1, KeptChannels
<1>3. Unsubscribed(chans, c) = Removed(left, c) BY DEF Unsubscribed
<1> HIDE DEF left
<1>4. Removed(left, c) = left \/ AllKept(left, Removed(left, c))
  BY <1>2, AllUnroutedKept DEF Removed
<1> QED BY <1>1, <1>3, <1>4, KeptTransitive

\* phx_close with the removal that follows.
LEMMA ClosedKept ==
    ASSUME NEW chans, Channels(chans), NEW c \in Channel, chans[c].intact
    PROVE  AllKept(chans, Removed([chans EXCEPT ![c] = Closed(chans[c])], c))
<1> DEFINE closed == [chans EXCEPT ![c] = Closed(chans[c])]
<1>1. closed = [d \in Channel |-> IF d = c THEN Closed(chans[c]) ELSE chans[d]]
  BY DEF Channels
<1>2. \A d \in Channel : Shape(closed[d]) /\ closed[d].pushBuffer = chans[d].pushBuffer
  BY <1>1, ClosedShape DEF Channels, Sound
<1>3. closed[c].state = "closed"
  BY <1>1, ClosedShape DEF Channels, Sound
<1> HIDE DEF closed
<1>4. Removed(closed, c) = [d \in Channel |-> [closed[d] EXCEPT !.routed = FALSE]]
  BY <1>3 DEF Removed
<1>5. \A d \in Channel : Kept(chans[d], [closed[d] EXCEPT !.routed = FALSE])
  BY <1>2, UnroutedKept DEF Kept
<1>6. AllKept(chans, Removed(closed, c)) BY <1>4, <1>5 DEF AllKept
<1> QED BY <1>6 DEF closed

\* _leaveOpenTopic.
LEMMA LeaveOpenTopicKept ==
    ASSUME Inv
    PROVE  AllKept(chan, AfterLeaveOpenTopic)
<1>1. CASE OpenOfTopic = {}
  BY <1>1 DEF AfterLeaveOpenTopic, Inv, Channels, AllKept, Kept
<1>2. CASE OpenOfTopic # {}
  <2> DEFINE d == CHOOSE d \in OpenOfTopic : TRUE
  <2>1. d \in Channel BY <1>2 DEF OpenOfTopic, Routed, Inv
  <2>2. AfterLeaveOpenTopic = Unsubscribed(chan, d) BY <1>2 DEF AfterLeaveOpenTopic
  <2> HIDE DEF d
  <2> QED BY <2>1, <2>2, UnsubscribedKept DEF Inv
<1> QED BY <1>1, <1>2

\* _makeRef, as long as one is left.
LEMMA NewRefIsRef ==
    ASSUME RefLeft
    PROVE  NewRef \in Ref /\ NewRef \notin UsedRefs
BY DEF RefLeft, NewRef

\* _rejoin.
LEMMA RejoinKept ==
    ASSUME Inv, NEW c \in Channel, Rejoin(c)
    PROVE  AllKept(chan, chan')
<1> DEFINE after == AfterLeaveOpenTopic
           ch == Resent([after[c] EXCEPT !.state = "joining", !.joinedOnce = TRUE], NewRef)
<1>1. AllKept(chan, after) BY LeaveOpenTopicKept
<1>2. Channels(after) BY <1>1, KeptChannels
<1>3. Sound(after[c]) BY <1>2 DEF Channels
<1>4. Kept(after[c], ch) BY <1>3, ResentKept, NewRefIsRef DEF Rejoin
<1>5. chan' = [after EXCEPT ![c] = ch] BY DEF Rejoin
<1> HIDE DEF after, ch
<1>6. AllKept(after, [after EXCEPT ![c] = ch]) BY <1>2, <1>4, OneKept
<1> QED BY <1>1, <1>5, <1>6, KeptTransitive

\* An error of the connection.
LEMMA ChannelsErroredKept ==
    ASSUME Inv
    PROVE  AllKept(chan, ChannelsErrored)
<1>1. \A c \in Channel : Kept(chan[c], IF c \in Routed THEN Errored(chan[c]) ELSE chan[c])
  BY ErroredKept DEF Inv, Channels, Kept
<1> QED BY <1>1 DEF ChannelsErrored, AllKept
-----------------------------------------------------------------------------
(* The steps. *)

\* A step that keeps the channels and what became of the pushes keeps the invariant.
LEMMA ChannelsStep ==
    ASSUME Inv, AllKept(chan, chan'), UNCHANGED <<created, push>>
    PROVE  Inv' /\ Settled
<1>1. Channels(chan)' BY KeptChannels
<1>2. Buffers'
  <2> SUFFICES ASSUME NEW c \in Channel, NEW i \in 1..Len(chan'[c].pushBuffer)
               PROVE  /\ Owner[chan'[c].pushBuffer[i]] = c
                      /\ push[chan'[c].pushBuffer[i]] \in {"buffered", "timedOut"}
    BY DEF Buffers
  <2>1. chan'[c].pushBuffer \in {chan[c].pushBuffer, <<>>} BY DEF AllKept, Kept
  <2>2. chan'[c].pushBuffer # <<>> BY SMT
  <2> QED BY <2>1, <2>2 DEF Inv, Buffers
<1> QED BY <1>1, <1>2 DEF Inv, Settled

\* So does one that changes neither.
LEMMA OtherStep ==
    ASSUME Inv, UNCHANGED <<chan, created, push>>
    PROVE  Inv' /\ Settled
BY DEF Inv, Settled, Buffers, Channels

\* disconnect, of channels that may have been dropped from the socket before.
LEMMA DisconnectStep ==
    ASSUME Inv, NEW chans, AllKept(chan, chans),
           \A c \in Channel : chans[c].pushBuffer = chan[c].pushBuffer,
           Disconnect(chans), UNCHANGED created, ClientAssumption
    PROVE  Inv' /\ Settled
<1>1. CASE chan' = chans /\ UNCHANGED push
  BY <1>1, ChannelsStep
<1>2. CASE /\ chan' = [c \in Channel |-> IF chans[c].routed THEN TornDown(chans[c]) ELSE chans[c]]
           /\ DestroyPushes(chans)
  <2>1. \A c \in Channel : Sound(chans[c]) BY DEF AllKept, Kept
  <2>2. ASSUME NEW c \in Channel, chans[c].routed
        PROVE  Sound(chan'[c]) /\ chan'[c].pushBuffer = <<>>
    BY <1>2, <2>1, <2>2, TornDownKept DEF Kept
  <2>3. ASSUME NEW c \in Channel, ~chans[c].routed
        PROVE  Sound(chan'[c]) /\ chan'[c].pushBuffer = chan[c].pushBuffer
    BY <1>2, <2>1, <2>3
  <2>4. chan' = [c \in Channel |-> chan'[c]] BY <1>2
  <2>5. \A c \in Channel : Sound(chan'[c]) BY <2>2, <2>3
  <2>6. Channels(chan)' BY <2>4, <2>5 DEF Channels
  <2>7. /\ push' \in [Push -> PushState]
        /\ \A p \in Push :
              push'[p] # push[p] =>
                 push[p] \in {"buffered", "sent"} /\ chans[Owner[p]].routed
    BY <1>2 DEF DestroyPushes, Inv, PushState
  <2>8. Buffers'
    <3> SUFFICES ASSUME NEW c \in Channel, NEW i \in 1..Len(chan'[c].pushBuffer)
                 PROVE  /\ Owner[chan'[c].pushBuffer[i]] = c
                        /\ push'[chan'[c].pushBuffer[i]] \in {"buffered", "timedOut"}
      BY DEF Buffers
    <3>1. chan'[c].pushBuffer # <<>> BY SMT
    <3>2. ~chans[c].routed BY <2>2, <3>1
    <3>3. chan'[c].pushBuffer = chan[c].pushBuffer BY <2>3, <3>2
    <3> DEFINE p == chan[c].pushBuffer[i]
    <3>4. Owner[p] = c /\ push[p] \in {"buffered", "timedOut"} BY <3>3 DEF Inv, Buffers
    <3>5. p \in Push
      <4>1. chan[c].pushBuffer \in Seq(Push) BY DEF Inv, Channels, Sound, Shape
      <4> QED BY <3>3, <4>1
    <3> HIDE DEF p
    <3>6. push'[p] = push[p] BY <2>7, <3>2, <3>4, <3>5
    <3> QED BY <3>3, <3>4, <3>6 DEF p
  <2>9. Settled BY <2>7 DEF Settled
  <2> QED BY <2>6, <2>7, <2>8, <2>9 DEF Inv
<1> QED BY <1>1, <1>2 DEF Disconnect, netVars

\* A push is sent, or buffered, where the oldest makes room.
LEMMA SendPushStep ==
    ASSUME Inv, ClientAssumption, NEW p \in Push, SendPush(p)
    PROVE  Inv' /\ Settled
<1> DEFINE c == Owner[p]
<1>1. c \in Channel BY DEF ClientAssumption
<1>2. push[p] = "new" /\ UNCHANGED created BY DEF SendPush
<1>3. CASE push' = [push EXCEPT ![p] = "sent"] /\ UNCHANGED chan
  <2>1. \A q \in Push : push'[q] # push[q] => q = p BY <1>3 DEF Inv
  <2>2. push' \in [Push -> PushState] BY <1>3 DEF Inv, PushState
  <2>3. Buffers'
    <3> SUFFICES ASSUME NEW d \in Channel, NEW i \in 1..Len(chan[d].pushBuffer)
                 PROVE  /\ Owner[chan[d].pushBuffer[i]] = d
                        /\ push'[chan[d].pushBuffer[i]] \in {"buffered", "timedOut"}
      BY <1>3 DEF Buffers
    <3>1. chan[d].pushBuffer[i] \in Push BY DEF Inv, Channels, Sound, Shape
    <3> QED BY <1>2, <2>1, <3>1 DEF Inv, Buffers
  <2> QED BY <1>2, <1>3, <2>1, <2>2, <2>3 DEF Inv, Settled
<1>4. CASE /\ chan' = [chan EXCEPT ![c].pushBuffer = Buffered(chan[c], p)]
           /\ push' = [q \in Push |->
                         IF q = p THEN "buffered"
                         ELSE IF q \in ToSet(chan[c].pushBuffer) \ ToSet(Buffered(chan[c], p))
                                 /\ push[q] = "buffered"
                         THEN "dropped" ELSE push[q]]
  <2> DEFINE old == chan[c].pushBuffer
             new == Buffered(chan[c], p)
             appended == Append(old, p)
  <2>1. old \in Seq(Push) BY <1>1 DEF Inv, Channels, Sound, Shape
  <2>2. /\ appended \in Seq(Push) /\ Len(appended) = Len(old) + 1
        /\ \A i \in 1..Len(old) : appended[i] = old[i]
        /\ appended[Len(old) + 1] = p
    BY <2>1, AppendProperties
  <2>3. new \in {appended, Tail(appended)} BY DEF Buffered
  <2> HIDE DEF old, new, appended
  <2>4. /\ new \in Seq(Push)
        /\ \A i \in 1..Len(new) : new[i] = p \/ \E j \in 1..Len(old) : new[i] = old[j]
    <3>1. CASE new = appended
      BY <2>1, <2>2, <3>1, SMT
    <3>2. CASE new = Tail(appended)
      <4>1. appended # <<>> BY <2>1, <2>2, SMT
      <4>2. /\ new \in Seq(Push) /\ Len(new) = Len(old)
            /\ \A i \in 1..Len(new) : new[i] = appended[i + 1]
        BY <2>1, <2>2, <3>2, <4>1, HeadTailProperties, SMT
      <4> QED BY <2>1, <2>2, <4>2, SMT
    <3> QED BY <2>3, <3>1, <3>2
  <2>5. chan' = [chan EXCEPT ![c] = [chan[c] EXCEPT !.pushBuffer = new]]
    BY <1>4 DEF new
  <2>6. /\ chan' = [d \in Channel |-> chan'[d]]
        /\ \A d \in Channel \ {c} : chan'[d] = chan[d]
        /\ chan'[c] = [chan[c] EXCEPT !.pushBuffer = new]
    BY <1>1, <2>5 DEF Inv, Channels
  <2>7. Sound(chan'[c]) /\ chan'[c].pushBuffer = new
    BY <1>1, <2>4, <2>6, BufferSound DEF Inv, Channels
  <2>8. Channels(chan)' BY <2>6, <2>7 DEF Inv, Channels
  <2>9. \A q \in Push :
           push'[q] # push[q] =>
              \/ q = p
              \/ push[q] = "buffered" /\ q \in ToSet(old) /\ q \notin ToSet(new)
    BY <1>4 DEF old, new
  <2>10. push' \in [Push -> PushState] /\ push'[p] = "buffered"
    BY <1>4 DEF Inv, PushState
  <2>11. Settled BY <1>2, <2>9 DEF Settled
  <2>12. \A q \in ToSet(old) : Owner[q] = c /\ push[q] \in {"buffered", "timedOut"}
    BY <1>1, <2>1 DEF old, ToSet, Inv, Buffers
  <2>13. Buffers'
    <3> SUFFICES ASSUME NEW d \in Channel, NEW i \in 1..Len(chan'[d].pushBuffer)
                 PROVE  /\ Owner[chan'[d].pushBuffer[i]] = d
                        /\ push'[chan'[d].pushBuffer[i]] \in {"buffered", "timedOut"}
      BY DEF Buffers
    <3> DEFINE q == chan'[d].pushBuffer[i]
    <3>1. q \in Push BY <2>8 DEF Channels, Sound, Shape
    <3>2. CASE d = c
      <4>1. q \in ToSet(new) BY <2>4, <2>7, <3>2 DEF ToSet
      <4>2. q = p \/ q \in ToSet(old) BY <2>1, <2>4, <2>7, <3>2 DEF ToSet
      <4> HIDE DEF q
      <4>3. CASE q = p
        BY <2>10, <3>2, <4>3 DEF q
      <4>4. CASE q # p /\ q \in ToSet(old)
        <5>1. push'[q] = push[q] BY <2>9, <3>1, <4>1, <4>4
        <5> QED BY <2>12, <3>2, <4>4, <5>1 DEF q
      <4> QED BY <4>2, <4>3, <4>4
    <3>3. CASE d # c
      <4>1. chan'[d] = chan[d] BY <2>6, <3>3
      <4>2. Owner[q] = d /\ push[q] \in {"buffered", "timedOut"} BY <4>1 DEF Inv, Buffers
      <4> HIDE DEF q
      <4>3. push'[q] = push[q] BY <1>2, <2>9, <2>12, <3>1, <3>3, <4>2
      <4> QED BY <4>2, <4>3 DEF q
    <3> QED BY <3>2, <3>3
  <2> QED BY <1>2, <2>8, <2>10, <2>11, <2>13 DEF Inv
<1> QED BY <1>3, <1>4 DEF SendPush

\* A push that nothing holds back gets its answer or its timeout.
LEMMA PushEnds ==
    ASSUME Inv, UNCHANGED <<chan, created>>, NEW p \in Push, NEW how \in PushState,
           push' = [push EXCEPT ![p] = how],
           push[p] = "sent" \/ (push[p] = "buffered" /\ how = "timedOut")
    PROVE  Inv' /\ Settled
<1>1. push' \in [Push -> PushState] BY DEF Inv
<1>2. \A q \in Push : push'[q] = IF q = p THEN how ELSE push[q] BY DEF Inv
<1>3. Buffers'
  <2> SUFFICES ASSUME NEW d \in Channel, NEW i \in 1..Len(chan[d].pushBuffer)
               PROVE  /\ Owner[chan[d].pushBuffer[i]] = d
                      /\ push'[chan[d].pushBuffer[i]] \in {"buffered", "timedOut"}
    BY DEF Buffers
  <2>1. chan[d].pushBuffer[i] \in Push BY DEF Inv, Channels, Sound, Shape
  <2> QED BY <1>2, <2>1 DEF Inv, Buffers
<1>4. Settled BY <1>2 DEF Settled
<1> QED BY <1>1, <1>3, <1>4 DEF Inv, Channels

\* The join of a channel is answered: its buffer is sent, but for what timed out there.
LEMMA JoinAnsweredStep ==
    ASSUME Inv, ClientAssumption, NEW k \in Conn, JoinAnswered(k)
    PROVE  Inv' /\ Settled
<1> DEFINE m == Head(down[k])
           hearing == Hearing(m.ref)
           c == CHOOSE d \in hearing : TRUE
<1>1. UNCHANGED created BY DEF JoinAnswered, Arrives
<1>2. CASE hearing = {}
  <2>1. UNCHANGED <<chan, push>> BY <1>2 DEF JoinAnswered
  <2> QED BY <1>1, <2>1, OtherStep
<1>3. CASE hearing # {}
  <2>1. c \in hearing BY <1>3
  <2>2. c \in Channel /\ chan[c].routed /\ chan[c].intact /\ chan[c].hears
    BY <2>1 DEF Hearing, Routed, Inv
  <2>3. Sound(chan[c]) BY <2>2 DEF Inv, Channels
  <2>4. CASE m.event = "error"
    <3>1. chan' = [chan EXCEPT ![c] = JoinError(chan[c])] /\ UNCHANGED push
      BY <1>3, <2>4 DEF JoinAnswered
    <3> HIDE DEF c
    <3>2. AllKept(chan, chan') BY <2>2, <2>3, <3>1, JoinErrorKept, OneKept DEF Inv
    <3> QED BY <1>1, <3>1, <3>2, ChannelsStep
  <2>5. CASE m.event # "error"
    <3>1. /\ push' = [p \in Push |->
                        IF p \in ToSet(chan[c].pushBuffer) /\ StillWanted(p)
                          THEN "sent" ELSE push[p]]
          /\ \/ chan' = [chan EXCEPT ![c] = JoinOk(chan[c])]
             \/ chan' = [d \in Channel |->
                           IF d = c THEN [Mismatched(chan[c]) EXCEPT !.routed = FALSE]
                                    ELSE [chan[d] EXCEPT !.routed = FALSE]]
      BY <1>3, <2>5 DEF JoinAnswered
    <3> HIDE DEF c
    <3>2. AllKept(chan, chan') /\ chan'[c].pushBuffer = <<>>
      <4>1. CASE chan' = [chan EXCEPT ![c] = JoinOk(chan[c])]
        BY <2>2, <2>3, <4>1, JoinOkKept, OneKept DEF Inv, Channels
      <4>2. CASE chan' = [d \in Channel |->
                           IF d = c THEN [Mismatched(chan[c]) EXCEPT !.routed = FALSE]
                                    ELSE [chan[d] EXCEPT !.routed = FALSE]]
        <5>1. \A d \in Channel : Kept(chan[d], [chan[d] EXCEPT !.routed = FALSE])
          BY UnroutedKept DEF Inv, Channels, Sound
        <5>2. /\ Kept(chan[c], [Mismatched(chan[c]) EXCEPT !.routed = FALSE])
              /\ [Mismatched(chan[c]) EXCEPT !.routed = FALSE].pushBuffer = <<>>
          BY <2>3, MismatchedKept
        <5> QED BY <2>2, <4>2, <5>1, <5>2 DEF AllKept
      <4> QED BY <3>1, <4>1, <4>2
    <3>3. Channels(chan)' BY <3>2, KeptChannels
    <3>4. push' \in [Push -> PushState] BY <3>1 DEF Inv, PushState
    <3>5. \A p \in ToSet(chan[c].pushBuffer) : Owner[p] = c /\ push[p] \in {"buffered", "timedOut"}
      <4>1. chan[c].pushBuffer \in Seq(Push) BY <2>3 DEF Sound, Shape
      <4> QED BY <2>2, <4>1 DEF Inv, Buffers, ToSet
    <3>6. \A p \in Push : push'[p] # push[p] => push[p] = "buffered" /\ Owner[p] = c
      BY <3>1, <3>5 DEF StillWanted
    <3>7. Settled BY <3>6 DEF Settled
    <3>8. Buffers'
      <4> SUFFICES ASSUME NEW d \in Channel, NEW i \in 1..Len(chan'[d].pushBuffer)
                   PROVE  /\ Owner[chan'[d].pushBuffer[i]] = d
                          /\ push'[chan'[d].pushBuffer[i]] \in {"buffered", "timedOut"}
        BY DEF Buffers
      <4> DEFINE q == chan'[d].pushBuffer[i]
      <4>1. chan'[d].pushBuffer # <<>> BY SMT
      <4>2. d # c BY <3>2, <4>1
      <4>3. chan'[d].pushBuffer = chan[d].pushBuffer BY <3>2, <4>1 DEF AllKept, Kept
      <4>4. Owner[q] = d /\ push[q] \in {"buffered", "timedOut"} BY <4>3 DEF Inv, Buffers
      <4>5. q \in Push
        <5>1. chan'[d].pushBuffer \in Seq(Push) BY <3>3 DEF Channels, Sound, Shape
        <5> QED BY <5>1
      <4> HIDE DEF q
      <4>6. push'[q] = push[q] BY <3>6, <4>2, <4>4, <4>5
      <4> QED BY <4>4, <4>6 DEF q
    <3> QED BY <1>1, <3>3, <3>4, <3>7, <3>8 DEF Inv
  <2> QED BY <2>4, <2>5
<1> QED BY <1>2, <1>3

\* channel(): a new object, with nothing in its buffer.
LEMMA CreateChannelStep ==
    ASSUME Inv, CreateChannel
    PROVE  Inv' /\ Settled
<1> DEFINE c == NextChannel
<1>1. \E d \in Channel : d \notin created BY DEF CreateChannel, Inv
<1>2. c \in Channel BY <1>1 DEF NextChannel
<1>3. /\ created' = created \cup {c} /\ UNCHANGED push
      /\ chan' = [chan EXCEPT ![c] = NewChannel]
  BY DEF CreateChannel
<1> HIDE DEF c
<1>4. NewChannel.pushBuffer = <<>> BY DEF NewChannel
<1>5. AllKept(chan, chan') BY <1>2, <1>3, <1>4, NewSound, OneKept DEF Inv, Kept
<1>6. Inv /\ UNCHANGED push => Channels(chan)' /\ Buffers' /\ Settled
  <2>1. Channels(chan)' BY <1>5, KeptChannels
  <2>2. Buffers'
    <3> SUFFICES ASSUME NEW d \in Channel, NEW i \in 1..Len(chan'[d].pushBuffer)
                 PROVE  /\ Owner[chan'[d].pushBuffer[i]] = d
                        /\ push'[chan'[d].pushBuffer[i]] \in {"buffered", "timedOut"}
      BY DEF Buffers
    <3>1. chan'[d].pushBuffer \in {chan[d].pushBuffer, <<>>} BY <1>5 DEF AllKept, Kept
    <3>2. chan'[d].pushBuffer # <<>> BY SMT
    <3> QED BY <1>3, <3>1, <3>2 DEF Inv, Buffers
  <2> QED BY <1>3, <2>1, <2>2 DEF Settled
<1> QED BY <1>2, <1>3, <1>6 DEF Inv

\* Subscribe, RemoveChannel, RemoveAllChannels: what the application asks of the channels.
LEMMA CallStep ==
    ASSUME Inv,
           \/ \E c \in Channel : Subscribe(c) \/ RemoveChannel(c)
           \/ RemoveAllChannels
    PROVE  Inv' /\ Settled
<1>1. ASSUME NEW c \in Channel, Subscribe(c) PROVE Inv' /\ Settled
  <2>1. UNCHANGED <<created, push>> BY <1>1 DEF Subscribe
  <2>2. CASE UNCHANGED chan BY <2>1, <2>2, OtherStep
  <2>3. CASE Rejoin(c) BY <2>1, <2>3, RejoinKept, ChannelsStep
  <2> QED BY <1>1, <2>2, <2>3 DEF Subscribe
<1>2. ASSUME NEW c \in Channel, RemoveChannel(c) PROVE Inv' /\ Settled
  <2>1. chan' = Unsubscribed(chan, c) /\ UNCHANGED <<created, push>>
    BY <1>2 DEF RemoveChannel
  <2> QED BY <2>1, UnsubscribedKept, ChannelsStep DEF Inv
<1>3. CASE RemoveAllChannels
  <2>1. UNCHANGED <<created, push>> BY <1>3 DEF RemoveAllChannels
  <2>2. CASE Routed = {}
    BY <1>3, <2>1, <2>2, OtherStep DEF RemoveAllChannels
  <2>3. CASE Routed # {}
    <3> DEFINE d == CHOOSE d \in Routed : TRUE
    <3>1. d \in Channel BY <2>3 DEF Routed, Inv
    <3>2. chan' = Unsubscribed(chan, d) BY <1>3, <2>3 DEF RemoveAllChannels
    <3> HIDE DEF d
    <3> QED BY <2>1, <3>1, <3>2, UnsubscribedKept, ChannelsStep DEF Inv
  <2> QED BY <2>2, <2>3
<1> QED BY <1>1, <1>2, <1>3

\* What removeChannel and removeAllChannels do after their await.
LEMMA RunTailStep ==
    ASSUME Inv, ClientAssumption, RunTail
    PROVE  Inv' /\ Settled
<1> DEFINE unrouted == [c \in Channel |-> [chan[c] EXCEPT !.routed = FALSE]]
<1>1. UNCHANGED created BY DEF RunTail
<1>2. CASE Disconnect(unrouted)
  <2>1. AllKept(chan, unrouted) BY AllUnroutedKept DEF Inv
  <2>2. \A c \in Channel : unrouted[c].pushBuffer = chan[c].pushBuffer
    BY SMT DEF Inv, Channels, Sound, Shape
  <2> HIDE DEF unrouted
  <2> QED BY <1>1, <1>2, <2>1, <2>2, DisconnectStep
<1>3. CASE Disconnect(chan)
  <2>1. AllKept(chan, chan) BY DEF Inv, Channels, AllKept, Kept
  <2> QED BY <1>1, <1>3, <2>1, DisconnectStep
<1>4. CASE UNCHANGED <<chan, push>> BY <1>1, <1>4, OtherStep
<1> QED BY <1>2, <1>3, <1>4 DEF RunTail

\* The calls of the application.
LEMMA ApplicationStep ==
    ASSUME Inv, ClientAssumption, Application
    PROVE  Inv' /\ Settled
<1>1. CASE CallConnect BY <1>1, OtherStep DEF CallConnect
<1>2. CASE CallDisconnect
  <2>1. AllKept(chan, chan) BY DEF Inv, Channels, AllKept, Kept
  <2> QED BY <1>2, <2>1, DisconnectStep DEF CallDisconnect
<1>3. CASE CreateChannel BY <1>3, CreateChannelStep
<1>4. CASE RemoveAllChannels BY <1>4, CallStep
<1>5. CASE \E c \in Channel : Subscribe(c) \/ RemoveChannel(c) BY <1>5, CallStep
<1>6. CASE \E p \in Push : SendPush(p) BY <1>6, SendPushStep
<1> QED BY <1>1, <1>2, <1>3, <1>4, <1>5, <1>6 DEF Application

\* What the server ends arrives at one channel of the topic.
LEMMA ServerDropStep ==
    ASSUME Inv, NEW k \in Conn, ServerDropArrives(k)
    PROVE  Inv' /\ Settled
<1> DEFINE concerned == {c \in Routed : Concerns(Head(down[k]).ref, chan[c])}
           c == CHOOSE d \in concerned : TRUE
<1>1. UNCHANGED <<created, push>> BY DEF ServerDropArrives, Arrives
<1>2. CASE UNCHANGED chan BY <1>1, <1>2, OtherStep
<1>3. CASE concerned # {}
  <2>1. c \in Channel BY <1>3 DEF Routed, Inv
  <2>2. \/ UNCHANGED chan
        \/ chan[c].intact /\ chan' = Removed([chan EXCEPT ![c] = Closed(chan[c])], c)
        \/ chan' = [chan EXCEPT ![c] = Errored(chan[c])]
    BY <1>3 DEF ServerDropArrives
  <2> HIDE DEF c
  <2>3. CASE chan[c].intact /\ chan' = Removed([chan EXCEPT ![c] = Closed(chan[c])], c)
    BY <1>1, <2>1, <2>3, ClosedKept, ChannelsStep DEF Inv
  <2>4. CASE chan' = [chan EXCEPT ![c] = Errored(chan[c])]
    BY <1>1, <2>1, <2>4, ErroredKept, OneKept, ChannelsStep DEF Inv, Channels
  <2> QED BY <1>2, <2>2, <2>3, <2>4
<1>4. concerned = {} => UNCHANGED chan BY DEF ServerDropArrives
<1> QED BY <1>2, <1>3, <1>4

\* The answer to a push.
LEMMA PushAnsweredStep ==
    ASSUME Inv, NEW k \in Conn, PushAnswered(k)
    PROVE  Inv' /\ Settled
<1> DEFINE m == Head(down[k])
<1>1. /\ UNCHANGED <<chan, created>> /\ m.ref \in Push /\ m.event \in PushState
      /\ \/ UNCHANGED push
         \/ push[m.ref] = "sent" /\ push' = [push EXCEPT ![m.ref] = m.event]
  BY DEF PushAnswered, Arrives, PushState
<1>2. CASE UNCHANGED push BY <1>1, <1>2, OtherStep
<1>3. CASE push' # push
  <2>1. PICK p \in Push, how \in PushState :
            push[p] = "sent" /\ push' = [push EXCEPT ![p] = how]
    BY <1>1, <1>3
  <2>2. UNCHANGED <<chan, created>> BY <1>1
  <2>3. push[p] = "sent" \/ (push[p] = "buffered" /\ how = "timedOut") BY <2>1
  <2> QED BY <2>1, <2>2, <2>3, PushEnds
<1> QED BY <1>2, <1>3

\* What the network and the server do.
LEMMA NetworkStep ==
    ASSUME Inv, ClientAssumption, Network
    PROVE  Inv' /\ Settled
<1> PICK k \in Conn :
        \/ OnConnOpen(k) \/ OnConnError(k) \/ OnConnClose(k) \/ ConnDies(k)
        \/ Serve(k) \/ ServerDrops(k)
        \/ JoinAnswered(k) \/ PushAnswered(k) \/ ServerDropArrives(k)
  BY DEF Network
<1>1. CASE OnConnOpen(k) BY <1>1, OtherStep DEF OnConnOpen
<1>2. CASE OnConnError(k) BY <1>2, ChannelsErroredKept, ChannelsStep DEF OnConnError
<1>3. CASE OnConnClose(k) BY <1>3, ChannelsErroredKept, ChannelsStep DEF OnConnClose
<1>4. CASE ConnDies(k) BY <1>4, OtherStep DEF ConnDies
<1>5. CASE Serve(k)
  <2>1. UNCHANGED <<chan, created, push>> BY <1>5 DEF Serve
  <2> QED BY <2>1, OtherStep
<1>6. CASE ServerDrops(k)
  <2>1. UNCHANGED <<chan, created, push>> BY <1>6 DEF ServerDrops
  <2> QED BY <2>1, OtherStep
<1>7. CASE JoinAnswered(k) BY <1>7, JoinAnsweredStep
<1>8. CASE PushAnswered(k) BY <1>8, PushAnsweredStep
<1>9. CASE ServerDropArrives(k) BY <1>9, ServerDropStep
<1> QED BY <1>1, <1>2, <1>3, <1>4, <1>5, <1>6, <1>7, <1>8, <1>9

\* The timers.
LEMMA TimersStep ==
    ASSUME Inv, Timers
    PROVE  Inv' /\ Settled
<1>1. ASSUME NEW c \in Channel, JoinTimeout(c) PROVE Inv' /\ Settled
  <2>1. chan' = [chan EXCEPT ![c] = JoinTimedOut(chan[c])] /\ UNCHANGED <<created, push>>
    BY <1>1 DEF JoinTimeout
  <2> QED BY <2>1, JoinTimedOutKept, OneKept, ChannelsStep DEF Inv, Channels
<1>2. ASSUME NEW c \in Channel, RejoinTimer(c) PROVE Inv' /\ Settled
  <2>1. Rejoin(c) /\ UNCHANGED <<created, push>> BY <1>2 DEF RejoinTimer
  <2> QED BY <2>1, RejoinKept, ChannelsStep
<1>3. ASSUME NEW p \in Push, PushTimeout(p) PROVE Inv' /\ Settled
  <2>1. /\ push[p] \in {"buffered", "sent"} /\ push' = [push EXCEPT ![p] = "timedOut"]
        /\ UNCHANGED <<chan, created>>
    BY <1>3 DEF PushTimeout
  <2> QED BY <2>1, PushEnds DEF PushState
<1>4. CASE ReconnectTimer BY <1>4, OtherStep DEF ReconnectTimer
<1>5. CASE Reconnect BY <1>5, OtherStep DEF Reconnect
<1>6. CASE SendHeartbeat BY <1>6, OtherStep DEF SendHeartbeat
<1>7. CASE HeartbeatAnswered BY <1>7, OtherStep DEF HeartbeatAnswered
<1>8. CASE HeartbeatTimeout BY <1>8, OtherStep DEF HeartbeatTimeout
<1>9. CASE HeartbeatFallback BY <1>9, OtherStep DEF HeartbeatFallback
<1>10. CASE DisconnectFallback BY <1>10, OtherStep DEF DisconnectFallback
<1> QED
  BY <1>1, <1>2, <1>3, <1>4, <1>5, <1>6, <1>7, <1>8, <1>9, <1>10 DEF Timers
-----------------------------------------------------------------------------
(* The first theorems. *)

LEMMA InitInv == Init => Inv
<1> SUFFICES ASSUME Init PROVE Inv OBVIOUS
<1> DEFINE fresh == [NewChannel EXCEPT !.routed = FALSE]
<1>1. Sound(fresh) BY NewSound
<1>2. fresh.pushBuffer = <<>> BY SMT DEF NewChannel
<1>3. chan = [c \in Channel |-> fresh] /\ created = {} /\ push = [p \in Push |-> "new"]
  BY DEF Init
<1> HIDE DEF fresh
<1>4. Channels(chan) BY <1>1, <1>3 DEF Channels
<1>5. \A c \in Channel : 1..Len(chan[c].pushBuffer) = {} BY <1>2, <1>3, SMT
<1> QED BY <1>3, <1>4, <1>5 DEF Inv, Buffers, PushState

LEMMA NextInv ==
    ASSUME Inv, [Next]_vars
    PROVE  Inv' /\ [Settled]_vars
<1>1. CASE Application BY <1>1, ApplicationStep, ClientAssumption
<1>2. CASE RunTail BY <1>2, RunTailStep, ClientAssumption
<1>3. CASE Flush BY <1>3, OtherStep DEF Flush
<1>4. CASE Network BY <1>4, NetworkStep, ClientAssumption
<1>5. CASE Timers BY <1>5, TimersStep
<1>6. CASE UNCHANGED vars BY <1>6, OtherStep DEF vars
<1> QED BY <1>1, <1>2, <1>3, <1>4, <1>5, <1>6 DEF Next

\* The rejoin timer runs for every channel of the socket that has errored, and for none that
\* is joined, closed or left: _trigger, the hooks of joinPush and teardown agree on it
\* (RealtimeChannel).
THEOREM ChannelsStayArmed == Spec => []RejoinArmed
<1>1. Inv => RejoinArmed
  BY DEF Inv, Channels, Sound, Armed, Routed, RejoinArmed
<1> QED BY <1>1, InitInv, NextInv, PTL DEF Spec

\* What the caller of a push was told is final, whatever joins, answers, timeouts and
\* disconnects follow: Push.receive and the push buffer agree on it.
THEOREM PushesSettle == Spec => PushSettled
<1>1. ASSUME Inv, [Next]_vars
      PROVE  [\A p \in Push :
                push[p] \in {"ok", "error", "timedOut", "dropped"} => push'[p] = push[p]]_vars
  BY <1>1, NextInv DEF Settled
<1> QED BY <1>1, InitInv, NextInv, PTL DEF Spec, PushSettled
-----------------------------------------------------------------------------
(* For JoinedAgrees: what the handlers do to the membership of one channel. *)

\* A record, as far as EXCEPT keeps it one.
Fcn(f) == f = [x \in DOMAIN f |-> f[x]]

LEMMA ExceptFcn ==
    /\ \A f, a : Fcn([f EXCEPT !.state = a]) /\ Fcn([f EXCEPT !.routed = a])
    /\ \A f, a : Fcn([f EXCEPT !.rejoin = a]) /\ Fcn([f EXCEPT !.timer = a])
    /\ \A f, a : Fcn([f EXCEPT !.pushBuffer = a]) /\ Fcn([f EXCEPT !.hears = a])
    /\ \A f, a : Fcn([f EXCEPT !.joinedOnce = a])
BY SMT DEF Fcn

LEMMA TwoExcept ==
    ASSUME NEW ch
    PROVE  /\ Fcn([ch EXCEPT !.state = "errored", !.rejoin = TRUE])
           /\ Fcn([ch EXCEPT !.state = "closed", !.rejoin = FALSE])
           /\ Fcn([ch EXCEPT !.hears = FALSE, !.timer = "off"])
           /\ \A ref : Fcn([ch EXCEPT !.joinRef = ref, !.hears = TRUE, !.timer = "running"])
           /\ \A ref : Fcn([ch EXCEPT !.joinRef = ref, !.hears = FALSE])
           /\ Fcn([ch EXCEPT !.state = "closed", !.intact = FALSE, !.rejoin = FALSE,
                               !.pushBuffer = <<>>])
           /\ Fcn([ch EXCEPT !.state = "joined", !.rejoin = FALSE, !.pushBuffer = <<>>])
<1>1. [ch EXCEPT !.state = "errored", !.rejoin = TRUE]
         = [[ch EXCEPT !.state = "errored"] EXCEPT !.rejoin = TRUE]
  OBVIOUS
<1>2. [ch EXCEPT !.state = "closed", !.rejoin = FALSE]
         = [[ch EXCEPT !.state = "closed"] EXCEPT !.rejoin = FALSE]
  OBVIOUS
<1>3. [ch EXCEPT !.hears = FALSE, !.timer = "off"]
         = [[ch EXCEPT !.hears = FALSE] EXCEPT !.timer = "off"]
  OBVIOUS
<1>4. \A ref : [ch EXCEPT !.joinRef = ref, !.hears = TRUE, !.timer = "running"]
                  = [[ch EXCEPT !.joinRef = ref, !.hears = TRUE] EXCEPT !.timer = "running"]
  OBVIOUS
<1>5. \A ref : [ch EXCEPT !.joinRef = ref, !.hears = FALSE]
                  = [[ch EXCEPT !.joinRef = ref] EXCEPT !.hears = FALSE]
  OBVIOUS
<1>6. [ch EXCEPT !.state = "closed", !.intact = FALSE, !.rejoin = FALSE, !.pushBuffer = <<>>]
         = [[ch EXCEPT !.state = "closed", !.intact = FALSE, !.rejoin = FALSE]
              EXCEPT !.pushBuffer = <<>>]
  OBVIOUS
<1>7. [ch EXCEPT !.state = "joined", !.rejoin = FALSE, !.pushBuffer = <<>>]
         = [[ch EXCEPT !.state = "joined", !.rejoin = FALSE] EXCEPT !.pushBuffer = <<>>]
  OBVIOUS
<1> QED BY <1>1, <1>2, <1>3, <1>4, <1>5, <1>6, <1>7, ExceptFcn

\* What every handler but the answer "ok" to a join does: no channel comes into the socket or
\* becomes joined by it.
Calm(old, new) ==
    /\ Fcn(old) => Fcn(new)
    /\ new.routed => old.routed
    /\ new.state = "joined" =>
          old.state = "joined" /\ new.joinRef = old.joinRef /\ new.intact = old.intact

LEMMA CalmTransitive ==
    ASSUME NEW a, NEW b, NEW c, Calm(a, b), Calm(b, c)
    PROVE  Calm(a, c)
BY DEF Calm

LEMMA UnroutedCalm ==
    ASSUME NEW ch, Shape(ch)
    PROVE  Calm(ch, [ch EXCEPT !.routed = FALSE]) /\ ~[ch EXCEPT !.routed = FALSE].routed
<1>1. Fcn([ch EXCEPT !.routed = FALSE]) BY ExceptFcn
<1> QED BY <1>1, SMT DEF Calm, Shape

\* phx_error: a channel that was joined is not any more.
LEMMA ErroredCalm ==
    ASSUME NEW ch, Shape(ch)
    PROVE  /\ Calm(ch, Errored(ch))
           /\ ch.intact => Errored(ch).state # "joined"
<1> DEFINE errored == [ch EXCEPT !.state = "errored", !.rejoin = TRUE]
<1>1. Fcn(errored) BY TwoExcept
<1>2. errored.state = "errored" /\ errored.routed = ch.routed BY SMT DEF Shape
<1>3. Errored(ch) = IF ch.state \in {"leaving", "closed"} \/ ~ch.intact THEN ch ELSE errored
  BY DEF Errored
<1> HIDE DEF errored
<1> QED BY <1>1, <1>2, <1>3 DEF Calm

LEMMA JoinDestroyedCalm ==
    ASSUME NEW ch, Shape(ch)
    PROVE  Calm(ch, JoinDestroyed(ch))
<1>1. Fcn(JoinDestroyed(ch)) BY TwoExcept DEF JoinDestroyed
<1> QED BY <1>1, SMT DEF Calm, Shape, JoinDestroyed

\* phx_close.
LEMMA ClosedCalm ==
    ASSUME NEW ch, Shape(ch)
    PROVE  /\ Calm(ch, Closed(ch))
           /\ ch.intact => Closed(ch).state = "closed"
<1> DEFINE closed == [ch EXCEPT !.state = "closed", !.rejoin = FALSE]
<1>1. Fcn(closed) BY TwoExcept
<1>2. closed.state = "closed" /\ closed.routed = ch.routed BY SMT DEF Shape
<1>3. Closed(ch) = IF ch.intact THEN closed ELSE ch
  BY DEF Closed
<1> HIDE DEF closed
<1> QED BY <1>1, <1>2, <1>3 DEF Calm

\* unsubscribe.
LEMMA LeftCalm ==
    ASSUME NEW ch, Sound(ch)
    PROVE  Calm(ch, Left(ch)) /\ Left(ch).state # "joined"
<1> DEFINE leaving == [JoinDestroyed(ch) EXCEPT !.state = "leaving"]
<1>1. Fcn(leaving) BY ExceptFcn
<1>2. leaving.state = "leaving" /\ leaving.routed = ch.routed /\ Shape(leaving)
  BY SMT DEF Sound, Shape, JoinDestroyed, ChannelState
<1>3. Left(ch) = Closed(leaving) BY DEF Left
<1> HIDE DEF leaving
<1>4. Calm(ch, leaving) BY <1>1, <1>2 DEF Calm
<1>5. Calm(leaving, Closed(leaving)) /\ Closed(leaving).state # "joined"
  BY <1>2, ClosedCalm DEF Calm
<1> QED BY <1>3, <1>4, <1>5, CalmTransitive

\* teardown.
LEMMA TornDownCalm ==
    ASSUME NEW ch, Sound(ch)
    PROVE  Calm(ch, TornDown(ch)) /\ TornDown(ch).state = "closed"
<1>1. Fcn(TornDown(ch)) BY TwoExcept DEF TornDown
<1> QED BY <1>1, SMT DEF Calm, Sound, Shape, TornDown, JoinDestroyed

\* _rejoin.
LEMMA ResentCalm ==
    ASSUME NEW ch, NEW ref \in Ref, Sound(ch)
    PROVE  Calm(ch, Resent([ch EXCEPT !.state = "joining", !.joinedOnce = TRUE], ref))
<1> DEFINE joining == [ch EXCEPT !.state = "joining", !.joinedOnce = TRUE]
<1>1. Shape(joining) /\ joining.state = "joining" /\ joining.routed = ch.routed
  BY SMT DEF Sound, Shape, ChannelState
<1> HIDE DEF joining
<1>2. Fcn(Resent(joining, ref)) BY TwoExcept DEF Resent
<1>3. Resent(joining, ref).state = "joining" /\ Resent(joining, ref).routed = joining.routed
  BY <1>1, SMT DEF Resent, Shape
<1>4. Calm(ch, Resent(joining, ref)) BY <1>1, <1>2, <1>3 DEF Calm
<1> QED BY <1>4 DEF joining

\* The timeout of the join.
LEMMA JoinTimedOutCalm ==
    ASSUME NEW ch, Sound(ch)
    PROVE  Calm(ch, JoinTimedOut(ch))
<1> DEFINE spent == [ch EXCEPT !.timer = "spent"]
           errored == [JoinDestroyed(ch) EXCEPT !.state = "errored", !.rejoin = TRUE]
<1>1. Fcn(spent) /\ Fcn(errored) BY ExceptFcn, TwoExcept
<1>2. Calm(ch, spent) BY <1>1, SMT DEF Calm, Sound, Shape
<1>3. Calm(ch, JoinDestroyed(ch)) BY JoinDestroyedCalm DEF Sound
<1>4. Calm(ch, errored) BY <1>1, SMT DEF JoinDestroyed, Calm, Sound, Shape
<1>5. JoinTimedOut(ch) \in {spent, JoinDestroyed(ch), errored} BY DEF JoinTimedOut
<1> HIDE DEF spent, errored
<1> QED BY <1>2, <1>3, <1>4, <1>5

\* The answer "error" to the join.
LEMMA JoinErrorCalm ==
    ASSUME NEW ch, Sound(ch)
    PROVE  Calm(ch, JoinError(ch))
<1> DEFINE h == Errored(JoinDestroyed(ch))
<1>1. Sound(JoinDestroyed(ch)) BY JoinDestroyedKept DEF Kept
<1>2. Sound(h) BY <1>1, ErroredKept DEF Kept
<1>3. Calm(ch, h)
  BY <1>1, JoinDestroyedCalm, ErroredCalm, CalmTransitive DEF Sound
<1>4. JoinError(ch) = [h EXCEPT !.state = "errored"] BY DEF JoinError
<1> HIDE DEF h
<1>5. Fcn([h EXCEPT !.state = "errored"]) BY ExceptFcn
<1>6. Calm(h, [h EXCEPT !.state = "errored"]) BY <1>2, <1>5, SMT DEF Calm, Sound, Shape
<1> QED BY <1>3, <1>4, <1>6, CalmTransitive

\* The answer "ok" to the join: the channel is joined, by the same join as before.
LEMMA JoinOkJoins ==
    ASSUME NEW ch, Sound(ch)
    PROVE  /\ Fcn(JoinOk(ch))
           /\ JoinOk(ch).routed = ch.routed /\ JoinOk(ch).state = "joined"
           /\ JoinOk(ch).joinRef = ch.joinRef /\ JoinOk(ch).intact = ch.intact
<1>1. Fcn(JoinOk(ch)) BY TwoExcept DEF JoinOk
<1> QED BY <1>1, SMT DEF Sound, Shape, JoinOk, JoinDestroyed

\* The answer "ok" with other changes than were asked for: whatever it does, the channel
\* leaves the socket.
LEMMA MismatchedCalm ==
    ASSUME NEW ch, Sound(ch)
    PROVE  Calm(ch, [Mismatched(ch) EXCEPT !.routed = FALSE])
<1> DEFINE left == Left(JoinOk(ch))
<1>1. Sound(left) BY JoinOkKept, LeftKept DEF Kept
<1>2. Mismatched(ch) = [left EXCEPT !.state = "errored"] BY DEF Mismatched
<1> HIDE DEF left
<1>3. Fcn([Mismatched(ch) EXCEPT !.routed = FALSE]) BY ExceptFcn
<1> QED BY <1>1, <1>2, <1>3, SMT DEF Calm, Sound, Shape

\* _addToPushBuffer.
LEMMA BufferCalm ==
    ASSUME NEW ch, Sound(ch), NEW buffer
    PROVE  Calm(ch, [ch EXCEPT !.pushBuffer = buffer])
<1>1. Fcn([ch EXCEPT !.pushBuffer = buffer]) BY ExceptFcn
<1> QED BY <1>1, SMT DEF Calm, Sound, Shape
-----------------------------------------------------------------------------
(* The same for all channels of the topic. *)

AllCalm(old, new) == \A c \in Channel : Calm(old[c], new[c])

LEMMA SameCalm ==
    ASSUME NEW chans
    PROVE  AllCalm(chans, chans)
BY DEF AllCalm, Calm

LEMMA AllCalmTransitive ==
    ASSUME NEW a, NEW b, NEW c, AllCalm(a, b), AllCalm(b, c)
    PROVE  AllCalm(a, c)
BY DEF AllCalm, Calm

LEMMA OneCalm ==
    ASSUME NEW chans, Channels(chans), NEW c \in Channel, NEW ch, Calm(chans[c], ch)
    PROVE  AllCalm(chans, [chans EXCEPT ![c] = ch])
<1>1. [chans EXCEPT ![c] = ch] = [d \in Channel |-> IF d = c THEN ch ELSE chans[d]]
  BY DEF Channels
<1>2. ASSUME NEW d \in Channel PROVE Calm(chans[d], [chans EXCEPT ![c] = ch][d])
  BY <1>1 DEF Calm
<1> QED BY <1>2 DEF AllCalm

\* The removal of all channels of the topic.
LEMMA AllUnroutedCalm ==
    ASSUME NEW chans, Channels(chans)
    PROVE  /\ AllCalm(chans, [d \in Channel |-> [chans[d] EXCEPT !.routed = FALSE]])
           /\ \A d \in Channel : ~[chans[d] EXCEPT !.routed = FALSE].routed
<1>1. \A d \in Channel : /\ Calm(chans[d], [chans[d] EXCEPT !.routed = FALSE])
                         /\ ~[chans[d] EXCEPT !.routed = FALSE].routed
  BY UnroutedCalm DEF Channels, Sound
<1> QED BY <1>1 DEF AllCalm

LEMMA RemovedCalm ==
    ASSUME NEW chans, Channels(chans), NEW c \in Channel
    PROVE  AllCalm(chans, Removed(chans, c))
BY AllUnroutedCalm, SameCalm DEF Removed

\* unsubscribe with the removal that follows.
LEMMA UnsubscribedCalm ==
    ASSUME NEW chans, Channels(chans), NEW c \in Channel
    PROVE  AllCalm(chans, Unsubscribed(chans, c))
<1> DEFINE left == [chans EXCEPT ![c] = Left(chans[c])]
<1>1. AllCalm(chans, left) BY LeftCalm, OneCalm DEF Channels
<1>2. Channels(left) BY LeftKept, OneKept, KeptChannels DEF Channels
<1>3. Unsubscribed(chans, c) = Removed(left, c) BY DEF Unsubscribed
<1> HIDE DEF left
<1> QED BY <1>1, <1>2, <1>3, RemovedCalm, AllCalmTransitive

\* phx_close with the removal that follows: none is left in the socket.
LEMMA ClosedAllCalm ==
    ASSUME NEW chans, Channels(chans), NEW c \in Channel, chans[c].intact
    PROVE  /\ AllCalm(chans, Removed([chans EXCEPT ![c] = Closed(chans[c])], c))
           /\ \A d \in Channel : ~Removed([chans EXCEPT ![c] = Closed(chans[c])], c)[d].routed
<1> DEFINE closed == [chans EXCEPT ![c] = Closed(chans[c])]
<1>1. AllCalm(chans, closed) BY ClosedCalm, OneCalm DEF Channels, Sound
<1>2. closed = [d \in Channel |-> IF d = c THEN Closed(chans[c]) ELSE chans[d]]
  BY DEF Channels
<1>3. \A d \in Channel : Shape(closed[d])
  BY <1>2, ClosedShape DEF Channels, Sound
<1>4. closed[c].state = "closed"
  BY <1>2, ClosedShape DEF Channels, Sound
<1> HIDE DEF closed
<1>5. Removed(closed, c) = [d \in Channel |-> [closed[d] EXCEPT !.routed = FALSE]]
  BY <1>4 DEF Removed
<1>6. \A d \in Channel : /\ Calm(closed[d], [closed[d] EXCEPT !.routed = FALSE])
                         /\ ~[closed[d] EXCEPT !.routed = FALSE].routed
  BY <1>3, UnroutedCalm
<1>7. /\ AllCalm(chans, Removed(closed, c))
      /\ \A d \in Channel : ~Removed(closed, c)[d].routed
  BY <1>1, <1>5, <1>6, CalmTransitive DEF AllCalm
<1> QED BY <1>7 DEF closed

\* _leaveOpenTopic.
LEMMA LeaveOpenTopicCalm ==
    ASSUME Inv
    PROVE  AllCalm(chan, AfterLeaveOpenTopic)
<1>1. CASE OpenOfTopic = {}
  BY <1>1, SameCalm DEF AfterLeaveOpenTopic
<1>2. CASE OpenOfTopic # {}
  <2> DEFINE d == CHOOSE d \in OpenOfTopic : TRUE
  <2>1. d \in Channel BY <1>2 DEF OpenOfTopic, Routed, Inv
  <2>2. AfterLeaveOpenTopic = Unsubscribed(chan, d) BY <1>2 DEF AfterLeaveOpenTopic
  <2> HIDE DEF d
  <2> QED BY <2>1, <2>2, UnsubscribedCalm DEF Inv
<1> QED BY <1>1, <1>2

\* _rejoin.
LEMMA RejoinCalm ==
    ASSUME Inv, NEW c \in Channel, Rejoin(c)
    PROVE  AllCalm(chan, chan')
<1> DEFINE after == AfterLeaveOpenTopic
           ch == Resent([after[c] EXCEPT !.state = "joining", !.joinedOnce = TRUE], NewRef)
<1>1. AllKept(chan, after) /\ AllCalm(chan, after) BY LeaveOpenTopicKept, LeaveOpenTopicCalm
<1>2. Channels(after) BY <1>1, KeptChannels
<1>3. Sound(after[c]) BY <1>2 DEF Channels
<1>4. Calm(after[c], ch) BY <1>3, ResentCalm, NewRefIsRef DEF Rejoin
<1>5. chan' = [after EXCEPT ![c] = ch] BY DEF Rejoin
<1> HIDE DEF after, ch
<1>6. AllCalm(after, [after EXCEPT ![c] = ch]) BY <1>2, <1>4, OneCalm
<1> QED BY <1>1, <1>5, <1>6, AllCalmTransitive

\* An error of the connection: no channel of the socket that has its bindings stays joined.
LEMMA ChannelsErroredCalm ==
    ASSUME Inv
    PROVE  /\ AllCalm(chan, ChannelsErrored)
           /\ \A c \in Routed : chan[c].intact => ChannelsErrored[c].state # "joined"
<1>1. \A c \in Channel : Calm(chan[c], IF c \in Routed THEN Errored(chan[c]) ELSE chan[c])
  BY ErroredCalm DEF Inv, Channels, Sound, Calm
<1>2. \A c \in Channel : chan[c].intact => Errored(chan[c]).state # "joined"
  BY ErroredCalm DEF Inv, Channels, Sound
<1>3. Routed \subseteq Channel BY DEF Routed, Inv
<1> QED BY <1>1, <1>2, <1>3 DEF ChannelsErrored, AllCalm
-----------------------------------------------------------------------------
(* The WebSockets and what is on its way. *)

\* What the client sends: a push has the reference of a push, and only a push has one.
Sent == {m \in Message : IF m.event = "push" THEN m.ref \in Push ELSE m.ref \in Ref \cup {0}}

NetTypes ==
    /\ conn \in Conn \cup {0} /\ ready \in [Conn -> ReadyState]
    /\ up \in [Conn -> Seq(Sent)] /\ down \in [Conn -> Seq(Reply)]
    /\ joined \in [Conn -> SUBSET (Ref \cup {0})]
    /\ sendBuffer \in Seq(Sent)

\* A WebSocket over which nothing was sent yet, or nothing passes any more.
Quiet(k) ==
    \/ ready[k] \in {"none", "connecting", "failed", "dead"}
    \/ ready[k] = "open" /\ k # conn

\* Such a WebSocket carries nothing and has joined nothing; the others have one join.
Wires ==
    \A k \in Conn :
        /\ Quiet(k) => up[k] = <<>> /\ down[k] = <<>> /\ joined[k] = {}
        /\ \A a, b \in joined[k] : a = b

\* The i-th message of d tells the end of the join r.
Ends(d, i, r) == d[i].event \in {"phx_close", "phx_error"} /\ d[i].ref = r

\* Of the messages d to the client, and the joins that stand: a join that was answered "ok"
\* stands, or its end follows the answer.
AnsweredBy(d, joins) ==
    \A i \in 1..Len(d) :
        d[i].event = "ok" /\ d[i].ref \notin Push =>
            joins = {d[i].ref} \/ \E j \in 1..Len(d) : j > i /\ Ends(d, j, d[i].ref)

Answered == \A k \in Conn : AnsweredBy(down[k], joined[k])

NetInv == NetTypes /\ Wires /\ Answered

LEMMA ConnNotZero == 0 \notin Conn
BY ClientAssumption DEF ClientAssumption

\* What a step sends: to the current WebSocket if it is open, and into the buffer.
Sends ==
    /\ up' \in [Conn -> Seq(Sent)] /\ sendBuffer' \in Seq(Sent)
    /\ \A k \in Conn : up'[k] = up[k] \/ (k = conn' /\ ready'[k] = "open")

LEMMA TransmitSends ==
    ASSUME NetTypes, NEW msgs \in Seq(Sent), Transmit(msgs),
           Connected => UNCHANGED <<conn, ready>>
    PROVE  Sends /\ (~Connected => UNCHANGED up)
<1>1. sendBuffer' \in Seq(Sent)
  BY ConcatProperties DEF Transmit, NetTypes
<1>2. CASE Connected /\ ready[conn] = "open"
  <2>1. conn \in Conn BY <1>2 DEF Connected, NetTypes
  <2>2. up' = [up EXCEPT ![conn] = up[conn] \o msgs] BY <1>2 DEF Transmit
  <2>3. up[conn] \o msgs \in Seq(Sent) BY <2>1, ConcatProperties DEF NetTypes
  <2>4. up' \in [Conn -> Seq(Sent)] BY <2>1, <2>2, <2>3 DEF NetTypes
  <2>5. \A k \in Conn : up'[k] = up[k] \/ k = conn BY <2>1, <2>2 DEF NetTypes
  <2> QED BY <1>1, <1>2, <2>4, <2>5 DEF Sends
<1>3. CASE ~(Connected /\ ready[conn] = "open")
  BY <1>1, <1>3 DEF Transmit, Sends, NetTypes
<1> QED BY <1>2, <1>3 DEF Transmit

LEMMA FlushSends ==
    ASSUME NetTypes, FlushSendBuffer(ready'), UNCHANGED conn
    PROVE  Sends
<1>1. CASE conn # 0 /\ ready'[conn] = "open"
  <2>1. conn \in Conn BY <1>1 DEF NetTypes
  <2>2. up' = [up EXCEPT ![conn] = up[conn] \o sendBuffer] /\ sendBuffer' = <<>>
    BY <1>1 DEF FlushSendBuffer
  <2>3. up[conn] \o sendBuffer \in Seq(Sent) BY <2>1, ConcatProperties DEF NetTypes
  <2>4. up' \in [Conn -> Seq(Sent)] BY <2>1, <2>2, <2>3 DEF NetTypes
  <2>5. \A k \in Conn : up'[k] = up[k] \/ k = conn BY <2>1, <2>2 DEF NetTypes
  <2> QED BY <1>1, <2>2, <2>4, <2>5 DEF Sends
<1>2. CASE ~(conn # 0 /\ ready'[conn] = "open")
  <2>1. UNCHANGED up /\ sendBuffer' \in {sendBuffer, <<>>} BY <1>2 DEF FlushSendBuffer
  <2>2. <<>> \in Seq(Sent) OBVIOUS
  <2> QED BY <2>1, <2>2 DEF Sends, NetTypes
<1> QED BY <1>1, <1>2

LEMMA SilentSends ==
    ASSUME NetTypes, UNCHANGED <<up, sendBuffer>>
    PROVE  Sends
BY DEF Sends, NetTypes

LEMMA MsgSent ==
    /\ \A r \in Ref \cup {0} : Msg("phx_join", r) \in Sent /\ Msg("phx_leave", r) \in Sent
    /\ \A p \in Push : Msg("push", p) \in Sent
BY DEF Msg, Sent, Message

\* A step that only sends, opens or fails WebSockets.
LEMMA SendingStep ==
    ASSUME NetInv, Sends, UNCHANGED <<down, joined>>,
           conn' \in Conn \cup {0}, ready' \in [Conn -> ReadyState],
           \A k \in Conn : Quiet(k)' => Quiet(k)
    PROVE  NetInv'
<1>1. NetTypes' BY DEF NetInv, NetTypes, Sends
<1>2. Wires'
  <2> SUFFICES ASSUME NEW k \in Conn, Quiet(k)' PROVE up'[k] = <<>>
    BY DEF NetInv, Wires
  <2>1. up[k] = <<>> BY DEF NetInv, Wires
  <2>2. ~(k = conn' /\ ready'[k] = "open") BY DEF Quiet
  <2> QED BY <2>1, <2>2 DEF Sends
<1>3. Answered' BY DEF NetInv, Answered
<1> QED BY <1>1, <1>2, <1>3 DEF NetInv

\* One that leaves the WebSockets as they are.
LEMMA SendingOnly ==
    ASSUME NetInv, Sends, UNCHANGED <<conn, ready, down, joined>>
    PROVE  NetInv'
<1>1. \A k \in Conn : Quiet(k)' => Quiet(k) BY DEF Quiet
<1> QED BY <1>1, SendingStep DEF NetInv, NetTypes

\* connect.
LEMMA ConnectStep ==
    ASSUME NetTypes, Connect
    PROVE  /\ conn' \in Conn \cup {0} /\ ready' \in [Conn -> ReadyState]
           /\ Connected => UNCHANGED <<conn, ready>>
           /\ \A k \in Conn : Quiet(k)' => Quiet(k)
           /\ \/ UNCHANGED <<conn, ready>>
              \/ /\ ~Connected /\ conn' # 0
                 /\ \A k \in Conn : ready'[k] # ready[k] => ready[k] = "none"
<1>1. CASE UNCHANGED <<conn, ready>>
  BY <1>1 DEF NetTypes, Quiet
<1>2. ASSUME ~Connected, NEW k \in Conn, ready[k] = "none", conn' = k,
             ready' = [ready EXCEPT ![k] = "connecting"]
      PROVE  /\ conn' \in Conn \cup {0} /\ ready' \in [Conn -> ReadyState]
             /\ conn' # 0
             /\ \A j \in Conn : Quiet(j)' => Quiet(j)
             /\ \A j \in Conn : ready'[j] # ready[j] => ready[j] = "none"
  <2>1. ready' \in [Conn -> ReadyState] BY <1>2 DEF NetTypes, ReadyState
  <2>2. \A j \in Conn : ready'[j] = IF j = k THEN "connecting" ELSE ready[j]
    BY <1>2 DEF NetTypes
  <2>3. ASSUME NEW j \in Conn, Quiet(j)' PROVE Quiet(j)
    <3>1. CASE j = k BY <1>2, <3>1 DEF Quiet
    <3>2. CASE j # k
      <4>1. ready'[j] = ready[j] BY <2>2, <3>2
      <4>2. ready[j] = "open" => j # conn BY <1>2, ConnNotZero DEF Connected
      <4> QED BY <2>3, <4>1, <4>2 DEF Quiet
    <3> QED BY <3>1, <3>2
  <2> QED BY <1>2, <2>1, <2>2, <2>3, ConnNotZero
<1> QED BY <1>1, <1>2 DEF Connect

\* A WebSocket that is gone, with what was on its way.
LEMMA GoneStep ==
    ASSUME NetInv, NEW k \in Conn, Gone(k), UNCHANGED sendBuffer,
           conn' \in Conn \cup {0}, ready' \in [Conn -> ReadyState],
           \A j \in Conn \ {k} : Quiet(j)' => Quiet(j)
    PROVE  NetInv'
<1>1. <<>> \in Seq(Sent) /\ <<>> \in Seq(Reply) /\ Len(<<>>) = 0 OBVIOUS
<1>2. NetTypes' BY <1>1 DEF NetInv, NetTypes, Gone
<1>3. /\ up'[k] = <<>> /\ down'[k] = <<>> /\ joined'[k] = {}
      /\ \A j \in Conn \ {k} : up'[j] = up[j] /\ down'[j] = down[j] /\ joined'[j] = joined[j]
  BY DEF NetInv, NetTypes, Gone
<1>4. Wires' BY <1>3 DEF NetInv, Wires
<1>5. AnsweredBy(<<>>, {}) BY <1>1, SMT DEF AnsweredBy
<1>6. Answered' BY <1>3, <1>5 DEF NetInv, Answered
<1> QED BY <1>2, <1>4, <1>6 DEF NetInv
-----------------------------------------------------------------------------
(* What the server sends. *)

\* It tells the end of the joins in S, and nothing else.
Closing(d, S) ==
    /\ d \in Seq(Reply)
    /\ \A i \in 1..Len(d) : d[i].event = "phx_close"
    /\ \A r \in S : \E j \in 1..Len(d) : Ends(d, j, r)

LEMMA MsgReply ==
    /\ \A r \in Ref \cup {0} \cup Push :
          \A e \in {"ok", "mismatch", "error", "phx_close", "phx_error"} :
             /\ Msg(e, r) \in Reply /\ <<Msg(e, r)>> \in Seq(Reply)
             /\ Msg(e, r).event = e /\ Msg(e, r).ref = r
    /\ <<>> \in Seq(Reply)
BY DEF Msg, Reply

LEMMA OldCloses ==
    ASSUME NEW S \in SUBSET (Ref \cup {0}), \A a, b \in S : a = b
    PROVE  Closing(SetToSeq({Msg("phx_close", r) : r \in S}), S)
<1> DEFINE T == {Msg("phx_close", r) : r \in S}
<1>1. CASE S = {}
  <2>1. T = {} BY <1>1
  <2>2. Cardinality(T) = 0 BY <2>1, FS_EmptySet
  <2>3. SetToSeq(T) \in [1..0 -> T]
    <3> DEFINE f == [i \in 1..0 |-> i]
    <3>1. f \in [1..0 -> T] /\ IsInjective(f) BY SMT DEF IsInjective
    <3> HIDE DEF f, T
    <3> QED BY <2>2, <3>1 DEF SetToSeq
  <2> HIDE DEF T
  <2>4. SetToSeq(T) = <<>> BY <2>3, SMT
  <2>5. Closing(<<>>, {}) BY DEF Closing
  <2> QED BY <1>1, <2>4, <2>5 DEF T
<1>2. ASSUME NEW r \in S PROVE Closing(SetToSeq(T), S)
  <2> DEFINE m == Msg("phx_close", r)
  <2>1. S = {r} /\ T = {m} BY <1>2
  <2>2. Cardinality(T) = 1 BY <2>1, FS_Singleton
  <2>3. SetToSeq(T) \in [1..1 -> T]
    <3> DEFINE f == [i \in 1..1 |-> m]
    <3>1. f \in [1..1 -> T] /\ IsInjective(f) BY <2>1, SMT DEF IsInjective
    <3> HIDE DEF f, T, m
    <3> QED BY <2>2, <3>1 DEF SetToSeq
  <2>4. m \in Reply /\ m.event = "phx_close" /\ m.ref = r BY MsgReply
  <2> HIDE DEF T, m
  <2> DEFINE d == SetToSeq(T)
  <2>5. d \in Seq(Reply) /\ Len(d) = 1 /\ d[1] = m
    <3>1. d \in [1..1 -> {m}] BY <2>1, <2>3
    <3>2. d = [i \in 1..1 |-> d[i]] /\ d[1] = m BY <3>1
    <3>3. \A i \in 1..1 : d[i] \in Reply BY <2>4, <3>1
    <3>4. d \in Seq(Reply) BY <3>2, <3>3, IsASeq
    <3> QED BY <3>2, <3>4, LenProperties
  <2> HIDE DEF d
  <2>6. Closing(d, S) BY <2>1, <2>4, <2>5, SMT DEF Closing, Ends
  <2> QED BY <2>6 DEF d, T
<1> QED BY <1>1, <1>2

\* More is sent: the joins that stood are among those that stand, or their end is sent.
LEMMA AnsweredMore ==
    ASSUME NEW d \in Seq(Reply), NEW joins, AnsweredBy(d, joins),
           NEW more \in Seq(Reply), NEW now, AnsweredBy(more, now),
           \A r : joins = {r} => now = {r} \/ \E j \in 1..Len(more) : Ends(more, j, r)
    PROVE  d \o more \in Seq(Reply) /\ AnsweredBy(d \o more, now)
<1> DEFINE e == d \o more
<1>1. /\ e \in Seq(Reply) /\ Len(e) = Len(d) + Len(more)
      /\ \A i \in 1..Len(d) : e[i] = d[i]
      /\ \A i \in 1..Len(more) : e[Len(d) + i] = more[i]
  BY ConcatProperties, SMT
<1>2. Len(d) \in Nat /\ Len(more) \in Nat OBVIOUS
<1> HIDE DEF e
<1>3. ASSUME NEW i \in 1..Len(e), e[i].event = "ok", e[i].ref \notin Push
      PROVE  now = {e[i].ref} \/ \E j \in 1..Len(e) : j > i /\ Ends(e, j, e[i].ref)
  <2>1. CASE i <= Len(d)
    <3>1. i \in 1..Len(d) /\ e[i] = d[i] BY <1>1, <1>2, <2>1
    <3>2. CASE joins = {d[i].ref}
      <4>1. CASE now = {d[i].ref} BY <3>1, <4>1
      <4>2. ASSUME NEW j \in 1..Len(more), Ends(more, j, d[i].ref)
            PROVE  \E h \in 1..Len(e) : h > i /\ Ends(e, h, e[i].ref)
        <5>1. Len(d) + j \in 1..Len(e) /\ Len(d) + j > i /\ e[Len(d) + j] = more[j]
          BY <1>1, <1>2, <3>1
        <5>2. Ends(e, Len(d) + j, e[i].ref) BY <3>1, <4>2, <5>1 DEF Ends
        <5> QED BY <5>1, <5>2
      <4> QED BY <3>2, <4>1, <4>2
    <3>3. ASSUME NEW j \in 1..Len(d), j > i, Ends(d, j, d[i].ref)
          PROVE  \E h \in 1..Len(e) : h > i /\ Ends(e, h, e[i].ref)
      <4>1. j \in 1..Len(e) /\ e[j] = d[j] BY <1>1, <1>2
      <4>2. Ends(e, j, e[i].ref) BY <3>1, <3>3, <4>1 DEF Ends
      <4> QED BY <3>3, <4>1, <4>2
    <3> QED BY <1>3, <3>1, <3>2, <3>3 DEF AnsweredBy
  <2>2. CASE i > Len(d)
    <3> DEFINE h == i - Len(d)
    <3>1. h \in 1..Len(more) /\ i = Len(d) + h BY <1>1, <1>2, <2>2
    <3> HIDE DEF h
    <3>2. e[i] = more[h] BY <1>1, <3>1
    <3>3. now = {more[h].ref} \/ \E j \in 1..Len(more) : j > h /\ Ends(more, j, more[h].ref)
      BY <1>3, <3>1, <3>2 DEF AnsweredBy
    <3>4. ASSUME NEW j \in 1..Len(more), j > h, Ends(more, j, more[h].ref)
          PROVE  \E g \in 1..Len(e) : g > i /\ Ends(e, g, e[i].ref)
      <4>1. Len(d) + j \in 1..Len(e) /\ Len(d) + j > i /\ e[Len(d) + j] = more[j]
        BY <1>1, <1>2, <3>1, <3>4
      <4>2. Ends(e, Len(d) + j, e[i].ref) BY <3>2, <3>4, <4>1 DEF Ends
      <4> QED BY <4>1, <4>2
    <3> QED BY <3>2, <3>3, <3>4
  <2> QED BY <1>1, <1>2, <2>1, <2>2
<1>4. AnsweredBy(e, now) BY <1>3 DEF AnsweredBy
<1> QED BY <1>1, <1>4 DEF e

\* The client takes the first message.
LEMMA AnsweredLess ==
    ASSUME NEW d \in Seq(Reply), d # <<>>, NEW joins, AnsweredBy(d, joins)
    PROVE  /\ Tail(d) \in Seq(Reply) /\ AnsweredBy(Tail(d), joins)
           /\ Head(d) = d[1] /\ Head(d) \in Reply
           /\ Head(d).event = "ok" /\ Head(d).ref \notin Push =>
                 \/ joins = {Head(d).ref}
                 \/ \E j \in 1..Len(Tail(d)) : Ends(Tail(d), j, Head(d).ref)
           /\ \A r : (\E j \in 1..Len(d) : Ends(d, j, r)) =>
                 Ends(d, 1, r) \/ \E j \in 1..Len(Tail(d)) : Ends(Tail(d), j, r)
<1> DEFINE e == Tail(d)
<1>1. /\ e \in Seq(Reply) /\ Len(e) = Len(d) - 1 /\ Len(d) \in Nat \ {0}
      /\ \A i \in 1..Len(e) : e[i] = d[i + 1]
      /\ Head(d) = d[1] /\ Head(d) \in Reply
  BY HeadTailProperties, SMT
<1> HIDE DEF e
<1>2. ASSUME NEW r, NEW j \in 1..Len(d), j > 1, Ends(d, j, r)
      PROVE  j - 1 \in 1..Len(e) /\ Ends(e, j - 1, r)
  <2>1. j - 1 \in 1..Len(e) /\ e[j - 1] = d[j] BY <1>1, <1>2
  <2> QED BY <1>2, <2>1 DEF Ends
<1>3. AnsweredBy(e, joins)
  <2> SUFFICES ASSUME NEW i \in 1..Len(e), e[i].event = "ok", e[i].ref \notin Push
               PROVE  joins = {e[i].ref} \/ \E j \in 1..Len(e) : j > i /\ Ends(e, j, e[i].ref)
    BY DEF AnsweredBy
  <2>1. i + 1 \in 1..Len(d) /\ e[i] = d[i + 1] BY <1>1
  <2>2. ASSUME NEW j \in 1..Len(d), j > i + 1, Ends(d, j, e[i].ref)
        PROVE  \E h \in 1..Len(e) : h > i /\ Ends(e, h, e[i].ref)
    <3>1. j > 1 /\ j - 1 > i BY <1>1, <2>2
    <3> QED BY <1>2, <2>2, <3>1
  <2> QED BY <2>1, <2>2 DEF AnsweredBy
<1>4. Head(d).event = "ok" /\ Head(d).ref \notin Push =>
         joins = {Head(d).ref} \/ \E j \in 1..Len(e) : Ends(e, j, Head(d).ref)
  <2>1. 1 \in 1..Len(d) BY <1>1
  <2> QED BY <1>1, <1>2, <2>1 DEF AnsweredBy
<1>5. \A r : (\E j \in 1..Len(d) : Ends(d, j, r)) =>
         Ends(d, 1, r) \/ \E j \in 1..Len(e) : Ends(e, j, r)
  <2> SUFFICES ASSUME NEW r, NEW j \in 1..Len(d), Ends(d, j, r)
               PROVE  Ends(d, 1, r) \/ \E h \in 1..Len(e) : Ends(e, h, r)
    OBVIOUS
  <2>1. j = 1 \/ j > 1 BY <1>1
  <2> QED BY <1>2, <2>1
<1> QED BY <1>1, <1>3, <1>4, <1>5 DEF e

TellsEnd(d, r) == \E j \in 1..Len(d) : Ends(d, j, r)

\* The end of every join is still to come.
Broken == \E k \in Conn : ready[k] \in {"failed", "closing", "dead"}

\* The join r stands on the server, over the current WebSocket, or news of its end is on its way.
Linked(r) ==
    /\ conn # 0
    /\ \/ Broken
       \/ ready[conn] = "open" /\ (joined[conn] = {r} \/ TellsEnd(down[conn], r))

LinksKept == \A r : Linked(r) => Linked(r)'

\* The server answers with replies, and now is what it has joined.
LEMMA AnswerStep ==
    ASSUME NetInv, NEW k \in Conn, ~Quiet(k), NEW replies \in Seq(Reply),
           NEW now \in SUBSET (Ref \cup {0}), \A a, b \in now : a = b,
           AnsweredBy(replies, now),
           \A r : joined[k] = {r} => now = {r} \/ TellsEnd(replies, r),
           down' = [down EXCEPT ![k] = @ \o replies], joined' = [joined EXCEPT ![k] = now],
           up' \in [Conn -> Seq(Sent)], \A j \in Conn \ {k} : up'[j] = up[j],
           UNCHANGED <<conn, ready, sendBuffer>>
    PROVE  NetInv' /\ LinksKept
<1>1. down[k] \in Seq(Reply) /\ AnsweredBy(down[k], joined[k])
  BY DEF NetInv, NetTypes, Answered
<1>2. down[k] \o replies \in Seq(Reply) /\ AnsweredBy(down[k] \o replies, now)
  BY <1>1, AnsweredMore DEF TellsEnd
<1>3. /\ down' \in [Conn -> Seq(Reply)] /\ joined' \in [Conn -> SUBSET (Ref \cup {0})]
      /\ down'[k] = down[k] \o replies /\ joined'[k] = now
      /\ \A j \in Conn \ {k} : down'[j] = down[j] /\ joined'[j] = joined[j]
  BY <1>2 DEF NetInv, NetTypes
<1>4. NetTypes' BY <1>3 DEF NetInv, NetTypes
<1>5. Wires'
  <2>1. \A j \in Conn : Quiet(j)' <=> Quiet(j) BY DEF Quiet
  <2> SUFFICES ASSUME NEW j \in Conn
               PROVE  /\ Quiet(j) => up'[j] = <<>> /\ down'[j] = <<>> /\ joined'[j] = {}
                      /\ \A a, b \in joined'[j] : a = b
    BY <2>1 DEF Wires
  <2>2. CASE j = k BY <1>3, <2>2
  <2>3. CASE j # k
    <3>1. j \in Conn \ {k} BY <2>3
    <3>2. up'[j] = up[j] /\ down'[j] = down[j] /\ joined'[j] = joined[j] BY <1>3, <3>1
    <3> QED BY <3>2 DEF NetInv, Wires
  <2> QED BY <2>2, <2>3
<1>6. Answered' BY <1>2, <1>3 DEF NetInv, Answered
<1>7. ASSUME NEW r, Linked(r) PROVE Linked(r)'
  <2>1. Broken => Broken' BY DEF Broken
  <2>2. CASE conn = k
    <3>1. TellsEnd(down[k], r) \/ TellsEnd(replies, r) => TellsEnd(down[k] \o replies, r)
      <4> DEFINE e == down[k] \o replies
      <4>1. /\ Len(e) = Len(down[k]) + Len(replies)
            /\ \A i \in 1..Len(down[k]) : e[i] = down[k][i]
            /\ \A i \in 1..Len(replies) : e[Len(down[k]) + i] = replies[i]
        BY <1>1, ConcatProperties, SMT
      <4>2. Len(down[k]) \in Nat /\ Len(replies) \in Nat BY <1>1
      <4> HIDE DEF e
      <4>3. ASSUME NEW j \in 1..Len(down[k]), Ends(down[k], j, r)
            PROVE  TellsEnd(e, r)
        <5>1. j \in 1..Len(e) BY <4>1, <4>2
        <5>2. Ends(e, j, r) BY <4>1, <4>3 DEF Ends
        <5> QED BY <5>1, <5>2 DEF TellsEnd
      <4>4. ASSUME NEW j \in 1..Len(replies), Ends(replies, j, r)
            PROVE  TellsEnd(e, r)
        <5>1. Len(down[k]) + j \in 1..Len(e) BY <4>1, <4>2
        <5>2. Ends(e, Len(down[k]) + j, r) BY <4>1, <4>4 DEF Ends
        <5> QED BY <5>1, <5>2 DEF TellsEnd
      <4> QED BY <4>3, <4>4 DEF TellsEnd, e
    <3>2. joined[k] = {r} => now = {r} \/ TellsEnd(replies, r) OBVIOUS
    <3> QED BY <1>3, <1>7, <2>1, <2>2, <3>1, <3>2 DEF Linked
  <2>3. CASE conn # k /\ conn # 0
    <3>1. conn \in Conn \ {k} BY <2>3 DEF NetInv, NetTypes
    <3> QED BY <1>3, <1>7, <2>1, <3>1 DEF Linked
  <2> QED BY <1>7, <2>2, <2>3 DEF Linked
<1> QED BY <1>4, <1>5, <1>6, <1>7 DEF NetInv, LinksKept

\* One message only, and it ends no join.
LEMMA OneReply ==
    ASSUME NEW e \in {"ok", "mismatch", "error", "phx_close", "phx_error"},
           NEW r \in Ref \cup {0} \cup Push, NEW now,
           e = "ok" /\ r \notin Push => now = {r}
    PROVE  /\ <<Msg(e, r)>> \in Seq(Reply)
           /\ AnsweredBy(<<Msg(e, r)>>, now)
           /\ e \in {"phx_close", "phx_error"} => TellsEnd(<<Msg(e, r)>>, r)
<1> DEFINE d == <<Msg(e, r)>>
<1>1. Msg(e, r) \in Reply /\ d \in Seq(Reply) /\ Msg(e, r).event = e /\ Msg(e, r).ref = r
  BY MsgReply
<1>2. Len(d) = 1 /\ d[1] = Msg(e, r) OBVIOUS
<1> HIDE DEF d
<1>3. AnsweredBy(d, now) BY <1>1, <1>2, SMT DEF AnsweredBy
<1>4. e \in {"phx_close", "phx_error"} => TellsEnd(d, r)
  BY <1>1, <1>2, SMT DEF TellsEnd, Ends
<1> QED BY <1>1, <1>3, <1>4 DEF d

\* The end of the old joins, and an answer.
LEMMA ClosingThen ==
    ASSUME NEW S, NEW old, Closing(old, S), NEW more \in Seq(Reply), NEW now, AnsweredBy(more, now)
    PROVE  /\ old \o more \in Seq(Reply) /\ AnsweredBy(old \o more, now)
           /\ \A r \in S : TellsEnd(old \o more, r)
<1>1. AnsweredBy(old, {}) BY DEF AnsweredBy, Closing
<1>2. old \in Seq(Reply) BY DEF Closing
<1>3. old \o more \in Seq(Reply) /\ AnsweredBy(old \o more, now)
  BY <1>1, <1>2, AnsweredMore
<1>4. /\ Len(old \o more) = Len(old) + Len(more)
      /\ \A i \in 1..Len(old) : (old \o more)[i] = old[i]
      /\ Len(old) \in Nat /\ Len(more) \in Nat
  BY <1>2, ConcatProperties, SMT
<1>5. ASSUME NEW r \in S PROVE TellsEnd(old \o more, r)
  <2>1. PICK j \in 1..Len(old) : Ends(old, j, r) BY DEF Closing
  <2>2. j \in 1..Len(old \o more) BY <1>4
  <2>3. Ends(old \o more, j, r) BY <1>4, <2>1 DEF Ends
  <2> QED BY <2>2, <2>3 DEF TellsEnd
<1> QED BY <1>3, <1>5

\* The server takes the next message.
LEMMA ServeStep ==
    ASSUME NetInv, NEW k \in Conn, Serve(k)
    PROVE  NetInv' /\ LinksKept
<1> DEFINE m == Head(up[k])
           S == joined[k]
           old == SetToSeq({Msg("phx_close", r) : r \in S})
           Answer(replies, now) ==
              /\ down' = [down EXCEPT ![k] = @ \o replies]
              /\ joined' = [joined EXCEPT ![k] = now]
<1>1. /\ up[k] \in Seq(Sent) /\ up[k] # <<>> /\ up' = [up EXCEPT ![k] = Tail(@)]
      /\ UNCHANGED <<conn, ready, sendBuffer>>
  BY DEF Serve, NetInv, NetTypes
<1>2. m \in Sent /\ Tail(up[k]) \in Seq(Sent) BY <1>1, HeadTailProperties
<1>3. up' \in [Conn -> Seq(Sent)] /\ \A j \in Conn \ {k} : up'[j] = up[j]
  BY <1>1, <1>2 DEF NetInv, NetTypes
<1>4. ~Quiet(k) BY <1>1 DEF NetInv, Wires
<1>5. S \in SUBSET (Ref \cup {0}) /\ (\A a, b \in S : a = b) BY DEF NetInv, NetTypes, Wires
<1>6. Closing(old, S) BY <1>5, OldCloses
<1>7. ASSUME NEW replies \in Seq(Reply), NEW now \in SUBSET (Ref \cup {0}),
             \A a, b \in now : a = b, AnsweredBy(replies, now),
             \A r \in S : now = {r} \/ TellsEnd(replies, r), Answer(replies, now)
      PROVE  NetInv' /\ LinksKept
  BY <1>1, <1>3, <1>4, <1>7, AnswerStep
<1>8. ASSUME UNCHANGED <<down, joined>> PROVE NetInv' /\ LinksKept
  <2>1. NetTypes' BY <1>1, <1>3, <1>8 DEF NetInv, NetTypes
  <2>2. \A j \in Conn : Quiet(j)' <=> Quiet(j) BY <1>1 DEF Quiet
  <2>3. Wires' BY <1>3, <1>4, <1>8, <2>2 DEF NetInv, Wires
  <2>4. Answered' BY <1>8 DEF NetInv, Answered
  <2>5. LinksKept BY <1>1, <1>8 DEF LinksKept, Linked, Broken
  <2> QED BY <2>1, <2>3, <2>4, <2>5 DEF NetInv
<1>9. /\ m.event \in {"phx_join", "phx_leave", "push"}
      /\ m.event = "push" => m.ref \in Push
      /\ m.event # "push" => m.ref \in Ref \cup {0}
  BY <1>2 DEF Sent, Message
<1>10. \/ /\ m.event = "phx_join"
          /\ \/ Answer(old \o <<Msg("ok", m.ref)>>, {m.ref})
             \/ Answer(old \o <<Msg("mismatch", m.ref)>>, {m.ref})
             \/ Answer(old \o <<Msg("error", m.ref)>>, {})
             \/ Answer(old, {})
       \/ m.event = "phx_leave" /\ m.ref \in S /\ Answer(<<Msg("phx_close", m.ref)>>, {})
       \/ UNCHANGED <<down, joined>>
       \/ m.event = "push" /\ Answer(<<Msg(IF S # {} THEN "ok" ELSE "error", m.ref)>>, S)
  BY DEF Serve
<1> HIDE DEF m, S, old, Answer
<1>11. ASSUME m.event = "phx_join", NEW e \in {"ok", "mismatch", "error"},
              NEW now \in {{}, {m.ref}},
              e = "ok" => now = {m.ref}, Answer(old \o <<Msg(e, m.ref)>>, now)
       PROVE  NetInv' /\ LinksKept
  <2>1. m.ref \in Ref \cup {0} BY <1>9, <1>11
  <2>2. <<Msg(e, m.ref)>> \in Seq(Reply) /\ AnsweredBy(<<Msg(e, m.ref)>>, now)
    BY <1>11, <2>1, OneReply
  <2>3. /\ old \o <<Msg(e, m.ref)>> \in Seq(Reply) /\ AnsweredBy(old \o <<Msg(e, m.ref)>>, now)
        /\ \A r \in S : TellsEnd(old \o <<Msg(e, m.ref)>>, r)
    BY <1>6, <2>2, ClosingThen
  <2>4. now \in SUBSET (Ref \cup {0}) /\ \A a, b \in now : a = b BY <1>11, <2>1
  <2> QED BY <1>7, <1>11, <2>3, <2>4
<1>12. ASSUME Answer(old, {}) PROVE NetInv' /\ LinksKept
  <2>1. /\ old \in Seq(Reply) /\ AnsweredBy(old, {})
        /\ \A r \in S : TellsEnd(old, r)
    BY <1>6 DEF Closing, AnsweredBy, TellsEnd
  <2>2. {} \in SUBSET (Ref \cup {0}) /\ \A a, b \in {} : a = b OBVIOUS
  <2> QED BY <1>7, <1>12, <2>1, <2>2
<1>13. ASSUME m.event = "phx_leave", m.ref \in S, Answer(<<Msg("phx_close", m.ref)>>, {})
       PROVE  NetInv' /\ LinksKept
  <2>1. m.ref \in Ref \cup {0} BY <1>9, <1>13
  <2>2. /\ <<Msg("phx_close", m.ref)>> \in Seq(Reply) /\ AnsweredBy(<<Msg("phx_close", m.ref)>>, {})
        /\ TellsEnd(<<Msg("phx_close", m.ref)>>, m.ref)
    BY <2>1, OneReply
  <2>3. \A r \in S : r = m.ref BY <1>5, <1>13
  <2>4. {} \in SUBSET (Ref \cup {0}) /\ \A a, b \in {} : a = b OBVIOUS
  <2> QED BY <1>7, <1>13, <2>2, <2>3, <2>4
<1>14. ASSUME m.event = "push", NEW e \in {"ok", "error"}, Answer(<<Msg(e, m.ref)>>, S)
       PROVE  NetInv' /\ LinksKept
  <2>1. m.ref \in Push BY <1>9, <1>14
  <2>2. <<Msg(e, m.ref)>> \in Seq(Reply) /\ AnsweredBy(<<Msg(e, m.ref)>>, S)
    BY <2>1, OneReply
  <2>3. \A r \in S : S = {r} BY <1>5
  <2> QED BY <1>5, <1>7, <1>14, <2>2, <2>3
<1> QED BY <1>8, <1>10, <1>11, <1>12, <1>13, <1>14

\* The server ends a join.
LEMMA ServerDropsStep ==
    ASSUME NetInv, NEW k \in Conn, ServerDrops(k)
    PROVE  NetInv' /\ LinksKept
<1>1. PICK r \in joined[k], e \in {"phx_error", "phx_close"} :
          down' = [down EXCEPT ![k] = Append(@, Msg(e, r))]
  BY DEF ServerDrops
<1>2. r \in Ref \cup {0} /\ joined[k] = {r} BY DEF NetInv, NetTypes, Wires
<1>3. /\ <<Msg(e, r)>> \in Seq(Reply) /\ AnsweredBy(<<Msg(e, r)>>, {})
      /\ TellsEnd(<<Msg(e, r)>>, r)
  BY <1>2, OneReply
<1>4. ~Quiet(k) BY <1>2 DEF NetInv, Wires
<1>5. Append(down[k], Msg(e, r)) = down[k] \o <<Msg(e, r)>>
  <2>1. down[k] \in Seq(Reply) /\ Msg(e, r) \in Reply BY <1>2, MsgReply DEF NetInv, NetTypes
  <2> QED BY <2>1, AppendIsConcat
<1>6. /\ down' = [down EXCEPT ![k] = @ \o <<Msg(e, r)>>] /\ joined' = [joined EXCEPT ![k] = {}]
      /\ UNCHANGED <<up, conn, ready, sendBuffer>>
  BY <1>1, <1>5 DEF ServerDrops
<1>7. up' \in [Conn -> Seq(Sent)] /\ \A j \in Conn \ {k} : up'[j] = up[j]
  BY <1>6 DEF NetInv, NetTypes
<1>8. \A s : joined[k] = {s} => {} = {s} \/ TellsEnd(<<Msg(e, r)>>, s) BY <1>2, <1>3
<1>9. {} \in SUBSET (Ref \cup {0}) /\ \A a, b \in {} : a = b OBVIOUS
<1> QED BY <1>3, <1>4, <1>6, <1>7, <1>8, <1>9, AnswerStep

\* The client takes a message: it came over the current WebSocket.
LEMMA ArrivesStep ==
    ASSUME NetInv, NEW k \in Conn, NEW kinds, Arrives(k, kinds), Sends
    PROVE  /\ NetInv' /\ k = conn /\ UNCHANGED <<conn, ready>>
           /\ Head(down[k]) \in Reply /\ Head(down[k]) = down[k][1]
           /\ \A r : Linked(r) => Linked(r)' \/ Ends(down[k], 1, r)
           /\ \A r : Head(down[k]).event = "ok" /\ Head(down[k]).ref = r /\ r \notin Push =>
                 Linked(r)'
<1>1. /\ ready[k] = "open" /\ down[k] # <<>> /\ down' = [down EXCEPT ![k] = Tail(@)]
      /\ UNCHANGED <<conn, ready, joined>>
  BY DEF Arrives
<1>2. ~Quiet(k) /\ k = conn BY <1>1 DEF NetInv, Wires, Quiet
<1>3. down[k] \in Seq(Reply) /\ AnsweredBy(down[k], joined[k]) BY DEF NetInv, NetTypes, Answered
<1>4. /\ Tail(down[k]) \in Seq(Reply) /\ AnsweredBy(Tail(down[k]), joined[k])
      /\ Head(down[k]) = down[k][1] /\ Head(down[k]) \in Reply
      /\ Head(down[k]).event = "ok" /\ Head(down[k]).ref \notin Push =>
            joined[k] = {Head(down[k]).ref} \/ TellsEnd(Tail(down[k]), Head(down[k]).ref)
      /\ \A r : TellsEnd(down[k], r) => Ends(down[k], 1, r) \/ TellsEnd(Tail(down[k]), r)
  BY <1>1, <1>3, AnsweredLess DEF TellsEnd
<1>5. /\ down' \in [Conn -> Seq(Reply)] /\ down'[k] = Tail(down[k])
      /\ \A j \in Conn \ {k} : down'[j] = down[j]
  BY <1>1, <1>4 DEF NetInv, NetTypes
<1>6. NetTypes' BY <1>1, <1>5 DEF NetInv, NetTypes, Sends
<1>7. Wires'
  <2>1. \A j \in Conn : Quiet(j)' <=> Quiet(j) BY <1>1 DEF Quiet
  <2>2. \A j \in Conn \ {k} : up'[j] = up[j] BY <1>1, <1>2 DEF Sends
  <2> QED BY <1>1, <1>2, <1>5, <2>1, <2>2 DEF NetInv, Wires
<1>8. Answered' BY <1>1, <1>4, <1>5 DEF NetInv, Answered
<1>9. conn # 0 BY <1>2, ConnNotZero
<1>10. Broken => Broken' BY <1>1 DEF Broken
<1>11. ASSUME NEW r, Linked(r) PROVE Linked(r)' \/ Ends(down[k], 1, r)
  <2>1. CASE Broken BY <1>1, <1>9, <1>10, <2>1 DEF Linked
  <2>2. CASE joined[k] = {r} BY <1>1, <1>2, <1>9, <2>2 DEF Linked
  <2>3. CASE TellsEnd(down[k], r) BY <1>1, <1>2, <1>4, <1>5, <1>9, <2>3 DEF Linked
  <2> QED BY <1>2, <1>11, <2>1, <2>2, <2>3 DEF Linked
<1>12. ASSUME NEW r, Head(down[k]).event = "ok", Head(down[k]).ref = r, r \notin Push
       PROVE  Linked(r)'
  <2>1. joined[k] = {r} \/ TellsEnd(Tail(down[k]), r) BY <1>4, <1>12
  <2>2. joined'[k] = joined[k] /\ down'[k] = Tail(down[k]) /\ ready'[k] = "open" /\ conn' = k
    BY <1>1, <1>2, <1>5
  <2> QED BY <1>2, <1>9, <2>1, <2>2 DEF Linked
<1> QED BY <1>1, <1>2, <1>4, <1>6, <1>7, <1>8, <1>11, <1>12 DEF NetInv
-----------------------------------------------------------------------------
(* What is flushed. *)

\* Induction over the naturals, for a set.
LEMMA NatSetInduction ==
    ASSUME NEW S, 0 \in S, \A n \in Nat : n \in S => n + 1 \in S
    PROVE  Nat \subseteq S
<1> SUFFICES ASSUME Nat \ S # {} PROVE FALSE
  OBVIOUS
<1> DEFINE smaller == OpToRel(<, Nat)
<1>1. IsWellFoundedOn(smaller, Nat)
  BY NatLessThanWellFounded
<1>2. PICK x \in Nat \ S : \A y \in Nat \ S : ~(<<y, x>> \in smaller)
  <2> HIDE DEF smaller
  <2> QED BY <1>1, WFMin
<1>3. \A y \in Nat \ S : ~(y < x)
  BY <1>2 DEF OpToRel
<1>4. x # 0 /\ x - 1 \in Nat /\ x - 1 < x
  OBVIOUS
<1>5. x - 1 \in S
  BY <1>3, <1>4
<1> QED BY <1>4, <1>5

\* The messages of the first n pushes of a buffer.
FlushedUpTo(buffer, n, f) ==
    f = [i \in 0..n |->
           IF i = 0 THEN <<>>
           ELSE IF StillWanted(buffer[i]) THEN Append(f[i - 1], Msg("push", buffer[i]))
           ELSE f[i - 1]]

\* Every element of the function is a sequence of messages.
LEMMA FlushedSent ==
    ASSUME NEW buffer \in Seq(Push)
    PROVE  Flushed(buffer) \in Seq(Sent)
<1> DEFINE step(i, before) ==
              IF StillWanted(buffer[i]) THEN Append(before, Msg("push", buffer[i])) ELSE before
           N == Len(buffer)
           S == {n \in Nat : n <= N =>
                   \E f : FlushedUpTo(buffer, n, f) /\ f[n] \in Seq(Sent)}
<1>1. N \in Nat OBVIOUS
<1>2. 0 \in S
  <2> DEFINE f == [i \in 0..0 |-> <<>>]
  <2>1. f = [i \in 0..0 |-> IF i = 0 THEN <<>> ELSE step(i, f[i - 1])]
    OBVIOUS
  <2>2. FlushedUpTo(buffer, 0, f) BY <2>1 DEF FlushedUpTo
  <2>3. f[0] \in Seq(Sent) OBVIOUS
  <2> QED BY <2>2, <2>3
<1>3. ASSUME NEW n \in Nat, n \in S PROVE n + 1 \in S
  <2> SUFFICES ASSUME n + 1 <= N
               PROVE  \E f : FlushedUpTo(buffer, n + 1, f) /\ f[n + 1] \in Seq(Sent)
    OBVIOUS
  <2>1. n <= N BY <1>1
  <2>2. PICK f : FlushedUpTo(buffer, n, f) /\ f[n] \in Seq(Sent)
    BY <1>3, <2>1
  <2> HIDE DEF step, N
  <2> DEFINE g == [i \in 0..(n + 1) |-> IF i = n + 1 THEN step(n + 1, f[n]) ELSE f[i]]
  <2>3. \A i \in 0..n : g[i] = f[i]
    OBVIOUS
  <2>4. \A i \in 0..n : f[i] = IF i = 0 THEN <<>> ELSE step(i, f[i - 1])
    BY <2>2 DEF FlushedUpTo, step
  <2>5. \A i \in 0..(n + 1) : g[i] = IF i = 0 THEN <<>> ELSE step(i, g[i - 1])
    <3> SUFFICES ASSUME NEW i \in 0..(n + 1)
                 PROVE  g[i] = IF i = 0 THEN <<>> ELSE step(i, g[i - 1])
      OBVIOUS
    <3>1. CASE i = n + 1
      <4>1. g[i] = step(n + 1, f[n]) /\ g[i - 1] = f[n] /\ i # 0
        BY <3>1
      <4> QED BY <3>1, <4>1
    <3>2. CASE i = 0
      BY <2>3, <2>4, <3>2
    <3>3. CASE i \in 1..n
      <4>1. g[i] = f[i] /\ g[i - 1] = f[i - 1] /\ i # 0
        BY <2>3, <3>3
      <4> QED BY <2>4, <3>3, <4>1
    <3> QED BY <3>1, <3>2, <3>3
  <2>6. g = [i \in 0..(n + 1) |-> IF i = 0 THEN <<>> ELSE step(i, g[i - 1])]
    BY <2>5
  <2>7. g[n + 1] = step(n + 1, f[n])
    OBVIOUS
  <2> HIDE DEF g
  <2>8. FlushedUpTo(buffer, n + 1, g)
    BY <2>6 DEF FlushedUpTo, step
  <2>9. g[n + 1] \in Seq(Sent)
    <3>1. buffer[n + 1] \in Push
      <4>1. n + 1 \in 1..N BY <1>1
      <4> QED BY <4>1 DEF N
    <3>2. Msg("push", buffer[n + 1]) \in Sent BY <3>1, MsgSent
    <3> QED BY <2>2, <2>7, <3>2, AppendProperties DEF step
  <2> QED BY <2>8, <2>9
<1> HIDE DEF S
<1>4. N \in S BY <1>1, <1>2, <1>3, NatSetInduction
<1>5. PICK f : FlushedUpTo(buffer, N, f) /\ f[N] \in Seq(Sent)
  BY <1>1, <1>4 DEF S
<1> DEFINE h == CHOOSE h : h = [i \in 0..N |->
                     IF i = 0 THEN <<>>
                     ELSE IF StillWanted(buffer[i]) THEN Append(h[i - 1], Msg("push", buffer[i]))
                     ELSE h[i - 1]]
<1>6. Flushed(buffer) = h[N] BY DEF Flushed
<1> HIDE DEF N
<1>7. FlushedUpTo(buffer, N, h)
  <2>1. f = [i \in 0..N |->
               IF i = 0 THEN <<>>
               ELSE IF StillWanted(buffer[i]) THEN Append(f[i - 1], Msg("push", buffer[i]))
               ELSE f[i - 1]]
    BY <1>5, Zenon DEF FlushedUpTo
  <2> QED BY <2>1 DEF FlushedUpTo
<1> HIDE DEF h
<1>8. h[N] = f[N]
  <2> DEFINE T == {n \in Nat : n <= N => h[n] = f[n]}
  <2>1. /\ \A i \in 0..N : h[i] = IF i = 0 THEN <<>> ELSE step(i, h[i - 1])
        /\ \A i \in 0..N : f[i] = IF i = 0 THEN <<>> ELSE step(i, f[i - 1])
    BY <1>5, <1>7 DEF FlushedUpTo, step
  <2> HIDE DEF step
  <2>2. 0 \in T BY <1>1, <2>1
  <2>3. ASSUME NEW n \in Nat, n \in T PROVE n + 1 \in T
    <3> SUFFICES ASSUME n + 1 <= N PROVE h[n + 1] = f[n + 1]
      OBVIOUS
    <3>1. n + 1 \in 0..N /\ n <= N /\ (n + 1) - 1 = n /\ n + 1 # 0 BY <1>1
    <3>2. h[n] = f[n] BY <2>3, <3>1
    <3> QED BY <2>1, <3>1, <3>2
  <2> HIDE DEF T
  <2>4. N \in T BY <1>1, <2>2, <2>3, NatSetInduction
  <2> QED BY <1>1, <2>4 DEF T
<1> QED BY <1>5, <1>6, <1>8
-----------------------------------------------------------------------------
(* The channels and the WebSockets together. *)

\* The socket has one channel of the topic; when that is joined, it has its bindings, and the
\* join stands on the server or news of its end is on its way.
Members ==
    /\ \A c, d \in Routed : c = d
    /\ \A c \in Routed :
          chan[c].state = "joined" => chan[c].intact /\ Linked(chan[c].joinRef)

\* The channels are records, with no more in their buffers than fits.
Records == \A c \in Channel : Fcn(chan[c]) /\ Len(chan[c].pushBuffer) <= MaxBuffer

Joint == NetInv /\ Members /\ Records

LEMMA KeptRecords ==
    ASSUME Inv, Records, AllKept(chan, chan'), AllCalm(chan, chan')
    PROVE  Records'
<1> SUFFICES ASSUME NEW c \in Channel PROVE Fcn(chan'[c]) /\ Len(chan'[c].pushBuffer) <= MaxBuffer
  BY DEF Records
<1>1. Fcn(chan[c]) /\ Len(chan[c].pushBuffer) <= MaxBuffer BY DEF Records
<1>2. Fcn(chan'[c]) BY <1>1 DEF AllCalm, Calm
<1>3. chan'[c].pushBuffer \in {chan[c].pushBuffer, <<>>} BY DEF AllKept, Kept
<1>4. Len(<<>>) = 0 /\ MaxBuffer >= 0 BY ChannelAssumption DEF ChannelAssumption
<1> QED BY <1>1, <1>2, <1>3, <1>4

\* A step that takes no link away and joins no channel.
LEMMA CalmMembers ==
    ASSUME Inv, Members, UNCHANGED created, LinksKept, AllCalm(chan, chan')
    PROVE  Members'
<1>1. ASSUME NEW c \in Routed'
      PROVE  /\ c \in Routed
             /\ chan'[c].state = "joined" =>
                   /\ chan[c].state = "joined" /\ chan'[c].joinRef = chan[c].joinRef
                   /\ chan'[c].intact = chan[c].intact
  <2>1. c \in created /\ c \in Channel /\ chan'[c].routed BY DEF Routed, Inv
  <2> QED BY <2>1 DEF Routed, AllCalm, Calm
<1>2. ASSUME NEW c \in Routed', chan'[c].state = "joined"
      PROVE  chan'[c].intact /\ Linked(chan[c].joinRef)'
  <2>1. /\ chan[c].intact /\ Linked(chan[c].joinRef)
        /\ chan'[c].joinRef = chan[c].joinRef /\ chan'[c].intact
    BY <1>1, <1>2 DEF Members
  <2> DEFINE r == chan[c].joinRef
  <2>2. \A x : Linked(x) => Linked(x)' BY DEF LinksKept
  <2>3. \A x : x = r => Linked(x) /\ x = r' BY <2>1
  <2> HIDE DEF r
  <2>4. \A x : x = r' => Linked(x)' BY <2>2, <2>3
  <2>5. Linked(r)' BY <2>4
  <2> QED BY <2>1, <2>5 DEF r
<1>3. \A c, d \in Routed' : c = d BY <1>1 DEF Members
<1> QED BY <1>2, <1>3 DEF Members

LEMMA CalmStep ==
    ASSUME Inv, Members, Records, UNCHANGED created, LinksKept,
           AllKept(chan, chan'), AllCalm(chan, chan')
    PROVE  Members' /\ Records'
BY CalmMembers, KeptRecords

\* One after which no channel of the socket is joined.
LEMMA PartedStep ==
    ASSUME Inv, Members, Records, UNCHANGED created,
           AllKept(chan, chan'), AllCalm(chan, chan'),
           \A c \in Routed : chan[c].intact /\ chan'[c].routed => chan'[c].state # "joined"
    PROVE  Members' /\ Records'
<1>1. ASSUME NEW c \in Routed'
      PROVE  c \in Routed /\ chan'[c].state # "joined"
  <2>1. c \in created /\ c \in Channel /\ chan'[c].routed BY DEF Routed, Inv
  <2>2. c \in Routed BY <2>1 DEF Routed, AllCalm, Calm
  <2>3. chan'[c].state = "joined" => chan[c].state = "joined" BY <2>1 DEF AllCalm, Calm
  <2> QED BY <2>1, <2>2, <2>3 DEF Members
<1>2. Records' BY KeptRecords
<1> QED BY <1>1, <1>2 DEF Members

LEMMA LinksUnchanged ==
    ASSUME UNCHANGED <<conn, ready, down, joined>>
    PROVE  LinksKept
BY DEF LinksKept, Linked, Broken

\* connect takes no link away: a link needs a connection, or one that broke.
LEMMA ConnectLinks ==
    ASSUME NetInv, Connect, UNCHANGED <<down, joined>>
    PROVE  LinksKept
<1>1. CASE UNCHANGED <<conn, ready>> BY <1>1, LinksUnchanged
<1>2. CASE ~Connected /\ conn' # 0 /\ \A k \in Conn : ready'[k] # ready[k] => ready[k] = "none"
  <2>1. Broken => Broken' BY <1>2 DEF Broken
  <2>2. \A r : Linked(r) => Broken BY <1>2 DEF Linked, Connected
  <2>3. Broken' => \A r : Linked(r)' BY <1>2 DEF Linked
  <2> QED BY <2>1, <2>2, <2>3 DEF LinksKept
<1> QED BY <1>1, <1>2, ConnectStep DEF NetInv

\* A step that leaves the network and the channels as they are.
LEMMA StillStep ==
    ASSUME Inv, Joint, UNCHANGED <<chan, created, conn, ready, up, down, joined, sendBuffer>>
    PROVE  Joint'
<1>1. Sends BY SilentSends DEF Joint, NetInv
<1>2. NetInv' BY <1>1, SendingOnly DEF Joint
<1>3. LinksKept BY LinksUnchanged
<1>4. AllKept(chan, chan') BY DEF Inv, Channels, AllKept, Kept
<1>5. AllCalm(chan, chan') BY SameCalm
<1> QED BY <1>2, <1>3, <1>4, <1>5, CalmStep DEF Joint

\* One that changes the channels alone.
LEMMA HandlerStep ==
    ASSUME Inv, Joint, UNCHANGED <<created, conn, ready, up, down, joined, sendBuffer>>,
           AllKept(chan, chan'), AllCalm(chan, chan')
    PROVE  Joint'
<1>1. Sends BY SilentSends DEF Joint, NetInv
<1>2. NetInv' BY <1>1, SendingOnly DEF Joint
<1>3. LinksKept BY LinksUnchanged
<1> QED BY <1>2, <1>3, CalmStep DEF Joint

\* One that leaves the channels as they are, and every link.
LEMMA NetStep ==
    ASSUME Inv, Joint, UNCHANGED <<chan, created>>, NetInv', LinksKept
    PROVE  Joint'
<1>1. AllKept(chan, chan') BY DEF Inv, Channels, AllKept, Kept
<1>2. AllCalm(chan, chan') BY SameCalm
<1> QED BY <1>1, <1>2, CalmStep DEF Joint

\* One that does no more than connect.
LEMMA ConnectsStep ==
    ASSUME Inv, Joint, Connect, UNCHANGED <<chan, created, up, down, joined, sendBuffer>>
    PROVE  Joint'
<1>1. Sends BY SilentSends DEF Joint, NetInv
<1>2. NetInv' BY <1>1, ConnectStep, SendingStep DEF Joint, NetInv
<1>3. LinksKept BY ConnectLinks DEF Joint
<1> QED BY <1>2, <1>3, NetStep
-----------------------------------------------------------------------------
(* The calls of the application. *)

\* What _rejoin sends.
LEMMA RejoinSends ==
    ASSUME Inv, NetTypes, NEW c \in Channel, Rejoin(c), Connected => UNCHANGED <<conn, ready>>
    PROVE  Sends
<1> DEFINE ch == Resent([AfterLeaveOpenTopic[c] EXCEPT !.state = "joining", !.joinedOnce = TRUE],
                        NewRef)
           msgs == LeaveOpenTopicMessages \o <<Msg("phx_join", ch.joinRef)>>
<1>1. AllKept(chan, AfterLeaveOpenTopic) BY LeaveOpenTopicKept
<1>2. Sound(AfterLeaveOpenTopic[c]) BY <1>1, KeptChannels DEF Channels
<1>3. ch.joinRef \in Ref \cup {0}
  BY <1>2, ResentKept, NewRefIsRef DEF Rejoin, Kept, Sound, Shape
<1>4. Transmit(msgs) BY DEF Rejoin
<1> HIDE DEF ch
<1>5. LeaveOpenTopicMessages \in Seq(Sent)
  <2>1. CASE OpenOfTopic = {}
    <3>1. LeaveOpenTopicMessages = <<>> BY <2>1 DEF LeaveOpenTopicMessages
    <3> QED BY <3>1
  <2>2. CASE OpenOfTopic # {}
    <3> DEFINE d == CHOOSE d \in OpenOfTopic : TRUE
    <3>1. d \in Channel BY <2>2 DEF OpenOfTopic, Routed, Inv
    <3>2. LeaveOpenTopicMessages = <<Msg("phx_leave", chan[d].joinRef)>>
      BY <2>2 DEF LeaveOpenTopicMessages
    <3> HIDE DEF d
    <3>3. chan[d].joinRef \in Ref \cup {0} BY <3>1 DEF Inv, Channels, Sound, Shape
    <3>4. Msg("phx_leave", chan[d].joinRef) \in Sent BY <3>3, MsgSent
    <3> QED BY <3>2, <3>4
  <2> QED BY <2>1, <2>2
<1>6. Msg("phx_join", ch.joinRef) \in Sent BY <1>3, MsgSent
<1>7. <<Msg("phx_join", ch.joinRef)>> \in Seq(Sent) BY <1>6
<1>8. msgs \in Seq(Sent) BY <1>5, <1>7, ConcatProperties
<1> HIDE DEF msgs
<1> QED BY <1>4, <1>8, TransmitSends

\* subscribe.
LEMMA SubscribeJoint ==
    ASSUME Inv, Joint, NEW c \in Channel, Subscribe(c)
    PROVE  Joint'
<1>1. Connect /\ UNCHANGED <<created, down, joined>> BY DEF Subscribe
<1>2. CASE UNCHANGED <<chan, up, sendBuffer>> BY <1>1, <1>2, ConnectsStep
<1>3. CASE Rejoin(c)
  <2>1. /\ conn' \in Conn \cup {0} /\ ready' \in [Conn -> ReadyState]
        /\ Connected => UNCHANGED <<conn, ready>>
        /\ \A k \in Conn : Quiet(k)' => Quiet(k)
    BY <1>1, ConnectStep DEF Joint, NetInv
  <2>2. Sends BY <1>3, <2>1, RejoinSends DEF Joint, NetInv
  <2>3. NetInv' BY <1>1, <2>1, <2>2, SendingStep DEF Joint
  <2>4. LinksKept BY <1>1, ConnectLinks DEF Joint
  <2>5. AllKept(chan, chan') /\ AllCalm(chan, chan') BY <1>3, RejoinKept, RejoinCalm
  <2> QED BY <1>1, <2>3, <2>4, <2>5, CalmStep DEF Joint
<1> QED BY <1>2, <1>3 DEF Subscribe

\* A step that sends over the WebSockets as they are, and joins no channel.
LEMMA SpeakingStep ==
    ASSUME Inv, Joint, UNCHANGED <<created, conn, ready, down, joined>>, Sends,
           AllKept(chan, chan'), AllCalm(chan, chan')
    PROVE  Joint'
<1>1. NetInv' BY SendingOnly DEF Joint
<1>2. LinksKept BY LinksUnchanged
<1> QED BY <1>1, <1>2, CalmStep DEF Joint

\* unsubscribe.
LEMMA UnsubscribeJoint ==
    ASSUME Inv, Joint, NEW c \in Channel, chan' = Unsubscribed(chan, c),
           Transmit(<<Msg("phx_leave", chan[c].joinRef)>>),
           UNCHANGED <<created, conn, ready, down, joined>>
    PROVE  Joint'
<1>1. chan[c].joinRef \in Ref \cup {0} BY DEF Inv, Channels, Sound, Shape
<1>2. Msg("phx_leave", chan[c].joinRef) \in Sent BY <1>1, MsgSent
<1>3. <<Msg("phx_leave", chan[c].joinRef)>> \in Seq(Sent) BY <1>2
<1>4. Sends BY <1>3, TransmitSends DEF Joint, NetInv
<1>5. AllKept(chan, chan') /\ AllCalm(chan, chan')
  BY UnsubscribedKept, UnsubscribedCalm DEF Inv
<1> QED BY <1>4, <1>5, SpeakingStep

LEMMA RemoveJoint ==
    ASSUME Inv, Joint, RemoveAllChannels \/ \E c \in Channel : RemoveChannel(c)
    PROVE  Joint'
<1>1. ASSUME NEW c \in Channel, RemoveChannel(c) PROVE Joint'
  BY <1>1, UnsubscribeJoint DEF RemoveChannel
<1>2. CASE RemoveAllChannels
  <2>1. UNCHANGED <<created, conn, ready, down, joined>> BY <1>2 DEF RemoveAllChannels
  <2>2. CASE Routed = {}
    BY <1>2, <2>1, <2>2, StillStep DEF RemoveAllChannels
  <2>3. CASE Routed # {}
    <3> DEFINE d == CHOOSE d \in Routed : TRUE
    <3>1. d \in Channel BY <2>3 DEF Routed, Inv
    <3>2. chan' = Unsubscribed(chan, d) /\ Transmit(<<Msg("phx_leave", chan[d].joinRef)>>)
      BY <1>2, <2>3 DEF RemoveAllChannels
    <3> HIDE DEF d
    <3> QED BY <2>1, <3>1, <3>2, UnsubscribeJoint
  <2> QED BY <2>2, <2>3
<1> QED BY <1>1, <1>2

\* channel(): the new object is the only one of the socket, and not joined.
LEMMA CreateJoint ==
    ASSUME Inv, Joint, CreateChannel
    PROVE  Joint'
<1> DEFINE c == NextChannel
<1>1. \E d \in Channel : d \notin created BY DEF CreateChannel, Inv
<1>2. c \in Channel BY <1>1 DEF NextChannel
<1>3. /\ created' = created \cup {c} /\ Routed = {}
      /\ chan' = [chan EXCEPT ![c] = NewChannel]
      /\ UNCHANGED <<conn, ready, up, down, joined, sendBuffer>>
  BY DEF CreateChannel, netVars
<1> HIDE DEF c
<1>4. chan' = [d \in Channel |-> IF d = c THEN NewChannel ELSE chan[d]]
  BY <1>3 DEF Inv, Channels
<1>5. Fcn(NewChannel) /\ Len(NewChannel.pushBuffer) = 0 /\ NewChannel.state = "closed"
  BY SMT DEF Fcn, NewChannel
<1> HIDE DEF NewChannel
<1>6. Records'
  <2>1. MaxBuffer >= 0 BY ChannelAssumption DEF ChannelAssumption
  <2> QED BY <1>2, <1>4, <1>5, <2>1 DEF Joint, Records
<1>7. \A d \in Routed' : d = c
  BY <1>3, <1>4 DEF Routed, Inv
<1>8. Members'
  BY <1>2, <1>4, <1>5, <1>7 DEF Members
<1>9. Sends BY <1>3, SilentSends DEF Joint, NetInv
<1>10. NetInv' BY <1>3, <1>9, SendingOnly DEF Joint
<1> QED BY <1>6, <1>8, <1>10 DEF Joint

\* A push is sent or buffered.
LEMMA SendPushJoint ==
    ASSUME Inv, Joint, NEW p \in Push, SendPush(p)
    PROVE  Joint'
<1> DEFINE c == Owner[p]
<1>1. c \in Channel BY ClientAssumption DEF ClientAssumption
<1>2. UNCHANGED <<created, conn, ready, down, joined>> BY DEF SendPush
<1>3. CASE Transmit(<<Msg("push", p)>>) /\ UNCHANGED chan
  <2>1. <<Msg("push", p)>> \in Seq(Sent) BY MsgSent
  <2>2. Sends BY <1>2, <1>3, <2>1, TransmitSends DEF Joint, NetInv
  <2>3. AllKept(chan, chan') BY <1>3 DEF Inv, Channels, AllKept, Kept
  <2>4. AllCalm(chan, chan') BY <1>3, SameCalm
  <2> QED BY <1>2, <2>2, <2>3, <2>4, SpeakingStep
<1>4. CASE /\ chan' = [chan EXCEPT ![c].pushBuffer = Buffered(chan[c], p)]
           /\ UNCHANGED <<up, sendBuffer>>
  <2> DEFINE old == chan[c].pushBuffer
             new == Buffered(chan[c], p)
             ch == [chan[c] EXCEPT !.pushBuffer = new]
  <2>1. Sound(chan[c]) /\ old \in Seq(Push) /\ Len(old) <= MaxBuffer
    BY <1>1 DEF Inv, Channels, Sound, Shape, Joint, Records
  <2>2. new \in Seq(Push) /\ Len(new) <= MaxBuffer
    <3> DEFINE more == Append(old, p)
    <3>1. more \in Seq(Push) /\ Len(more) = Len(old) + 1 /\ more # <<>>
      BY <2>1, AppendProperties
    <3>2. Tail(more) \in Seq(Push) /\ Len(Tail(more)) = Len(more) - 1
      BY <3>1, HeadTailProperties
    <3>3. new = IF Len(old) < MaxBuffer THEN more ELSE Tail(more) BY DEF Buffered
    <3>4. Len(old) \in Nat /\ MaxBuffer \in Nat
      BY <2>1, ChannelAssumption DEF ChannelAssumption
    <3> HIDE DEF new, more, old
    <3> QED BY <2>1, <3>1, <3>2, <3>3, <3>4
  <2>3. chan' = [d \in Channel |-> IF d = c THEN ch ELSE chan[d]]
    BY <1>1, <1>4 DEF Inv, Channels
  <2>4. ch.pushBuffer = new BY <2>1, <2>2, BufferSound
  <2>5. Calm(chan[c], ch) BY <2>1, BufferCalm
  <2> HIDE DEF c, old, new, ch
  <2>6. AllCalm(chan, chan') BY <1>1, <2>3, <2>5 DEF AllCalm, Calm
  <2>7. Records'
    <3> SUFFICES ASSUME NEW d \in Channel
                 PROVE  Fcn(chan'[d]) /\ Len(chan'[d].pushBuffer) <= MaxBuffer
      BY DEF Records
    <3>1. Fcn(chan[d]) /\ Len(chan[d].pushBuffer) <= MaxBuffer BY DEF Joint, Records
    <3>2. Fcn(chan'[d]) BY <3>1, <2>6 DEF AllCalm, Calm
    <3>3. Len(chan'[d].pushBuffer) <= MaxBuffer BY <2>2, <2>3, <2>4, <3>1
    <3> QED BY <3>2, <3>3
  <2>8. Sends BY <1>4, SilentSends DEF Joint, NetInv
  <2>9. NetInv' BY <1>2, <2>8, SendingOnly DEF Joint
  <2>10. LinksKept BY <1>2, LinksUnchanged
  <2>11. Members' BY <1>2, <2>6, <2>10, CalmMembers DEF Joint
  <2> QED BY <2>7, <2>9, <2>11 DEF Joint
<1> QED BY <1>3, <1>4 DEF SendPush

\* disconnect, of channels that may have been dropped from the socket before.
LEMMA DisconnectJoint ==
    ASSUME Inv, Joint, NEW chans, AllKept(chan, chans), AllCalm(chan, chans),
           Disconnect(chans), UNCHANGED created
    PROVE  Joint'
<1>1. CASE chan' = chans /\ UNCHANGED <<conn, ready, up, down, joined, sendBuffer>>
  BY <1>1, HandlerStep
<1>2. CASE /\ conn # 0 /\ UNCHANGED sendBuffer
           /\ ready' = [ready EXCEPT ![conn] = "none"] /\ conn' = 0 /\ Gone(conn)
           /\ chan' = [c \in Channel |-> IF chans[c].routed THEN TornDown(chans[c]) ELSE chans[c]]
  <2>1. conn \in Conn BY <1>2 DEF Joint, NetInv, NetTypes
  <2>2. /\ ready' \in [Conn -> ReadyState]
        /\ \A j \in Conn \ {conn} : ready'[j] = ready[j]
    BY <1>2, <2>1 DEF Joint, NetInv, NetTypes, ReadyState
  <2>3. \A j \in Conn \ {conn} : Quiet(j)' => Quiet(j)
    BY <1>2, <2>2, ConnNotZero DEF Quiet
  <2>4. NetInv' BY <1>2, <2>1, <2>2, <2>3, GoneStep DEF Joint
  <2>5. \A c \in Channel : Sound(chans[c]) BY DEF AllKept, Kept
  <2>6. \A c \in Channel :
           /\ Kept(chans[c], chan'[c]) /\ Calm(chans[c], chan'[c])
           /\ chan'[c].routed => chan'[c].state # "joined"
    <3> SUFFICES ASSUME NEW c \in Channel
                 PROVE  /\ Kept(chans[c], chan'[c]) /\ Calm(chans[c], chan'[c])
                        /\ chan'[c].routed => chan'[c].state # "joined"
      OBVIOUS
    <3>1. CASE chans[c].routed
      <4>1. chan'[c] = TornDown(chans[c]) BY <1>2, <3>1
      <4>2. TornDown(chans[c]).state = "closed" BY <2>5, TornDownCalm
      <4> QED BY <2>5, <4>1, <4>2, TornDownKept, TornDownCalm
    <3>2. CASE ~chans[c].routed
      BY <1>2, <2>5, <3>2 DEF Kept, Calm
    <3> QED BY <3>1, <3>2
  <2>7. chan' = [c \in Channel |-> chan'[c]] BY <1>2
  <2>8. AllKept(chan, chan')
    <3>1. AllKept(chans, chan') BY <2>6, <2>7 DEF AllKept
    <3> QED BY <3>1, KeptTransitive
  <2>9. AllCalm(chan, chan')
    <3>1. AllCalm(chans, chan') BY <2>6 DEF AllCalm
    <3> QED BY <3>1, AllCalmTransitive
  <2>10. \A c \in Routed : chan[c].intact /\ chan'[c].routed => chan'[c].state # "joined"
    BY <2>6 DEF Routed, Inv
  <2> QED BY <2>4, <2>8, <2>9, <2>10, PartedStep DEF Joint
<1> QED BY <1>1, <1>2 DEF Disconnect, netVars

\* removeChannel and removeAllChannels after their await.
LEMMA RunTailJoint ==
    ASSUME Inv, Joint, RunTail
    PROVE  Joint'
<1> DEFINE unrouted == [c \in Channel |-> [chan[c] EXCEPT !.routed = FALSE]]
<1>1. UNCHANGED created BY DEF RunTail
<1>2. CASE Disconnect(unrouted)
  <2>1. AllKept(chan, unrouted) /\ AllCalm(chan, unrouted)
    BY AllUnroutedKept, AllUnroutedCalm DEF Inv
  <2> HIDE DEF unrouted
  <2> QED BY <1>1, <1>2, <2>1, DisconnectJoint
<1>3. CASE Disconnect(chan)
  <2>1. AllKept(chan, chan) BY DEF Inv, Channels, AllKept, Kept
  <2> QED BY <1>1, <1>3, <2>1, SameCalm, DisconnectJoint
<1>4. CASE UNCHANGED <<chan, netVars>>
  BY <1>1, <1>4, StillStep DEF netVars
<1> QED BY <1>2, <1>3, <1>4 DEF RunTail

\* The calls of the application.
LEMMA ApplicationJoint ==
    ASSUME Inv, Joint, Application
    PROVE  Joint'
<1>1. CASE CallConnect BY <1>1, ConnectsStep DEF CallConnect
<1>2. CASE CallDisconnect
  <2>1. AllKept(chan, chan) BY DEF Inv, Channels, AllKept, Kept
  <2> QED BY <1>2, <2>1, SameCalm, DisconnectJoint DEF CallDisconnect
<1>3. CASE CreateChannel BY <1>3, CreateJoint
<1>4. CASE RemoveAllChannels BY <1>4, RemoveJoint
<1>5. ASSUME NEW c \in Channel, Subscribe(c) PROVE Joint' BY <1>5, SubscribeJoint
<1>6. ASSUME NEW c \in Channel, RemoveChannel(c) PROVE Joint' BY <1>6, RemoveJoint
<1>7. CASE \E p \in Push : SendPush(p) BY <1>7, SendPushJoint
<1> QED BY <1>1, <1>2, <1>3, <1>4, <1>5, <1>6, <1>7 DEF Application
-----------------------------------------------------------------------------
(* The events of the WebSockets, and the server. *)

\* A WebSocket opens, and what was buffered is sent over the current one.
LEMMA OpenJoint ==
    ASSUME Inv, Joint, NEW k \in Conn, OnConnOpen(k)
    PROVE  Joint'
<1>1. /\ ready[k] = "connecting" /\ ready' = [ready EXCEPT ![k] = "open"]
      /\ UNCHANGED <<chan, created, conn, down, joined>>
  BY DEF OnConnOpen
<1>2. ready' \in [Conn -> ReadyState] /\ \A j \in Conn \ {k} : ready'[j] = ready[j]
  BY <1>1 DEF Joint, NetInv, NetTypes, ReadyState
<1>3. Sends
  <2>1. CASE FlushSendBuffer(ready')
    BY <1>1, <2>1, FlushSends DEF Joint, NetInv
  <2>2. CASE UNCHANGED <<up, sendBuffer>>
    BY <2>2, SilentSends DEF Joint, NetInv
  <2> QED BY <1>1, <2>1, <2>2 DEF OnConnOpen
<1>4. \A j \in Conn : Quiet(j)' => Quiet(j)
  BY <1>1, <1>2 DEF Quiet
<1>5. conn' \in Conn \cup {0} BY <1>1 DEF Joint, NetInv, NetTypes
<1>6. NetInv' BY <1>1, <1>2, <1>3, <1>4, <1>5, SendingStep DEF Joint
<1>7. LinksKept
  <2>1. Broken => Broken' BY <1>1, <1>2 DEF Broken
  <2>2. conn # 0 /\ ready[conn] = "open" => ready'[conn] = "open"
    BY <1>1, <1>2, <1>5
  <2> QED BY <1>1, <2>1, <2>2 DEF LinksKept, Linked
<1> QED BY <1>1, <1>6, <1>7, NetStep

LEMMA FlushJoint ==
    ASSUME Inv, Joint, Flush
    PROVE  Joint'
<1>1. UNCHANGED <<chan, created, conn, ready, down, joined>> /\ FlushSendBuffer(ready')
  BY DEF Flush
<1>2. Sends BY <1>1, FlushSends DEF Joint, NetInv
<1>3. NetInv' BY <1>1, <1>2, SendingOnly DEF Joint
<1>4. LinksKept BY <1>1, LinksUnchanged
<1> QED BY <1>1, <1>3, <1>4, NetStep

\* A connection attempt fails, or a WebSocket closes: all channels hear of it.
LEMMA ErrorCloseJoint ==
    ASSUME Inv, Joint, NEW k \in Conn, OnConnError(k) \/ OnConnClose(k)
    PROVE  Joint'
<1>1. UNCHANGED <<created, conn, sendBuffer>> /\ chan' = ChannelsErrored
  BY DEF OnConnError, OnConnClose
<1>2. conn' \in Conn \cup {0} BY <1>1 DEF Joint, NetInv, NetTypes
<1>3. CASE OnConnError(k)
  <2>1. /\ ready[k] = "connecting" /\ ready' = [ready EXCEPT ![k] = "failed"]
        /\ UNCHANGED <<up, down, joined>>
    BY <1>3 DEF OnConnError
  <2>2. ready' \in [Conn -> ReadyState] /\ \A j \in Conn \ {k} : ready'[j] = ready[j]
    BY <2>1 DEF Joint, NetInv, NetTypes, ReadyState
  <2>3. \A j \in Conn : Quiet(j)' => Quiet(j) BY <1>1, <2>1, <2>2 DEF Quiet
  <2>4. Sends BY <1>1, <2>1, SilentSends DEF Joint, NetInv
  <2>5. NetInv' BY <1>2, <2>1, <2>2, <2>3, <2>4, SendingStep DEF Joint
  <2> QED BY <1>1, <2>5, ChannelsErroredKept, ChannelsErroredCalm, PartedStep DEF Joint
<1>4. CASE OnConnClose(k)
  <2>1. ready' = [ready EXCEPT ![k] = "none"] /\ Gone(k)
    BY <1>4 DEF OnConnClose
  <2>2. ready' \in [Conn -> ReadyState] /\ \A j \in Conn \ {k} : ready'[j] = ready[j]
    BY <2>1 DEF Joint, NetInv, NetTypes, ReadyState
  <2>3. \A j \in Conn \ {k} : Quiet(j)' => Quiet(j) BY <1>1, <2>2 DEF Quiet
  <2>4. NetInv' BY <1>1, <1>2, <2>1, <2>2, <2>3, GoneStep DEF Joint
  <2> QED BY <1>1, <2>4, ChannelsErroredKept, ChannelsErroredCalm, PartedStep DEF Joint
<1> QED BY <1>3, <1>4

\* A WebSocket dies: the end of every join is still to come.
LEMMA DiesJoint ==
    ASSUME Inv, Joint, NEW k \in Conn, ConnDies(k)
    PROVE  Joint'
<1>1. /\ ready' = [ready EXCEPT ![k] = "dead"] /\ Gone(k)
      /\ UNCHANGED <<chan, created, conn, sendBuffer>>
  BY DEF ConnDies
<1>2. /\ ready' \in [Conn -> ReadyState] /\ ready'[k] = "dead"
      /\ \A j \in Conn \ {k} : ready'[j] = ready[j]
  BY <1>1 DEF Joint, NetInv, NetTypes, ReadyState
<1>3. \A j \in Conn \ {k} : Quiet(j)' => Quiet(j) BY <1>1, <1>2 DEF Quiet
<1>4. conn' \in Conn \cup {0} BY <1>1 DEF Joint, NetInv, NetTypes
<1>5. NetInv' BY <1>1, <1>2, <1>3, <1>4, GoneStep DEF Joint
<1>6. Broken' BY <1>2 DEF Broken
<1>7. LinksKept BY <1>1, <1>6 DEF LinksKept, Linked
<1> QED BY <1>1, <1>5, <1>7, NetStep

LEMMA ServerJoint ==
    ASSUME Inv, Joint, NEW k \in Conn, Serve(k) \/ ServerDrops(k)
    PROVE  Joint'
<1>1. UNCHANGED <<chan, created>> BY DEF Serve, ServerDrops
<1>2. NetInv' /\ LinksKept BY ServeStep, ServerDropsStep DEF Joint
<1> QED BY <1>1, <1>2, NetStep

\* The channel of the socket becomes joined, by a join that stands or that ends with notice.
LEMMA JoinsStep ==
    ASSUME Inv, Members, Records, NEW c \in Channel, c \in Routed, chan[c].intact,
           NEW ref, chan[c].joinRef = ref, Linked(ref)',
           chan' = [chan EXCEPT ![c] = JoinOk(chan[c])], UNCHANGED created
    PROVE  Members' /\ Records'
<1>1. chan' = [d \in Channel |-> IF d = c THEN JoinOk(chan[c]) ELSE chan[d]]
  BY DEF Inv, Channels
<1>2. Sound(chan[c]) BY DEF Inv, Channels
<1>3. /\ Fcn(chan'[c]) /\ chan'[c].routed /\ chan'[c].intact /\ chan'[c].joinRef = ref
      /\ chan'[c].pushBuffer = <<>>
  BY <1>1, <1>2, JoinOkJoins, JoinOkKept DEF Routed
<1>4. \A d \in Routed' : d = c
  <2> SUFFICES ASSUME NEW d \in Routed', d # c PROVE FALSE OBVIOUS
  <2>1. d \in created /\ d \in Channel /\ chan'[d].routed BY DEF Routed, Inv
  <2>2. chan'[d] = chan[d] BY <1>1, <2>1
  <2>3. d \in Routed BY <2>1, <2>2 DEF Routed
  <2> QED BY <2>3 DEF Members
<1> DEFINE r == chan[c].joinRef
<1>5. \A x : x = r' => Linked(x)' BY <1>3
<1> HIDE DEF r
<1>6. Linked(r)' BY <1>5
<1>7. Members'
  <2> SUFFICES ASSUME NEW d \in Routed'
               PROVE  chan'[d].intact /\ Linked(chan[d].joinRef)'
    BY <1>4 DEF Members
  <2>1. d = c BY <1>4
  <2>2. Linked(chan[c].joinRef)' BY <1>6 DEF r
  <2> QED BY <1>3, <2>1, <2>2
<1>8. Records'
  <2>1. Len(<<>>) = 0 /\ MaxBuffer >= 0 BY ChannelAssumption DEF ChannelAssumption
  <2> QED BY <1>1, <1>3, <2>1 DEF Records
<1> QED BY <1>7, <1>8

\* A channel that leaves after an answer "ok" with other changes has left the socket.
LEMMA MismatchedUnrouted ==
    ASSUME NEW ch, Sound(ch)
    PROVE  ~[Mismatched(ch) EXCEPT !.routed = FALSE].routed
<1> DEFINE left == Left(JoinOk(ch))
<1>1. Sound(left) BY JoinOkKept, LeftKept DEF Kept
<1>2. Mismatched(ch) = [left EXCEPT !.state = "errored"] BY DEF Mismatched
<1> HIDE DEF left
<1> QED BY <1>1, <1>2, SMT DEF Sound, Shape

\* The join of a channel is answered.
LEMMA JoinAnsweredJoint ==
    ASSUME Inv, Joint, NEW k \in Conn, JoinAnswered(k)
    PROVE  Joint'
<1> DEFINE m == Head(down[k])
           hearing == Hearing(m.ref)
           c == CHOOSE d \in hearing : TRUE
<1>1. Arrives(k, {"ok", "mismatch", "error"}) /\ m.ref \notin Push
  BY DEF JoinAnswered
<1>2. UNCHANGED <<created, conn, ready>> /\ m.event \in {"ok", "mismatch", "error"}
  BY <1>1 DEF Arrives
<1>3. Sends =>
         /\ NetInv' /\ LinksKept
         /\ m \in Reply
         /\ \A r : m.event = "ok" /\ m.ref = r => Linked(r)'
  <2> SUFFICES ASSUME Sends
               PROVE  /\ NetInv' /\ LinksKept
                      /\ m \in Reply
                      /\ \A r : m.event = "ok" /\ m.ref = r => Linked(r)'
    OBVIOUS
  <2>1. /\ NetInv' /\ m \in Reply /\ m = down[k][1]
        /\ \A r : Linked(r) => Linked(r)' \/ Ends(down[k], 1, r)
        /\ \A r : m.event = "ok" /\ m.ref = r /\ r \notin Push => Linked(r)'
    BY <1>1, ArrivesStep DEF Joint
  <2>2. \A r : ~Ends(down[k], 1, r) BY <1>2, <2>1 DEF Ends
  <2> QED BY <1>1, <2>1, <2>2 DEF LinksKept
<1>4. m \in Reply
  <2>1. down[k] \in Seq(Reply) /\ down[k] # <<>>
    BY <1>1 DEF Arrives, Joint, NetInv, NetTypes
  <2> QED BY <2>1, HeadTailProperties
<1>5. m.ref \in Ref \cup {0} BY <1>1, <1>4 DEF Reply
<1>6. CASE hearing = {}
  <2>1. UNCHANGED <<chan, up, sendBuffer>> BY <1>6 DEF JoinAnswered
  <2>2. Sends BY <2>1, SilentSends DEF Joint, NetInv
  <2> QED BY <1>2, <1>3, <2>1, <2>2, NetStep
<1>7. CASE hearing # {}
  <2>1. c \in hearing BY <1>7
  <2>2. c \in Channel /\ c \in Routed /\ chan[c].intact /\ chan[c].joinRef = m.ref
    BY <2>1 DEF Hearing, Routed, Inv
  <2>3. Sound(chan[c]) /\ chan[c].pushBuffer \in Seq(Push) /\ chan[c].routed /\ chan[c].hears
    BY <2>1, <2>2 DEF Inv, Channels, Sound, Shape, Hearing, Routed
  <2>4. Flushed(chan[c].pushBuffer) \in Seq(Sent) BY <2>3, FlushedSent
  <2>5. CASE m.event = "error"
    <3>1. chan' = [chan EXCEPT ![c] = JoinError(chan[c])] /\ UNCHANGED <<up, sendBuffer>>
      BY <1>7, <2>5 DEF JoinAnswered
    <3> HIDE DEF c
    <3>2. AllKept(chan, chan') BY <2>2, <2>3, <3>1, JoinErrorKept, OneKept DEF Inv
    <3>3. AllCalm(chan, chan') BY <2>2, <2>3, <3>1, JoinErrorCalm, OneCalm DEF Inv
    <3>4. Sends BY <3>1, SilentSends DEF Joint, NetInv
    <3> QED BY <1>2, <1>3, <3>2, <3>3, <3>4, CalmStep DEF Joint
  <2>6. CASE m.event = "ok"
    <3>1. /\ chan' = [chan EXCEPT ![c] = JoinOk(chan[c])]
          /\ Transmit(Flushed(chan[c].pushBuffer))
      BY <1>7, <2>6 DEF JoinAnswered
    <3>2. Sends BY <1>2, <2>4, <3>1, TransmitSends DEF Joint, NetInv
    <3>3. NetInv' /\ \A x : x = m.ref => Linked(x)' BY <1>3, <2>6, <3>2
    <3>4. PICK d \in Routed : d = c BY <2>2
    <3>5. PICK ref : ref = m.ref OBVIOUS
    <3>6. Linked(ref)' BY <3>3, <3>5
    <3> HIDE DEF c, m
    <3>7. /\ d \in Channel /\ chan[d].intact /\ chan[d].joinRef = ref
          /\ chan' = [chan EXCEPT ![d] = JoinOk(chan[d])]
      BY <2>2, <3>1, <3>4, <3>5
    <3>8. Members' /\ Records' BY <1>2, <3>6, <3>7, JoinsStep DEF Joint
    <3> QED BY <3>3, <3>8 DEF Joint
  <2>7. CASE m.event = "mismatch"
    <3>1. /\ chan' = [d \in Channel |->
                        IF d = c THEN [Mismatched(chan[c]) EXCEPT !.routed = FALSE]
                                 ELSE [chan[d] EXCEPT !.routed = FALSE]]
          /\ Transmit(Flushed(chan[c].pushBuffer) \o <<Msg("phx_leave", m.ref)>>)
      BY <1>7, <2>7 DEF JoinAnswered
    <3>2. Msg("phx_leave", m.ref) \in Sent BY <1>5, MsgSent
    <3>3. <<Msg("phx_leave", m.ref)>> \in Seq(Sent) BY <3>2
    <3>4. Flushed(chan[c].pushBuffer) \o <<Msg("phx_leave", m.ref)>> \in Seq(Sent)
      BY <2>4, <3>3, ConcatProperties
    <3>5. Sends BY <1>2, <3>1, <3>4, TransmitSends DEF Joint, NetInv
    <3>6. NetInv' BY <1>3, <3>5
    <3> HIDE DEF c, m
    <3>7. \A d \in Channel :
             /\ Kept(chan[d], chan'[d]) /\ Calm(chan[d], chan'[d])
             /\ ~chan'[d].routed
      <4> SUFFICES ASSUME NEW d \in Channel
                   PROVE  /\ Kept(chan[d], chan'[d]) /\ Calm(chan[d], chan'[d])
                          /\ ~chan'[d].routed
        OBVIOUS
      <4>1. Sound(chan[d]) /\ Shape(chan[d]) BY DEF Inv, Channels, Sound
      <4>2. CASE d = c
        <5>1. chan'[d] = [Mismatched(chan[d]) EXCEPT !.routed = FALSE] BY <3>1, <4>2
        <5>2. ~[Mismatched(chan[d]) EXCEPT !.routed = FALSE].routed
          BY <4>1, MismatchedUnrouted
        <5> QED BY <4>1, <5>1, <5>2, MismatchedKept, MismatchedCalm
      <4>3. CASE d # c
        <5>1. chan'[d] = [chan[d] EXCEPT !.routed = FALSE] BY <3>1, <4>3
        <5> QED BY <4>1, <5>1, UnroutedKept, UnroutedCalm
      <4> QED BY <4>2, <4>3
    <3>8. AllKept(chan, chan') /\ AllCalm(chan, chan')
      BY <3>1, <3>7 DEF AllKept, AllCalm
    <3>9. \A d \in Routed : ~chan'[d].routed BY <3>7 DEF Routed, Inv
    <3> QED BY <1>2, <3>6, <3>8, <3>9, PartedStep DEF Joint
  <2> QED BY <1>2, <2>5, <2>6, <2>7
<1> QED BY <1>6, <1>7

\* The answer to a push.
LEMMA PushAnsweredJoint ==
    ASSUME Inv, Joint, NEW k \in Conn, PushAnswered(k)
    PROVE  Joint'
<1>1. Arrives(k, {"ok", "error"}) /\ UNCHANGED <<chan, up, sendBuffer>>
  BY DEF PushAnswered
<1>2. UNCHANGED created /\ Head(down[k]).event \in {"ok", "error"} BY <1>1 DEF Arrives
<1>3. Sends BY <1>1, SilentSends DEF Joint, NetInv
<1>4. /\ NetInv' /\ Head(down[k]) = down[k][1]
      /\ \A r : Linked(r) => Linked(r)' \/ Ends(down[k], 1, r)
  BY <1>1, <1>3, ArrivesStep DEF Joint
<1>5. \A r : ~Ends(down[k], 1, r) BY <1>2, <1>4 DEF Ends
<1>6. LinksKept BY <1>4, <1>5 DEF LinksKept
<1> QED BY <1>1, <1>2, <1>4, <1>6, NetStep

\* A channel whose join has ended closes or errs.
LEMMA EndsJoint ==
    ASSUME Inv, Joint, NEW d \in Seq(Reply), NEW c \in Channel, c \in Routed,
           NetInv', \A r : Linked(r) => Linked(r)' \/ Ends(d, 1, r), UNCHANGED created,
           \/ chan[c].intact /\ chan' = Removed([chan EXCEPT ![c] = Closed(chan[c])], c)
           \/ chan' = [chan EXCEPT ![c] = Errored(chan[c])]
    PROVE  Joint'
<1>1. Sound(chan[c]) /\ Shape(chan[c]) BY DEF Inv, Channels, Sound
<1>2. \A e \in Routed : e = c BY DEF Joint, Members
<1>3. CASE chan[c].intact /\ chan' = Removed([chan EXCEPT ![c] = Closed(chan[c])], c)
  <2>1. AllKept(chan, chan') /\ AllCalm(chan, chan') /\ \A e \in Channel : ~chan'[e].routed
    BY <1>3, ClosedKept, ClosedAllCalm DEF Inv
  <2>2. \A e \in Routed : ~chan'[e].routed BY <2>1 DEF Routed, Inv
  <2> QED BY <2>1, <2>2, PartedStep DEF Joint
<1>4. CASE chan' = [chan EXCEPT ![c] = Errored(chan[c])]
  <2>1. AllKept(chan, chan') BY <1>1, <1>4, ErroredKept, OneKept DEF Inv
  <2>2. AllCalm(chan, chan') BY <1>1, <1>4, ErroredCalm, OneCalm DEF Inv
  <2>3. chan'[c] = Errored(chan[c]) BY <1>4 DEF Inv, Channels
  <2>4. chan[c].intact => chan'[c].state # "joined" BY <1>1, <2>3, ErroredCalm
  <2> QED BY <1>2, <2>1, <2>2, <2>4, PartedStep DEF Joint
<1> QED BY <1>3, <1>4

\* The end of a join arrives: of the channel's, and then that is not joined any more, or of
\* another, and then the channel's join is still linked.
LEMMA ServerDropJoint ==
    ASSUME Inv, Joint, NEW k \in Conn, ServerDropArrives(k)
    PROVE  Joint'
<1> DEFINE m == Head(down[k])
           concerned == {c \in Routed : Concerns(m.ref, chan[c])}
           chosen == CHOOSE d \in concerned : TRUE
<1>1. Arrives(k, {"phx_close", "phx_error"}) /\ UNCHANGED <<up, sendBuffer>>
  BY DEF ServerDropArrives
<1>2. UNCHANGED created /\ m.event \in {"phx_close", "phx_error"} BY <1>1 DEF Arrives
<1>3. Sends BY <1>1, SilentSends DEF Joint, NetInv
<1>4. /\ NetInv' /\ m = down[k][1]
      /\ \A r : Linked(r) => Linked(r)' \/ Ends(down[k], 1, r)
  BY <1>1, <1>3, ArrivesStep DEF Joint
<1>5. down[k] \in Seq(Reply) BY DEF Joint, NetInv, NetTypes
<1>6. CASE concerned = {}
  <2>1. UNCHANGED chan BY <1>6 DEF ServerDropArrives
  <2>2. \A c \in Routed : m.ref # chan[c].joinRef BY <1>6 DEF Concerns
  <2>3. \A c \in Routed : ~Ends(down[k], 1, chan[c].joinRef) BY <1>4, <2>2 DEF Ends
  <2>4. Records' BY <2>1 DEF Joint, Records
  <2>5. Routed' = Routed BY <1>2, <2>1 DEF Routed
  <2>6. ASSUME NEW c \in Routed, chan[c].state = "joined" PROVE Linked(chan[c].joinRef)'
    <3> DEFINE r == chan[c].joinRef
    <3>1. Linked(r) /\ ~Ends(down[k], 1, r) BY <2>3, <2>6 DEF Joint, Members
    <3>2. r' = r BY <2>1
    <3> HIDE DEF r
    <3>3. \A x : x = r' => Linked(x)' BY <1>4, <3>1, <3>2
    <3>4. Linked(r)' BY <3>3
    <3> QED BY <3>4 DEF r
  <2>7. Members' BY <2>1, <2>5, <2>6 DEF Joint, Members
  <2> QED BY <1>4, <2>4, <2>7 DEF Joint
<1>7. CASE concerned # {}
  <2>1. chosen \in concerned BY <1>7
  <2>2. PICK c \in Routed : c = chosen BY <2>1
  <2>3. c \in Channel BY DEF Routed, Inv
  <2>4. \/ chan[c].intact /\ chan' = Removed([chan EXCEPT ![c] = Closed(chan[c])], c)
        \/ ~chan[c].intact /\ UNCHANGED chan
        \/ chan' = [chan EXCEPT ![c] = Errored(chan[c])]
    BY <1>7, <2>2 DEF ServerDropArrives
  <2>5. CASE ~chan[c].intact /\ UNCHANGED chan
    <3>1. AllKept(chan, chan') /\ AllCalm(chan, chan')
      BY <2>5, SameCalm DEF Inv, Channels, AllKept, Kept
    <3>2. \A d \in Routed : d = c BY DEF Joint, Members
    <3>3. \A d \in Routed : chan[d].intact => FALSE BY <2>5, <3>2
    <3> QED BY <1>2, <1>4, <3>1, <3>3, PartedStep DEF Joint
  <2> HIDE DEF m, concerned, chosen
  <2> QED BY <1>2, <1>4, <1>5, <2>3, <2>4, <2>5, EndsJoint
<1> QED BY <1>6, <1>7

LEMMA NetworkJoint ==
    ASSUME Inv, Joint, Network
    PROVE  Joint'
<1> PICK k \in Conn :
        \/ OnConnOpen(k) \/ OnConnError(k) \/ OnConnClose(k) \/ ConnDies(k)
        \/ Serve(k) \/ ServerDrops(k)
        \/ JoinAnswered(k) \/ PushAnswered(k) \/ ServerDropArrives(k)
  BY DEF Network
<1> QED
  BY OpenJoint, ErrorCloseJoint, DiesJoint, ServerJoint, JoinAnsweredJoint, PushAnsweredJoint,
     ServerDropJoint
-----------------------------------------------------------------------------
(* The timers. *)

\* The heartbeat finds the connection dead: the end of every join is still to come.
LEMMA HeartbeatJoint ==
    ASSUME Inv, Joint, HeartbeatTimeout
    PROVE  Joint'
<1>1. /\ Connected /\ ready' = [ready EXCEPT ![conn] = "closing"]
      /\ UNCHANGED <<chan, created, conn, up, down, joined, sendBuffer>>
  BY DEF HeartbeatTimeout
<1>2. conn \in Conn BY <1>1 DEF Joint, NetInv, NetTypes, Connected
<1>3. /\ ready' \in [Conn -> ReadyState] /\ ready'[conn] = "closing"
      /\ \A j \in Conn \ {conn} : ready'[j] = ready[j]
  BY <1>1, <1>2 DEF Joint, NetInv, NetTypes, ReadyState
<1>4. \A j \in Conn : Quiet(j)' => Quiet(j) BY <1>1, <1>3 DEF Quiet
<1>5. Sends BY <1>1, SilentSends DEF Joint, NetInv
<1>6. NetInv' BY <1>1, <1>2, <1>3, <1>4, <1>5, SendingStep DEF Joint
<1>7. Broken' BY <1>2, <1>3 DEF Broken
<1>8. LinksKept BY <1>1, <1>7 DEF LinksKept, Linked
<1> QED BY <1>1, <1>6, <1>8, NetStep

LEMMA TimersJoint ==
    ASSUME Inv, Joint, Timers
    PROVE  Joint'
<1>1. ASSUME NEW c \in Channel, JoinTimeout(c) PROVE Joint'
  <2>1. /\ chan' = [chan EXCEPT ![c] = JoinTimedOut(chan[c])]
        /\ UNCHANGED <<created, conn, ready, up, down, joined, sendBuffer>>
    BY <1>1 DEF JoinTimeout, netVars
  <2>2. Sound(chan[c]) BY DEF Inv, Channels
  <2>3. AllKept(chan, chan') BY <2>1, <2>2, JoinTimedOutKept, OneKept DEF Inv
  <2>4. AllCalm(chan, chan') BY <2>1, <2>2, JoinTimedOutCalm, OneCalm DEF Inv
  <2> QED BY <2>1, <2>3, <2>4, HandlerStep
<1>2. ASSUME NEW c \in Channel, RejoinTimer(c) PROVE Joint'
  <2>1. Rejoin(c) /\ UNCHANGED <<created, conn, ready, down, joined>>
    BY <1>2 DEF RejoinTimer
  <2>2. Sends BY <2>1, RejoinSends DEF Joint, NetInv
  <2> QED BY <2>1, <2>2, RejoinKept, RejoinCalm, SpeakingStep
<1>3. ASSUME NEW p \in Push, PushTimeout(p) PROVE Joint'
  BY <1>3, StillStep DEF PushTimeout, netVars
<1>4. CASE ReconnectTimer
  <2>1. CASE Connect BY <1>4, <2>1, ConnectsStep DEF ReconnectTimer
  <2>2. CASE UNCHANGED <<conn, ready>> BY <1>4, <2>2, StillStep DEF ReconnectTimer
  <2> QED BY <1>4, <2>1, <2>2 DEF ReconnectTimer
<1>5. CASE Reconnect BY <1>5, ConnectsStep DEF Reconnect
<1>6. CASE SendHeartbeat BY <1>6, StillStep DEF SendHeartbeat, netVars
<1>7. CASE HeartbeatAnswered BY <1>7, StillStep DEF HeartbeatAnswered, netVars
<1>8. CASE HeartbeatTimeout BY <1>8, HeartbeatJoint
<1>9. CASE HeartbeatFallback BY <1>9, StillStep DEF HeartbeatFallback, netVars
<1>10. CASE DisconnectFallback BY <1>10, StillStep DEF DisconnectFallback
<1> QED
  BY <1>1, <1>2, <1>3, <1>4, <1>5, <1>6, <1>7, <1>8, <1>9, <1>10 DEF Timers

LEMMA NextJoint ==
    ASSUME Inv, Joint, [Next]_vars
    PROVE  Joint'
<1>1. CASE UNCHANGED vars BY <1>1, StillStep DEF vars, netVars
<1> QED
  BY <1>1, ApplicationJoint, RunTailJoint, FlushJoint, NetworkJoint, TimersJoint DEF Next

LEMMA InitJoint == Init => Inv /\ Joint
<1> SUFFICES ASSUME Init PROVE Joint BY InitInv
<1> DEFINE fresh == [NewChannel EXCEPT !.routed = FALSE]
<1>1. Fcn(fresh) /\ fresh.pushBuffer = <<>> /\ fresh.state = "closed"
  BY SMT DEF NewChannel, Fcn
<1>2. chan = [c \in Channel |-> fresh] /\ created = {} BY DEF Init
<1> HIDE DEF fresh
<1>3. Records
  <2>1. Len(<<>>) = 0 /\ MaxBuffer >= 0 BY ChannelAssumption DEF ChannelAssumption
  <2> QED BY <1>1, <1>2, <2>1 DEF Records
<1>4. Members BY <1>2 DEF Members, Routed
<1>5. <<>> \in Seq(Sent) /\ <<>> \in Seq(Reply) /\ Len(<<>>) = 0 OBVIOUS
<1>6. NetTypes BY <1>5 DEF Init, NetTypes, ReadyState
<1>7. Wires BY DEF Init, Wires
<1>8. AnsweredBy(<<>>, {}) BY <1>5, SMT DEF AnsweredBy
<1>9. Answered BY <1>8 DEF Init, Answered
<1> QED BY <1>3, <1>4, <1>6, <1>7, <1>9 DEF Joint, NetInv
-----------------------------------------------------------------------------
(* The rest of the types. *)

Clocks ==
    /\ connState \in {"disconnected", "connecting", "connected", "disconnecting"}
    /\ manual \in BOOLEAN
    /\ reconnect \in BOOLEAN /\ reconnecting \in Nat
    /\ heartbeat \in BOOLEAN /\ pendingHeartbeat \in {"none", "this", "earlier"}
    /\ heartbeatFallbacks \in Nat /\ fallbacks \in Nat /\ flushes \in Nat
    /\ tails \in Seq({"one", "all"})
    /\ events \in 0..MaxEvents

LEMMA EventsClock ==
    ASSUME Clocks, Counted \/ UNCHANGED events
    PROVE  events' \in 0..MaxEvents
BY ClientAssumption DEF ClientAssumption, Clocks, Counted

LEMMA ConnectClocks ==
    ASSUME Clocks, Connect
    PROVE  /\ connState' \in {"disconnected", "connecting", "connected", "disconnecting"}
           /\ manual' \in BOOLEAN /\ pendingHeartbeat' \in {"none", "this", "earlier"}
BY DEF Connect, Clocks

LEMMA DisconnectClocks ==
    ASSUME Clocks, NEW chans, Disconnect(chans)
    PROVE  /\ connState' \in {"disconnected", "connecting", "connected", "disconnecting"}
           /\ manual' \in BOOLEAN /\ pendingHeartbeat' \in {"none", "this", "earlier"}
           /\ reconnect' \in BOOLEAN /\ heartbeat' \in BOOLEAN /\ fallbacks' \in Nat
<1>1. CASE connState = "disconnecting"
  BY <1>1 DEF Disconnect, Clocks, netVars
<1>2. CASE connState # "disconnecting" /\ conn = 0
  BY <1>2 DEF Disconnect, Clocks
<1>3. CASE connState # "disconnecting" /\ conn # 0
  <2>1. /\ connState' = "disconnecting" /\ manual' = TRUE /\ fallbacks' = fallbacks + 1
        /\ reconnect' = FALSE /\ heartbeat' = FALSE
        /\ pendingHeartbeat' \in {pendingHeartbeat, "earlier"}
    BY <1>3 DEF Disconnect
  <2>2. fallbacks' \in Nat BY <2>1 DEF Clocks
  <2>3. pendingHeartbeat' \in {"none", "this", "earlier"} BY <2>1 DEF Clocks
  <2>4. TRUE \in BOOLEAN /\ FALSE \in BOOLEAN OBVIOUS
  <2> QED BY <2>1, <2>2, <2>3, <2>4
<1> QED BY <1>1, <1>2, <1>3

LEMMA TailsClock ==
    ASSUME Clocks
    PROVE  /\ \A t \in {"one", "all"} : Append(tails, t) \in Seq({"one", "all"})
           /\ tails # <<>> => Tail(tails) \in Seq({"one", "all"})
BY AppendProperties, HeadTailProperties DEF Clocks

LEMMA NextClocks ==
    ASSUME Clocks, [Next]_vars
    PROVE  Clocks'
<1>1. CASE Application
  <2>1. CASE CallConnect
    BY <2>1, EventsClock, ConnectClocks DEF CallConnect, Clocks
  <2>2. CASE CallDisconnect
    BY <2>2, EventsClock, DisconnectClocks DEF CallDisconnect, Clocks
  <2>3. CASE CreateChannel
    BY <2>3 DEF CreateChannel, Clocks, netVars, timerVars
  <2>4. CASE RemoveAllChannels
    BY <2>4, EventsClock, TailsClock DEF RemoveAllChannels, Clocks, timerVars
  <2>5. ASSUME NEW c \in Channel, Subscribe(c) PROVE Clocks'
    BY <2>5, EventsClock, ConnectClocks DEF Subscribe, Clocks
  <2>6. ASSUME NEW c \in Channel, RemoveChannel(c) PROVE Clocks'
    BY <2>6, EventsClock, TailsClock DEF RemoveChannel, Clocks, timerVars
  <2>7. ASSUME NEW p \in Push, SendPush(p) PROVE Clocks'
    BY <2>7, EventsClock DEF SendPush, Clocks, timerVars
  <2> QED BY <1>1, <2>1, <2>2, <2>3, <2>4, <2>5, <2>6, <2>7 DEF Application
<1>2. CASE RunTail
  <2>1. tails' \in Seq({"one", "all"}) BY <1>2, TailsClock DEF RunTail
  <2>2. UNCHANGED <<reconnecting, heartbeatFallbacks, flushes, events>> BY <1>2 DEF RunTail
  <2>3. ASSUME NEW chans, Disconnect(chans) PROVE Clocks'
    BY <2>1, <2>2, <2>3, DisconnectClocks DEF Clocks
  <2>4. CASE UNCHANGED <<netVars, reconnect, heartbeat, pendingHeartbeat, fallbacks>>
    BY <2>1, <2>2, <2>4 DEF Clocks, netVars
  <2> QED BY <1>2, <2>3, <2>4 DEF RunTail
<1>3. CASE Flush
  BY <1>3 DEF Flush, Clocks
<1>4. CASE Network
  <2> PICK k \in Conn :
          \/ OnConnOpen(k) \/ OnConnError(k) \/ OnConnClose(k) \/ ConnDies(k)
          \/ Serve(k) \/ ServerDrops(k)
          \/ JoinAnswered(k) \/ PushAnswered(k) \/ ServerDropArrives(k)
    BY <1>4 DEF Network
  <2>1. CASE OnConnOpen(k)
    <3>1. Counted \/ UNCHANGED events BY <2>1 DEF OnConnOpen
    <3>2. /\ connState' = "connected" /\ flushes' \in {flushes, flushes + 1}
          /\ reconnect' = FALSE /\ heartbeat' = TRUE
          /\ UNCHANGED <<manual, reconnecting, pendingHeartbeat, heartbeatFallbacks, fallbacks,
                         tails>>
      BY <2>1 DEF OnConnOpen
    <3>3. flushes' \in Nat BY <3>2 DEF Clocks
    <3>4. reconnect' \in BOOLEAN /\ heartbeat' \in BOOLEAN BY <3>2
    <3> QED BY <3>1, <3>2, <3>3, <3>4, EventsClock DEF Clocks
  <2>2. CASE OnConnError(k)
    BY <2>2, EventsClock DEF OnConnError, Clocks, timerVars
  <2>3. CASE OnConnClose(k)
    BY <2>3, EventsClock DEF OnConnClose, Clocks, Scheduled
  <2>4. CASE ConnDies(k)
    BY <2>4, EventsClock DEF ConnDies, Clocks, timerVars
  <2>5. CASE Serve(k)
    <3>1. Counted \/ UNCHANGED events BY <2>5 DEF Serve
    <3>2. UNCHANGED <<connState, manual, timerVars, tails>> BY <2>5 DEF Serve
    <3> QED BY <3>1, <3>2, EventsClock DEF Clocks, timerVars
  <2>6. CASE ServerDrops(k)
    BY <2>6, EventsClock DEF ServerDrops, Clocks, timerVars
  <2>7. ASSUME NEW kinds, Arrives(k, kinds) PROVE Clocks'
    BY <2>7 DEF Arrives, Clocks
  <2> QED
    BY <2>1, <2>2, <2>3, <2>4, <2>5, <2>6, <2>7
       DEF JoinAnswered, PushAnswered, ServerDropArrives
<1>5. CASE Timers
  <2>1. ASSUME NEW c \in Channel, JoinTimeout(c) PROVE Clocks'
    BY <2>1, EventsClock DEF JoinTimeout, Late, Clocks, netVars, timerVars
  <2>2. ASSUME NEW c \in Channel, RejoinTimer(c) PROVE Clocks'
    <3>1. Counted \/ UNCHANGED events BY <2>2 DEF RejoinTimer, Late
    <3>2. UNCHANGED <<connState, manual, timerVars, tails>> BY <2>2 DEF RejoinTimer
    <3> QED BY <3>1, <3>2, EventsClock DEF Clocks, timerVars
  <2>3. ASSUME NEW p \in Push, PushTimeout(p) PROVE Clocks'
    BY <2>3, EventsClock DEF PushTimeout, Late, Clocks, netVars, timerVars
  <2>4. CASE ReconnectTimer
    <3>1. Counted \/ UNCHANGED events BY <2>4 DEF ReconnectTimer
    <3>2. /\ reconnect' = FALSE /\ reconnecting' \in {reconnecting, reconnecting + 1}
          /\ Connect \/ UNCHANGED <<connState, manual, pendingHeartbeat>>
          /\ UNCHANGED <<heartbeat, heartbeatFallbacks, fallbacks, flushes, tails>>
      BY <2>4 DEF ReconnectTimer
    <3>3. reconnecting' \in Nat BY <3>2 DEF Clocks
    <3>4. reconnect' \in BOOLEAN BY <3>2
    <3> QED BY <3>1, <3>2, <3>3, <3>4, EventsClock, ConnectClocks DEF Clocks
  <2>5. CASE Reconnect
    BY <2>5, ConnectClocks DEF Reconnect, Clocks
  <2>6. CASE SendHeartbeat BY <2>6 DEF SendHeartbeat, Clocks, netVars
  <2>7. CASE HeartbeatAnswered BY <2>7 DEF HeartbeatAnswered, Clocks, netVars
  <2>8. CASE HeartbeatTimeout
    <3>1. Counted \/ UNCHANGED events BY <2>8 DEF HeartbeatTimeout
    <3>2. /\ pendingHeartbeat' = "none" /\ manual' = FALSE
          /\ heartbeatFallbacks' = heartbeatFallbacks + 1
          /\ UNCHANGED <<connState, reconnect, reconnecting, heartbeat, fallbacks, flushes, tails>>
      BY <2>8 DEF HeartbeatTimeout
    <3>3. heartbeatFallbacks' \in Nat BY <3>2 DEF Clocks
    <3>4. manual' \in BOOLEAN BY <3>2
    <3> QED BY <3>1, <3>2, <3>3, <3>4, EventsClock DEF Clocks
  <2>9. CASE HeartbeatFallback BY <2>9 DEF HeartbeatFallback, Clocks, netVars
  <2>10. CASE DisconnectFallback BY <2>10 DEF DisconnectFallback, Clocks
  <2> QED
    BY <1>5, <2>1, <2>2, <2>3, <2>4, <2>5, <2>6, <2>7, <2>8, <2>9, <2>10 DEF Timers
<1>6. CASE UNCHANGED vars
  BY <1>6 DEF vars, netVars, timerVars, Clocks
<1> QED BY <1>1, <1>2, <1>3, <1>4, <1>5, <1>6 DEF Next

LEMMA InitClocks == Init => Clocks
<1> SUFFICES ASSUME Init PROVE Clocks OBVIOUS
<1>1. tails \in Seq({"one", "all"}) BY DEF Init
<1>2. events \in 0..MaxEvents BY ClientAssumption DEF ClientAssumption, Init
<1> QED BY <1>1, <1>2 DEF Init, Clocks
-----------------------------------------------------------------------------
LEMMA SentMessages == \A s \in Seq(Sent) : s \in Seq(Message)
BY DEF Sent

LEMMA Types == Inv /\ Joint /\ Clocks => TypeOK
<1> SUFFICES ASSUME Inv, Joint, Clocks PROVE TypeOK OBVIOUS
<1>1. chan \in [Channel -> ChannelRecord]
  <2>1. \A ch : Shape(ch) /\ Fcn(ch) => ch \in ChannelRecord
    BY SMT DEF Shape, Fcn, ChannelRecord
  <2> QED BY <2>1 DEF Inv, Channels, Sound, Joint, Records
<1>2. up \in [Conn -> Seq(Message)] /\ sendBuffer \in Seq(Message)
  BY SentMessages DEF Joint, NetInv, NetTypes
<1> QED BY <1>1, <1>2 DEF Inv, Joint, NetInv, NetTypes, Records, Clocks, TypeOK

LEMMA Agrees == Inv /\ Joint => JoinedAgrees
<1> SUFFICES ASSUME Inv, Joint, NEW c \in Routed, chan[c].state = "joined"
             PROVE  conn # 0 /\ (joined[conn] = {chan[c].joinRef} \/ EndOnTheWay(c))
  BY DEF JoinedAgrees
<1>1. Linked(chan[c].joinRef) BY DEF Joint, Members
<1>2. conn # 0 BY <1>1 DEF Linked
<1>3. CASE Broken BY <1>2, <1>3 DEF Broken, EndOnTheWay
<1>4. CASE TellsEnd(down[conn], chan[c].joinRef)
  <2>1. conn \in Conn BY <1>2 DEF Joint, NetInv, NetTypes
  <2>2. DOMAIN down[conn] = 1..Len(down[conn]) BY <2>1 DEF Joint, NetInv, NetTypes
  <2> QED BY <1>2, <1>4, <2>2 DEF TellsEnd, Ends, EndOnTheWay
<1> QED BY <1>1, <1>2, <1>3, <1>4 DEF Linked

\* Every variable of the client has its type, and no push buffer exceeds its limit
\* (_addToPushBuffer).
THEOREM Typed == Spec => []TypeOK
BY InitInv, NextInv, InitJoint, NextJoint, InitClocks, NextClocks, Types, PTL DEF Spec

\* A channel that the application sees joined is joined on the server, by the same join and on
\* the current WebSocket, or the server's end, or the end of the WebSocket, is still to be told:
\* whatever connects, rejoins, leaves and disconnects happen in between (_trigger, _rejoin,
\* _leaveOpenTopic, _onConnClose, disconnect).
THEOREM JoinedOnTheServer == Spec => []JoinedAgrees
BY InitInv, NextInv, InitJoint, NextJoint, Agrees, PTL DEF Spec
-----------------------------------------------------------------------------
(* The composition with RealtimeAuth: the tokens have their types too. *)

LEMMA TokensInit == Tokens!Init => Tokens!TypeOK
<1> SUFFICES ASSUME Tokens!Init PROVE Tokens!TypeOK OBVIOUS
<1>1. 0 \in Tokens!Token BY TokenAssumption DEF Tokens!Token
<1>2. <<>> \in Seq(Tokens!Token) /\ <<>> \in Seq(Tokens!Token \cup {Tokens!Null}) OBVIOUS
<1> QED BY <1>1, <1>2 DEF Tokens!Init, Tokens!TypeOK

\* A call of setAuth begins.
LEMMA BeginTypes ==
    ASSUME Tokens!TypeOK, NEW a \in Auth, Tokens!Begin(a)
    PROVE  /\ performing' \in [Auth -> Tokens!Token \cup {Tokens!Asking, Tokens!Idle}]
           /\ authPromise' \in Auth \cup {"none"}
BY DEF Tokens!TypeOK, Tokens!Begin

\* connect, as far as the auth goes.
LEMMA ConnectingTypes ==
    ASSUME Tokens!TypeOK, Tokens!Connecting
    PROVE  /\ tokenConn' \in {"none", "connecting", "open"}
           /\ performing' \in [Auth -> Tokens!Token \cup {Tokens!Asking, Tokens!Idle}]
           /\ authPromise' \in Auth \cup {"none"}
BY BeginTypes DEF Tokens!TypeOK, Tokens!Connecting

\* _performAuth with its token.
LEMMA ApplyTypes ==
    ASSUME Tokens!TypeOK, NEW token \in Tokens!Token, Tokens!Apply(token)
    PROVE  /\ accessTokenValue' \in Tokens!Token \cup {Tokens!Null}
           /\ joinPayload' \in Tokens!Token \cup {Tokens!Null}
           /\ server' \in Tokens!Token \cup {Tokens!Null}
           /\ oldJoin' \in BOOLEAN
BY DEF Tokens!TypeOK, Tokens!Apply

\* flushSendBuffer.
LEMMA FlushTypes ==
    ASSUME Tokens!TypeOK, Tokens!FlushSendBuffer
    PROVE  /\ tokenBuffer' \in Seq(Tokens!Token \cup {Tokens!Null})
           /\ server' \in Tokens!Token \cup {Tokens!Null}
           /\ oldJoin' \in BOOLEAN
<1>1. tokenBuffer' = <<>> BY DEF Tokens!FlushSendBuffer
<1>2. CASE tokenBuffer = <<>> BY <1>1, <1>2 DEF Tokens!FlushSendBuffer, Tokens!TypeOK
<1>3. CASE tokenBuffer # <<>>
  <2>1. server' = Tokens!Last(tokenBuffer) /\ oldJoin' = (oldJoin \/ server' # accessTokenValue)
    BY <1>3 DEF Tokens!FlushSendBuffer
  <2>2. Len(tokenBuffer) \in 1..Len(tokenBuffer) BY <1>3 DEF Tokens!TypeOK
  <2>3. Tokens!Last(tokenBuffer) \in Tokens!Token \cup {Tokens!Null}
    BY <2>2 DEF Tokens!TypeOK, Tokens!Last
  <2>4. oldJoin' \in BOOLEAN BY <2>1 DEF Tokens!TypeOK
  <2>5. tokenBuffer' \in Seq(Tokens!Token \cup {Tokens!Null}) BY <1>1
  <2> QED BY <2>1, <2>3, <2>4, <2>5
<1> QED BY <1>2, <1>3

\* A join is sent or buffered.
LEMMA SendJoinTypes ==
    ASSUME Tokens!TypeOK, NEW payload \in Tokens!Token \cup {Tokens!Null}, Tokens!SendJoin(payload)
    PROVE  /\ tokenBuffer' \in Seq(Tokens!Token \cup {Tokens!Null})
           /\ server' \in Tokens!Token \cup {Tokens!Null}
<1>1. CASE tokenConn = "open" BY <1>1 DEF Tokens!TypeOK, Tokens!SendJoin
<1>2. CASE tokenConn # "open"
  <2>1. tokenBuffer' = Append(tokenBuffer, payload) /\ UNCHANGED server
    BY <1>2 DEF Tokens!SendJoin
  <2>2. tokenBuffer \in Seq(Tokens!Token \cup {Tokens!Null}) BY DEF Tokens!TypeOK
  <2>3. tokenBuffer' \in Seq(Tokens!Token \cup {Tokens!Null}) BY <2>1, <2>2, AppendProperties
  <2> QED BY <2>1, <2>3 DEF Tokens!TypeOK
<1> QED BY <1>1, <1>2

LEMMA TokensNext ==
    ASSUME Tokens!TypeOK, [Tokens!Next]_(Tokens!vars)
    PROVE  Tokens!TypeOK'
<1>1. CASE Tokens!SessionChanges
  <2>1. session' \in Tokens!Token /\ issued' \in Tokens!Token
    BY <1>1, TokenAssumption DEF Tokens!SessionChanges, Tokens!TypeOK, Tokens!Token
  <2>2. 0 \in Tokens!Token BY TokenAssumption DEF Tokens!Token
  <2>3. notices' \in Seq(Tokens!Token)
    BY <1>1, <2>1, <2>2, AppendProperties DEF Tokens!SessionChanges, Tokens!TypeOK
  <2> QED
    BY <1>1, <2>1, <2>3 DEF Tokens!SessionChanges, Tokens!TypeOK, Tokens!connVars, Tokens!chanVars
<1>2. CASE Tokens!TokenChanged
  <2>1. /\ Head(notices) \in Tokens!Token /\ notices' \in Seq(Tokens!Token)
    BY <1>2, HeadTailProperties DEF Tokens!TokenChanged, Tokens!TypeOK
  <2>2. UNCHANGED <<session, issued, Tokens!connVars, channel, tokenBuffer>>
    BY <1>2 DEF Tokens!TokenChanged
  <2>3. CASE /\ changedAccessToken' = Head(notices) /\ Tokens!Apply(Head(notices))
             /\ authPromise' = "none" /\ UNCHANGED performing
    BY <2>1, <2>2, <2>3, ApplyTypes DEF Tokens!TypeOK, Tokens!connVars
  <2>4. CASE UNCHANGED <<changedAccessToken, performing, authPromise, accessTokenValue,
                         joinPayload, server, oldJoin>>
    BY <2>1, <2>2, <2>4 DEF Tokens!TypeOK, Tokens!connVars
  <2>5. CASE /\ changedAccessToken' = Tokens!Null
             /\ \E a \in Auth : Tokens!Begin(a)
             /\ UNCHANGED <<accessTokenValue, joinPayload, server, oldJoin>>
    BY <2>1, <2>2, <2>5, BeginTypes DEF Tokens!TypeOK, Tokens!connVars
  <2> QED BY <1>2, <2>3, <2>4, <2>5 DEF Tokens!TokenChanged
<1>3. ASSUME NEW a \in Auth, Tokens!TokenRead(a) PROVE Tokens!TypeOK'
  BY <1>3 DEF Tokens!TokenRead, Tokens!TypeOK, Tokens!authVars, Tokens!connVars, Tokens!chanVars
<1>4. ASSUME NEW a \in Auth, Tokens!AuthEnds(a) PROVE Tokens!TypeOK'
  BY <1>4, ApplyTypes DEF Tokens!AuthEnds, Tokens!TypeOK, Tokens!authVars, Tokens!connVars
<1>5. CASE Tokens!FlushAfterAuth
  BY <1>5, FlushTypes DEF Tokens!FlushAfterAuth, Tokens!TypeOK, Tokens!authVars
<1>6. CASE Tokens!Subscribe
  <2>1. joinPayload' \in Tokens!Token \cup {Tokens!Null}
    BY <1>6 DEF Tokens!Subscribe, Tokens!TypeOK
  <2>2. /\ Tokens!Connecting /\ Tokens!SendJoin(joinPayload')
        /\ channel' = "joining" /\ oldJoin' = FALSE
        /\ UNCHANGED <<session, issued, notices, changedAccessToken, accessTokenValue, flushAfter>>
    BY <1>6 DEF Tokens!Subscribe, Tokens!authVars
  <2> QED BY <2>1, <2>2, ConnectingTypes, SendJoinTypes DEF Tokens!TypeOK
<1>7. CASE Tokens!OnConnOpen
  <2>1. /\ tokenConn' = "open"
        /\ UNCHANGED <<session, issued, notices, changedAccessToken, accessTokenValue, channel,
                       joinPayload>>
    BY <1>7 DEF Tokens!OnConnOpen, Tokens!authVars
  <2>2. CASE /\ flushAfter' = authPromise
             /\ UNCHANGED <<performing, authPromise, tokenBuffer, server, oldJoin>>
    BY <2>1, <2>2 DEF Tokens!TypeOK
  <2>3. CASE /\ \E a \in Auth : Tokens!Begin(a) /\ flushAfter' = a
             /\ UNCHANGED <<tokenBuffer, server, oldJoin>>
    BY <2>1, <2>3, BeginTypes DEF Tokens!TypeOK
  <2>4. CASE Tokens!FlushSendBuffer /\ UNCHANGED <<flushAfter, performing, authPromise>>
    BY <2>1, <2>4, FlushTypes DEF Tokens!TypeOK
  <2> QED BY <1>7, <2>2, <2>3, <2>4 DEF Tokens!OnConnOpen
<1>8. CASE Tokens!JoinOk
  BY <1>8, BeginTypes DEF Tokens!JoinOk, Tokens!TypeOK, Tokens!authVars, Tokens!connVars
<1>9. CASE Tokens!Heartbeat
  BY <1>9, BeginTypes
     DEF Tokens!Heartbeat, Tokens!HeartbeatAuth, Tokens!TypeOK, Tokens!authVars, Tokens!connVars,
         Tokens!chanVars
<1>10. CASE Tokens!ConnLost
  BY <1>10 DEF Tokens!ConnLost, Tokens!TypeOK, Tokens!authVars
<1>11. CASE Tokens!Reconnect
  BY <1>11, ConnectingTypes DEF Tokens!Reconnect, Tokens!TypeOK, Tokens!authVars, Tokens!chanVars
<1>12. CASE Tokens!Rejoin
  BY <1>12, SendJoinTypes DEF Tokens!Rejoin, Tokens!TypeOK, Tokens!authVars, Tokens!connVars
<1>13. CASE UNCHANGED Tokens!vars
  BY <1>13
     DEF Tokens!TypeOK, Tokens!vars, Tokens!authVars, Tokens!connVars, Tokens!chanVars
<1> QED
  BY <1>1, <1>2, <1>3, <1>4, <1>5, <1>6, <1>7, <1>8, <1>9, <1>10, <1>11, <1>12, <1>13
     DEF Tokens!Next

\* What runs side by side is a behaviour of each part.
LEMMA Parts == MCSpec => Spec /\ Tokens!Spec
<1>1. MCInit => Init /\ Tokens!Init BY DEF MCInit
<1>2. [MCNext]_<<part, vars, tokenVars>> => [Next]_vars
  BY DEF MCNext
<1>3. [MCNext]_<<part, vars, tokenVars>> => [Tokens!Next]_(Tokens!vars)
  BY DEF MCNext, tokenVars, Tokens!vars, Tokens!authVars, Tokens!connVars, Tokens!chanVars
<1> QED BY <1>1, <1>2, <1>3, PTL DEF MCSpec, Spec, Tokens!Spec

LEMMA TokensTyped == Tokens!Spec => []Tokens!TypeOK
BY TokensInit, TokensNext, PTL DEF Tokens!Spec

\* Every variable of the client and of its tokens has its type: a push buffer and the tokens
\* that wait in the sendBuffer, too.
THEOREM TypesHold == MCSpec => []TypesOK
BY Typed, TokensTyped, Parts, PTL DEF TypesOK
=============================================================================
