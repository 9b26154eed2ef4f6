-------------------------- MODULE RealtimePresence --------------------------
(***************************************************************************)
(* RealtimePresence (realtime-js): the presences of a channel, kept from   *)
(* the state that the server sends after a join and the diffs it sends     *)
(* whenever someone comes or goes.  Diffs that arrive before the state of  *)
(* the current join wait for it.  The server and the connection are        *)
(* external; the channel is only its join_ref, which is empty after a      *)
(* rejoin that found the timeout of the join before it still set.          *)
(***************************************************************************)
EXTENDS Naturals, Sequences

CONSTANTS
    Key,                    \* presence keys
    MaxPresence,            \* bound: presences ever tracked
    MaxJoin                 \* bound: joins of the channel

VARIABLES
    state,                  \* state: the presence_refs per key, {} for a key not there
    pendingDiffs,           \* pendingDiffs
    syncRef,                \* joinRef of the presence, 0 for null
    joinCount,              \* the joins that the channel has sent
    joinRef,                \* the ref of the last one, or 0 for ""
    told,                   \* what a subscriber makes of the join and leave events
    present,                \* the server: what is tracked
    process,                \* the join that the server's channel process belongs to, or 0
    stateSent,              \* it has sent presence_state
    wire,                   \* messages on their way, in order
    tracked,                \* presences tracked so far
    outdated                \* history: the last state was followed by diffs of an earlier join

vars == <<state, pendingDiffs, syncRef, joinCount, joinRef, told, present, process, stateSent, wire,
          tracked, outdated>>

Meta == [phx_ref : 1..MaxPresence, phx_ref_prev : 0..MaxPresence]
Nobody == [k \in Key |-> {}]
Raw(event, joins, leaves) == [event |-> event, joins |-> joins, leaves |-> leaves, of |-> process]

Init ==
    /\ state = Nobody /\ told = Nobody /\ present = Nobody
    /\ pendingDiffs = <<>>
    /\ syncRef = 0 /\ joinCount = 0 /\ joinRef = 0
    /\ process = 0 /\ stateSent = FALSE
    /\ wire = <<>>
    /\ tracked = 0
    /\ outdated = FALSE
-----------------------------------------------------------------------------
\* transformState: of the metas only the reference is kept that tells them apart.
TransformState(raw) == [k \in Key |-> {m.phx_ref : m \in raw[k]}]

\* syncDiff: joins first, beside those that are there; then leaves.
SyncDiff(view, joins, leaves) == [k \in Key |-> (view[k] \cup joins[k]) \ leaves[k]]

\* Variant to refute: keys that are in both states keep what they had.
LeftKeysOnly(view, new) ==
    [k \in Key |-> IF new[k] = {} THEN view[k] ELSE {}]

\* What syncState has leave and join, from the old view to the new.
LeavesOf(view, new) == [k \in Key |-> view[k] \ new[k]]
JoinsOf(view, new) == [k \in Key |-> new[k] \ view[k]]

SyncState(view, new) == SyncDiff(view, JoinsOf(view, new), LeavesOf(view, new))

\* The events of syncDiff: onJoin for each key of the joins, onLeave for each key of the
\* leaves that has presences then.
Follow(believed, view, joins, leaves) ==
    [k \in Key |->
        (believed[k] \cup joins[k]) \ (IF view[k] \cup joins[k] # {} THEN leaves[k] ELSE {})]

\* inPendingSyncState.
InPendingSyncState == syncRef = 0 \/ syncRef # joinRef

Diffed(view, d) == SyncDiff(view, TransformState(d.joins), TransformState(d.leaves))
Told(pair, d) ==
    [view |-> Diffed(pair.view, d),
     told |-> Follow(pair.told, pair.view, TransformState(d.joins), TransformState(d.leaves))]

\* The pending diffs, applied one after the other.
AfterDiffs(pair, diffs) ==
    LET after[i \in 0..Len(diffs)] == IF i = 0 THEN pair ELSE Told(after[i - 1], diffs[i])
    IN  after[Len(diffs)]

\* The handler of presence_state.
StateArrives ==
    /\ wire # <<>> /\ Head(wire).event = "presence_state"
    /\ wire' = Tail(wire)
    /\ syncRef' = joinRef
    /\ LET new == TransformState(Head(wire).joins)
           synced == [view |-> SyncState(state, new),
                      told |-> Follow(told, state, JoinsOf(state, new), LeavesOf(state, new))]
           result == AfterDiffs(synced, pendingDiffs)
       IN  state' = result.view /\ told' = result.told
    /\ pendingDiffs' = <<>>
    /\ outdated' = \E i \in DOMAIN pendingDiffs : pendingDiffs[i].of # Head(wire).of
    /\ UNCHANGED <<joinCount, joinRef, present, process, stateSent, tracked>>

\* The handler of presence_diff.
DiffArrives ==
    /\ wire # <<>> /\ Head(wire).event = "presence_diff"
    /\ wire' = Tail(wire)
    /\ IF InPendingSyncState
         THEN pendingDiffs' = Append(pendingDiffs, Head(wire)) /\ UNCHANGED <<state, told>>
         ELSE LET result == Told([view |-> state, told |-> told], Head(wire))
              IN  state' = result.view /\ told' = result.told /\ UNCHANGED pendingDiffs
    /\ UNCHANGED <<syncRef, joinCount, joinRef, present, process, stateSent, tracked, outdated>>
-----------------------------------------------------------------------------
\* The channel joins, or rejoins, on the connection it has or on a new one: what the old
\* connection carried is lost with it.  A join that is sent again while its timeout is still
\* set, or was never cleared, has no ref: Push.resend takes it away and makes none.
Rejoin ==
    /\ joinCount < MaxJoin /\ joinCount' = joinCount + 1
    /\ joinRef' \in {joinCount'} \cup (IF joinCount = 0 THEN {} ELSE {0})
    /\ \/ process' = 0 /\ stateSent' = FALSE /\ wire' = <<>>
       \/ UNCHANGED <<process, stateSent, wire>>
    /\ UNCHANGED <<state, pendingDiffs, syncRef, told, present, tracked, outdated>>

\* The server handles the join: the process of an earlier one ends.
ServerJoin ==
    /\ process < joinCount
    /\ process' = joinCount /\ stateSent' = FALSE
    /\ UNCHANGED <<state, pendingDiffs, syncRef, joinCount, joinRef, told, present, wire, tracked, outdated>>

Metas(refs) == {[phx_ref |-> r, phx_ref_prev |-> 0] : r \in refs}
Alone(k, metas) == [Nobody EXCEPT ![k] = metas]

\* The state follows the reply to a join, but diffs may overtake it.
ServerState ==
    /\ process # 0 /\ ~stateSent
    /\ stateSent' = TRUE
    /\ wire' = Append(wire, Raw("presence_state", [k \in Key |-> Metas(present[k])], Nobody))
    /\ UNCHANGED <<state, pendingDiffs, syncRef, joinCount, joinRef, told, present, process, tracked, outdated>>

Publish(joins, leaves) ==
    wire' = IF process = 0 THEN wire ELSE Append(wire, Raw("presence_diff", joins, leaves))

\* Someone tracks a presence, or updates one, which replaces it.
ServerTrack(k) ==
    /\ tracked < MaxPresence /\ tracked' = tracked + 1
    /\ \E old \in {0} \cup present[k] :
          LET gone == IF old = 0 THEN {} ELSE {old} IN
          /\ present' = [present EXCEPT ![k] = (@ \ gone) \cup {tracked'}]
          /\ Publish(Alone(k, {[phx_ref |-> tracked', phx_ref_prev |-> old]}),
                     Alone(k, Metas(gone)))
    /\ UNCHANGED <<state, pendingDiffs, syncRef, joinCount, joinRef, told, process, stateSent, outdated>>

ServerUntrack(k) ==
    /\ \E r \in present[k] :
          /\ present' = [present EXCEPT ![k] = @ \ {r}]
          /\ Publish(Nobody, Alone(k, Metas({r})))
    /\ UNCHANGED <<state, pendingDiffs, syncRef, joinCount, joinRef, told, process, stateSent, tracked, outdated>>

Next ==
    \/ StateArrives \/ DiffArrives
    \/ Rejoin \/ ServerJoin \/ ServerState
    \/ \E k \in Key : ServerTrack(k) \/ ServerUntrack(k)

Spec == Init /\ [][Next]_vars
-----------------------------------------------------------------------------
TypeOK ==
    /\ state \in [Key -> SUBSET (1..MaxPresence)] /\ told \in [Key -> SUBSET (1..MaxPresence)]
    /\ present \in [Key -> SUBSET (1..MaxPresence)]
    /\ syncRef \in 0..MaxJoin /\ joinCount \in 0..MaxJoin /\ joinRef \in {0, joinCount}
    /\ process \in 0..MaxJoin
    /\ stateSent \in BOOLEAN
    /\ tracked \in 0..MaxPresence /\ outdated \in BOOLEAN

\* The state of the current join, which has a ref, has arrived, and nothing more is on its way.
InSync == joinRef # 0 /\ process = joinRef /\ stateSent /\ wire = <<>>

\* Whoever follows the join and leave events knows the state.  Once in sync, it is that of the
\* server, whatever was lost, overtaken or kept back before; but for diffs of an earlier join, which
\* nothing removes from pendingDiffs and which are applied after the state of the next.  After a join
\* without a ref every diff is kept back, until a join that has one.
PresenceAgrees ==
    /\ told = state
    /\ InSync => state = present \/ outdated
=============================================================================
