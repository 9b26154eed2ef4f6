----------------------------- MODULE MCRealtime -----------------------------
(***************************************************************************)
(* RealtimeClient and RealtimeAuth for TLC, in one run: a behaviour is one *)
(* of the socket with its channels or one of its tokens, as part says.     *)
(* Neither module reads what the other keeps.  The part that does not run  *)
(* stays in its initial state, in which no fair action is enabled: fairness*)
(* binds the part that runs.                                               *)
(***************************************************************************)
EXTENDS RealtimeClient

CONSTANTS c1, c2, p1, p2, MaxToken, Auth, MaxLost

ASSUME TokenAssumption == MaxToken \in Nat

VARIABLES
    part,                   \* "socket" or "tokens"
    session, issued, notices, changedAccessToken, performing, authPromise, accessTokenValue,
    tokenConn, flushAfter, lost, channel, joinPayload, tokenBuffer, server, oldJoin

Tokens == INSTANCE RealtimeAuth WITH conn <- tokenConn, sendBuffer <- tokenBuffer

tokenVars ==
    <<session, issued, notices, changedAccessToken, performing, authPromise, accessTokenValue,
      tokenConn, flushAfter, lost, channel, joinPayload, tokenBuffer, server, oldJoin>>

MCOwner == [p \in {p1, p2} |-> c1]

MCInit == part \in {"socket", "tokens"} /\ Init /\ Tokens!Init

MCNext ==
    /\ UNCHANGED part
    /\ \/ part = "socket" /\ Next /\ UNCHANGED tokenVars
       \/ part = "tokens" /\ Tokens!Next /\ UNCHANGED vars

MCSpec ==
    /\ MCInit /\ [][MCNext]_<<part, vars, tokenVars>>
    /\ Fairness /\ Tokens!Fairness

TypesOK == TypeOK /\ Tokens!TypeOK

\* See RealtimeAuth.
TokenSettles == Tokens!TokenSettles
=============================================================================
