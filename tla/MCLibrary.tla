------------------------------ MODULE MCLibrary ------------------------------
(***************************************************************************)
(* The modules about calls of the libraries for TLC, in one run: a         *)
(* behaviour is one of the module that part names, and the variables of the*)
(* others stay as they begin.  They share no state.  The assumptions of    *)
(* Conversions are evaluated with it.                                      *)
(***************************************************************************)
EXTENDS AuthApi, Conversions, TLC

CONSTANTS
    Claims, Kid, JWKS_TTL, MaxTime,
    Ceremony, Name,
    Chain, Source, Column, Operator, MaxCalls,
    Key, MaxPresence, MaxJoin,
    MaxAwaits,
    Part                    \* the parts that run

VARIABLES
    part,
    now, keys, gone, jwks, cached_at, phase, kid, fetched_at, jwksAnswer, trusted,
    ceremonyStep, kind, name, ownSignal, controller, ceremonyAborted, ceremonyResult, verified,
    params, preferred, from, request, calls,
    state, pendingDiffs, syncRef, joinCount, joinRef, presenceTold, present, process, stateSent, wire,
    tracked, outdated,
    method, throwing, signal, timeout, step, awaits, requests, answer, aborted, stopped, timer, outcome

Jwks == INSTANCE JwksCache WITH answer <- jwksAnswer
Passkeys == INSTANCE WebAuthn WITH step <- ceremonyStep, aborted <- ceremonyAborted, result <- ceremonyResult
Query == INSTANCE PostgrestQuery
Presence == INSTANCE RealtimePresence WITH told <- presenceTold
Calls == INSTANCE LibraryCalls

\* What the proofs about the parts assume of these values.
ASSUME ProofsApply ==
    /\ MaxTime \in Nat /\ JWKS_TTL \in Nat \ {0}
    /\ None \notin Ceremony
    /\ IsFiniteSet(Chain) /\ MaxCalls \in Nat /\ Operator \subseteq Query!FilterOperator
    /\ Query!Unset \notin Source
    /\ MaxAwaits \in Nat \ {0}
    /\ MaxPresence \in Nat /\ MaxJoin \in Nat
    /\ Part \subseteq {"auth", "jwks", "passkeys", "query", "presence", "calls"}

jwksVars == <<now, keys, gone, jwks, cached_at, phase, kid, fetched_at, jwksAnswer, trusted>>
passkeyVars ==
    <<ceremonyStep, kind, name, ownSignal, controller, ceremonyAborted, ceremonyResult, verified>>
queryVars == <<params, preferred, from, request, calls>>
presenceVars ==
    <<state, pendingDiffs, syncRef, joinCount, joinRef, presenceTold, present, process, stateSent, wire,
      tracked, outdated>>
callsVars ==
    <<method, throwing, signal, timeout, step, awaits, requests, answer, aborted, stopped, timer, outcome>>

\* One of the initial states for each part that does not run.
Idle ==
    /\ part # "auth" => flowType = "pkce" /\ stored = None /\ verifier = None
    /\ part # "jwks" => keys = {}
    /\ part # "passkeys" => verified = {}
    /\ part # "calls" => method = Calls!invoke /\ signal = "none" /\ ~throwing /\ ~timeout

MCInit ==
    /\ part \in Part
    /\ Init /\ Jwks!Init /\ Passkeys!Init /\ Query!Init /\ Presence!Init /\ Calls!Init
    /\ Idle

MCNext ==
    /\ UNCHANGED part
    /\ \/ /\ part = "auth" /\ Next
          /\ UNCHANGED <<jwksVars, passkeyVars, queryVars, presenceVars, callsVars>>
       \/ /\ part = "jwks" /\ Jwks!Next
          /\ UNCHANGED <<vars, passkeyVars, queryVars, presenceVars, callsVars>>
       \/ /\ part = "passkeys" /\ Passkeys!Next
          /\ UNCHANGED <<vars, jwksVars, queryVars, presenceVars, callsVars>>
       \/ /\ part = "query" /\ Query!Next
          /\ UNCHANGED <<vars, jwksVars, passkeyVars, presenceVars, callsVars>>
       \/ /\ part = "presence" /\ Presence!Next
          /\ UNCHANGED <<vars, jwksVars, passkeyVars, queryVars, callsVars>>
       \/ /\ part = "calls" /\ Calls!Next
          /\ UNCHANGED <<vars, jwksVars, passkeyVars, queryVars, presenceVars>>

MCSpec ==
    MCInit /\ [][MCNext]_<<part, vars, jwksVars, passkeyVars, queryVars, presenceVars, callsVars>>

\* Calls, calls of getClaims and chains are the same two names.
Symmetry == Permutations(Call)

\* What follows says nothing new of a part that does not run.
TypesOK ==
    CASE part = "auth" -> TypeOK
      [] part = "jwks" -> Jwks!TypeOK
      [] part = "passkeys" -> Passkeys!TypeOK
      [] part = "query" -> Query!TypeOK
      [] part = "presence" -> Presence!TypeOK
      [] part = "calls" -> Calls!TypeOK

\* See JwksCache, WebAuthn, PostgrestQuery, RealtimePresence and LibraryCalls.
KeysFresh == part = "jwks" => Jwks!KeysFresh
OneCeremony == part = "passkeys" => Passkeys!OneCeremony
RequestIsItsChain == part = "query" => Query!RequestIsItsChain
PresenceAgrees == part = "presence" => Presence!PresenceAgrees
FailuresShow == part = "calls" => Calls!FailuresShow
=============================================================================
