------------------------------ MODULE JwksCache ------------------------------
(***************************************************************************)
(* getClaims of GoTrueClient (auth-js) and the JSON Web Key Set it caches  *)
(* for all clients of a storage key: fetchJwk takes a key from the cache   *)
(* for JWKS_TTL and asks the server otherwise, with calls that overlap and *)
(* answers that come late.  The server, which publishes keys and withdraws *)
(* them, is external.                                                      *)
(***************************************************************************)
EXTENDS Integers, FiniteSets

CONSTANTS
    Claims,                 \* calls of getClaims, each made once
    Kid,                    \* ids of signing keys
    JWKS_TTL,               \* in units of the model's clock
    MaxTime,                \* bound: the clock
    None

VARIABLES
    now,                    \* Date.now()
    keys,                   \* the server: the keys it publishes
    gone,                   \* the server: when a key was withdrawn, Never if it was not
    jwks, cached_at,        \* jwks, jwks_cached_at
    phase,                  \* "new", "fetching", "answered", "asking" the user's endpoint, "done"
    kid,                    \* the key that the token of a call names
    fetched_at,             \* the now of a call's fetchJwk
    answer,                 \* the key set in the answer to a call
    trusted                 \* how a call came to its claims: "key", "server", or "no"

callVars == <<phase, kid, fetched_at, answer, trusted>>
vars == <<now, keys, gone, jwks, cached_at, callVars>>

Never == MaxTime + 1
MinSafeInteger == -JWKS_TTL     \* so long ago that it is stale at once

Init ==
    /\ now = 0
    /\ keys \in SUBSET Kid /\ gone = [k \in Kid |-> Never]
    /\ jwks = {} /\ cached_at = MinSafeInteger
    /\ phase = [c \in Claims |-> "new"]
    /\ kid = [c \in Claims |-> None] /\ fetched_at = [c \in Claims |-> 0]
    /\ answer = [c \in Claims |-> {}]
    /\ trusted = [c \in Claims |-> "no"]
-----------------------------------------------------------------------------
Goes(c, to) == phase' = [phase EXCEPT ![c] = to]

\* importKey and verify with the key: the signature may turn out wrong.
Verified(c) ==
    /\ Goes(c, "done")
    /\ trusted' \in {trusted, [trusted EXCEPT ![c] = "key"]}

\* A token that cannot be decoded, is expired or has an unknown algorithm is refused; one
\* without a kid, or signed with a secret, is for the server to judge.
WithoutKey(c) ==
    /\ phase[c] = "new"
    /\ \E to \in {"asking", "done"} : Goes(c, to)
    /\ UNCHANGED <<now, keys, gone, jwks, cached_at, kid, fetched_at, answer, trusted>>

\* A key of the cache that is not stale.
FreshlyCached(k) == k \in jwks /\ cached_at + JWKS_TTL > now

\* fetchJwk up to its request.  A key among the supplied ones is taken as it is: the caller
\* vouches for it.
FetchJwk(c, k) ==
    /\ phase[c] = "new"
    /\ kid' = [kid EXCEPT ![c] = k]
    /\ fetched_at' = [fetched_at EXCEPT ![c] = now]
    /\ IF FreshlyCached(k)
         THEN Verified(c)
         ELSE Goes(c, "fetching") /\ UNCHANGED trusted
    /\ UNCHANGED <<now, keys, gone, jwks, cached_at, answer>>

\* Variant to refute: the keys count as cached from when they come.
CachedFromArrival(c) == now

\* The keys count as cached from before they were asked for.
CachedFrom(c) == fetched_at[c]

\* fetchJwk after its request.  No keys at all are not cached.
JwksArrive(c) ==
    /\ phase[c] = "answered"
    /\ IF answer[c] = {}
         THEN UNCHANGED <<jwks, cached_at>>
         ELSE jwks' = answer[c] /\ cached_at' = CachedFrom(c)
    /\ IF kid[c] \in answer[c] THEN Verified(c) ELSE Goes(c, "asking") /\ UNCHANGED trusted
    /\ answer' = [answer EXCEPT ![c] = {}]
    /\ UNCHANGED <<now, keys, gone, kid, fetched_at>>

FetchFails(c) ==
    /\ phase[c] \in {"fetching", "answered"}
    /\ Goes(c, "done")
    /\ UNCHANGED <<now, keys, gone, jwks, cached_at, kid, fetched_at, answer, trusted>>

\* getUser with the token: the server trusts it or does not.
GetUser(c) ==
    /\ phase[c] = "asking"
    /\ Goes(c, "done")
    /\ trusted' \in {trusted, [trusted EXCEPT ![c] = "server"]}
    /\ UNCHANGED <<now, keys, gone, jwks, cached_at, kid, fetched_at, answer>>
-----------------------------------------------------------------------------
ServerAnswers(c) ==
    /\ phase[c] = "fetching"
    /\ Goes(c, "answered")
    /\ answer' = [answer EXCEPT ![c] = keys]
    /\ UNCHANGED <<now, keys, gone, jwks, cached_at, kid, fetched_at, trusted>>

Publish(k) ==
    /\ k \notin keys /\ gone[k] = Never
    /\ keys' = keys \cup {k}
    /\ UNCHANGED <<now, gone, jwks, cached_at, callVars>>

Withdraw(k) ==
    /\ k \in keys
    /\ keys' = keys \ {k} /\ gone' = [gone EXCEPT ![k] = now]
    /\ UNCHANGED <<now, jwks, cached_at, callVars>>

Tick ==
    /\ now < MaxTime /\ now' = now + 1
    /\ UNCHANGED <<keys, gone, jwks, cached_at, callVars>>

Next ==
    \/ \E c \in Claims :
          \/ WithoutKey(c) \/ (\E k \in Kid : FetchJwk(c, k)) \/ JwksArrive(c) \/ FetchFails(c) \/ GetUser(c)
          \/ ServerAnswers(c)
    \/ \E k \in Kid : Publish(k) \/ Withdraw(k)
    \/ Tick

Spec == Init /\ [][Next]_vars
-----------------------------------------------------------------------------
TypeOK ==
    /\ now \in 0..MaxTime /\ keys \subseteq Kid /\ gone \in [Kid -> 0..Never]
    /\ jwks \subseteq Kid /\ cached_at \in MinSafeInteger..MaxTime
    /\ phase \in [Claims -> {"new", "fetching", "answered", "asking", "done"}]
    /\ kid \in [Claims -> Kid \cup {None}] /\ fetched_at \in [Claims -> 0..MaxTime]
    /\ answer \in [Claims -> SUBSET Kid] /\ trusted \in [Claims -> {"no", "key", "server"}]

\* Claims are trusted by a key that the server had withdrawn for less than JWKS_TTL when
\* they were asked for, however late answers came and whichever overwrote which.
KeysFresh ==
    \A c \in Claims : trusted[c] = "key" => gone[kid[c]] > fetched_at[c] - JWKS_TTL
=============================================================================
