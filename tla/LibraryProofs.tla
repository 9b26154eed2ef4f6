---------------------------- MODULE LibraryProofs ----------------------------
(***************************************************************************)
(* Proofs about the modules that MCLibrary runs side by side, for any      *)
(* number of calls: that a behaviour of MCLibrary is one of each of them,  *)
(* and what follows for the invariants of its run.                         *)
(***************************************************************************)
EXTENDS MCLibrary, AuthApiProofs, WellFoundedInduction, SequenceTheorems, TLAPS

mcVars == <<part, vars, jwksVars, passkeyVars, queryVars, presenceVars, callsVars>>

\* The parts share no state: what runs side by side is a behaviour of each part.
LEMMA PartsBegin ==
    MCInit => Init /\ Jwks!Init /\ Passkeys!Init /\ Query!Init /\ Presence!Init /\ Calls!Init
BY DEF MCInit

LEMMA AuthSteps == [MCNext]_mcVars => [Next]_vars
BY DEF MCNext, mcVars

LEMMA JwksSteps == [MCNext]_mcVars => [Jwks!Next]_(Jwks!vars)
BY DEF MCNext, mcVars, jwksVars, Jwks!vars, Jwks!callVars

LEMMA PasskeySteps == [MCNext]_mcVars => [Passkeys!Next]_(Passkeys!vars)
BY DEF MCNext, mcVars, passkeyVars, Passkeys!vars

LEMMA QuerySteps == [MCNext]_mcVars => [Query!Next]_(Query!vars)
BY DEF MCNext, mcVars, queryVars, Query!vars

LEMMA PresenceSteps == [MCNext]_mcVars => [Presence!Next]_(Presence!vars)
BY DEF MCNext, mcVars, presenceVars, Presence!vars

LEMMA CallsSteps == [MCNext]_mcVars => [Calls!Next]_(Calls!vars)
BY DEF MCNext, mcVars, callsVars, Calls!vars

\* What holds of a part holds of what runs side by side.
THEOREM Composition ==
    MCSpec => Spec /\ Jwks!Spec /\ Passkeys!Spec /\ Query!Spec /\ Presence!Spec /\ Calls!Spec
BY PartsBegin, AuthSteps, JwksSteps, PasskeySteps, QuerySteps, PresenceSteps, CallsSteps, PTL
DEF MCSpec, Spec, Jwks!Spec, Passkeys!Spec, Query!Spec, Presence!Spec, Calls!Spec, mcVars
-----------------------------------------------------------------------------

\* The clock of every request and of the cache lies behind, and a key is kept, in the cache or
\* in an jwksAnswer on its way, from a time when the server still published it.
Dated ==
    /\ cached_at <= now /\ \A c \in Claims : fetched_at[c] <= now
    /\ \A k \in keys : gone[k] = Jwks!Never
    /\ \A k \in jwks : gone[k] >= cached_at
    /\ \A c \in Claims : phase[c] = "answered" => \A k \in jwksAnswer[c] : gone[k] >= fetched_at[c]

\* A call names its key when it fetches it, and trusts nothing before it is done.
Named ==
    \A c \in Claims :
        /\ phase[c] \in {"fetching", "answered"} \/ trusted[c] = "key" => kid[c] \in Kid
        /\ phase[c] # "done" => trusted[c] = "no"

JwksInv == Jwks!TypeOK /\ Dated /\ Named /\ Jwks!KeysFresh

\* The initial states have the invariant.
LEMMA JwksInitInv ==
    ASSUME MaxTime \in Nat, JWKS_TTL \in Nat \ {0}
    PROVE  Jwks!Init => JwksInv
BY SMT DEF Jwks!Init, JwksInv, Jwks!TypeOK, Dated, Named, Jwks!KeysFresh, Jwks!Never, Jwks!MinSafeInteger

\* A call that ends its verification with a key that was fresh keeps the invariant's last part.
LEMMA VerifiedTypes ==
    ASSUME Jwks!TypeOK, NEW c \in Claims, Jwks!Verified(c)
    PROVE  /\ phase' = [phase EXCEPT ![c] = "done"]
           /\ phase' \in [Claims -> {"new", "fetching", "answered", "asking", "done"}]
           /\ trusted' \in [Claims -> {"no", "key", "server"}]
           /\ \A d \in Claims \ {c} : trusted'[d] = trusted[d]
           /\ trusted'[c] \in {trusted[c], "key"}
BY SMT DEF Jwks!TypeOK, Jwks!Verified, Jwks!Goes

\* Every step keeps it.
LEMMA JwksNextInv ==
    ASSUME MaxTime \in Nat, JWKS_TTL \in Nat \ {0}, JwksInv, [Jwks!Next]_(Jwks!vars)
    PROVE  JwksInv'
<1> USE DEF Jwks!Never, Jwks!MinSafeInteger
<1>1. ASSUME NEW c \in Claims, Jwks!WithoutKey(c) PROVE JwksInv'
  BY <1>1, SMT DEF Jwks!WithoutKey, Jwks!Goes, JwksInv, Jwks!TypeOK, Dated, Named, Jwks!KeysFresh
<1>2. ASSUME NEW c \in Claims, NEW k \in Kid, Jwks!FetchJwk(c, k) PROVE JwksInv'
  <2>1. CASE Jwks!FreshlyCached(k)
    <3>1. Jwks!Verified(c) BY <1>2, <2>1 DEF Jwks!FetchJwk
    <3> QED
      BY <1>2, <2>1, <3>1, VerifiedTypes, SMT
      DEF Jwks!FetchJwk, Jwks!FreshlyCached, JwksInv, Jwks!TypeOK, Dated, Named, Jwks!KeysFresh
  <2>2. CASE ~Jwks!FreshlyCached(k)
    BY <1>2, <2>2, SMT DEF Jwks!FetchJwk, Jwks!Goes, JwksInv, Jwks!TypeOK, Dated, Named, Jwks!KeysFresh
  <2> QED BY <2>1, <2>2
<1>3. ASSUME NEW c \in Claims, Jwks!JwksArrive(c) PROVE JwksInv'
  <2> USE DEF Jwks!CachedFrom
  <2>1. CASE kid[c] \in jwksAnswer[c]
    <3>1. Jwks!Verified(c) BY <1>3, <2>1 DEF Jwks!JwksArrive
    <3> QED
      BY <1>3, <2>1, <3>1, VerifiedTypes, SMT
      DEF Jwks!JwksArrive, JwksInv, Jwks!TypeOK, Dated, Named, Jwks!KeysFresh
  <2>2. CASE kid[c] \notin jwksAnswer[c]
    BY <1>3, <2>2, SMT DEF Jwks!JwksArrive, Jwks!Goes, JwksInv, Jwks!TypeOK, Dated, Named, Jwks!KeysFresh
  <2> QED BY <2>1, <2>2
<1>4. ASSUME NEW c \in Claims, Jwks!FetchFails(c) PROVE JwksInv'
  BY <1>4, SMT DEF Jwks!FetchFails, Jwks!Goes, JwksInv, Jwks!TypeOK, Dated, Named, Jwks!KeysFresh
<1>5. ASSUME NEW c \in Claims, Jwks!GetUser(c) PROVE JwksInv'
  BY <1>5, SMT DEF Jwks!GetUser, Jwks!Goes, JwksInv, Jwks!TypeOK, Dated, Named, Jwks!KeysFresh
<1>6. ASSUME NEW c \in Claims, Jwks!ServerAnswers(c) PROVE JwksInv'
  BY <1>6, SMT DEF Jwks!ServerAnswers, Jwks!Goes, JwksInv, Jwks!TypeOK, Dated, Named, Jwks!KeysFresh
<1>7. ASSUME NEW k \in Kid, Jwks!Publish(k) PROVE JwksInv'
  BY <1>7, SMT DEF Jwks!Publish, Jwks!callVars, JwksInv, Jwks!TypeOK, Dated, Named, Jwks!KeysFresh
<1>8. ASSUME NEW k \in Kid, Jwks!Withdraw(k) PROVE JwksInv'
  BY <1>8, SMT DEF Jwks!Withdraw, Jwks!callVars, JwksInv, Jwks!TypeOK, Dated, Named, Jwks!KeysFresh
<1>9. CASE Jwks!Tick
  BY <1>9, SMT DEF Jwks!Tick, Jwks!callVars, JwksInv, Jwks!TypeOK, Dated, Named, Jwks!KeysFresh
<1>10. CASE UNCHANGED Jwks!vars
  BY <1>10, SMT DEF Jwks!vars, Jwks!callVars, JwksInv, Jwks!TypeOK, Dated, Named, Jwks!KeysFresh
<1> QED BY <1>1, <1>2, <1>3, <1>4, <1>5, <1>6, <1>7, <1>8, <1>9, <1>10 DEF Jwks!Next

\* getClaims trusts no key that the server had withdrawn for JWKS_TTL when the claims were
\* asked for, however many calls overlap and however late their answers come.
THEOREM KeysAreFresh == MCSpec => []KeysFresh
<1>1. Jwks!Init => JwksInv BY ProofsApply, JwksInitInv
<1>2. JwksInv /\ [Jwks!Next]_(Jwks!vars) => JwksInv' BY ProofsApply, JwksNextInv
<1>3. Jwks!Spec => []JwksInv BY <1>1, <1>2, PTL DEF Jwks!Spec
<1>4. JwksInv => KeysFresh BY DEF JwksInv, KeysFresh
<1> QED BY <1>3, <1>4, Composition, PTL
-----------------------------------------------------------------------------

CeremonyStep == {"new", "enrolling", "listing", "challenging", "ceremony", "verifying", "done"}

\* The service gives a signal only to calls that have begun and brought none.
Served ==
    /\ ceremonyStep \in [Ceremony -> CeremonyStep]
    /\ controller \in Ceremony \cup {None}
    /\ ownSignal \subseteq Ceremony /\ ceremonyAborted \subseteq Ceremony
    /\ \A c \in ceremonyAborted \cup ({controller} \ {None}) : ceremonyStep[c] # "new" /\ c \notin ownSignal

PasskeysInv == Served /\ Passkeys!OneCeremony

\* Where a call may go.
LEMMA GoesStep ==
    ASSUME Served, NEW c \in Ceremony, NEW source, NEW to \in CeremonyStep, Passkeys!Goes(c, source, to)
    PROVE  /\ ceremonyStep' \in [Ceremony -> CeremonyStep]
           /\ ceremonyStep[c] = source /\ ceremonyStep'[c] = to
           /\ \A d \in Ceremony \ {c} : ceremonyStep'[d] = ceremonyStep[d]
BY DEF Served, Passkeys!Goes

\* A ceremonyStep that leaves the service alone and begins no ceremony keeps the invariant.
LEMMA AnyOtherStep ==
    ASSUME PasskeysInv, NEW c \in Ceremony, NEW source \in CeremonyStep \ {"new"}, NEW to \in CeremonyStep \ {"new", "ceremony"},
           Passkeys!Goes(c, source, to), UNCHANGED <<controller, ceremonyAborted, ownSignal>>
    PROVE  PasskeysInv'
BY GoesStep, SMT DEF PasskeysInv, Served, Passkeys!OneCeremony

\* A call that begins may bring a signal of its own.
LEMMA BeginsKeeps ==
    ASSUME PasskeysInv, NEW c \in Ceremony, NEW what, NEW m, NEW to \in {"enrolling", "challenging"},
           Passkeys!Begins(c, what, m, to)
    PROVE  PasskeysInv'
<1>1. PICK t \in {to, "done"} : Passkeys!Goes(c, "new", t) BY DEF Passkeys!Begins, Passkeys!Ends
<1>2. t \in CeremonyStep \ {"new", "ceremony"} BY DEF CeremonyStep
<1>3. /\ ceremonyStep' \in [Ceremony -> CeremonyStep]
      /\ ceremonyStep[c] = "new" /\ ceremonyStep'[c] = t
      /\ \A d \in Ceremony \ {c} : ceremonyStep'[d] = ceremonyStep[d]
  BY <1>1, <1>2, GoesStep DEF PasskeysInv
<1>4. ownSignal' \in {ownSignal, ownSignal \cup {c}} /\ UNCHANGED <<controller, ceremonyAborted>>
  BY DEF Passkeys!Begins
<1> QED BY <1>2, <1>3, <1>4, SMT DEF PasskeysInv, Served, Passkeys!OneCeremony

\* A challenge that comes begins a ceremony: with a new signal of the service the last one is
\* told to end.
LEMMA ChallengeKeeps ==
    ASSUME None \notin Ceremony, PasskeysInv, NEW c \in Ceremony, Passkeys!Challenge(c)
    PROVE  PasskeysInv'
<1>1. UNCHANGED ownSignal BY DEF Passkeys!Challenge
<1>2. CASE Passkeys!Goes(c, "challenging", "ceremony") /\ c \in ownSignal /\ UNCHANGED <<controller, ceremonyAborted>>
  <2>1. "ceremony" \in CeremonyStep BY DEF CeremonyStep
  <2> QED BY <1>1, <1>2, <2>1, GoesStep, SMT DEF PasskeysInv, Served, Passkeys!OneCeremony
<1>3. CASE Passkeys!Goes(c, "challenging", "ceremony") /\ c \notin ownSignal /\ Passkeys!CreateNewAbortSignal(c)
  <2>1. /\ ceremonyStep' \in [Ceremony -> CeremonyStep]
        /\ ceremonyStep[c] = "challenging" /\ ceremonyStep'[c] = "ceremony"
        /\ \A d \in Ceremony \ {c} : ceremonyStep'[d] = ceremonyStep[d]
    BY <1>3, GoesStep DEF PasskeysInv, CeremonyStep
  <2>2. controller' = c /\ ceremonyAborted' = ceremonyAborted \cup ({controller} \ {None})
    BY <1>3 DEF Passkeys!CreateNewAbortSignal
  <2>3. Served' BY <1>1, <1>3, <2>1, <2>2, SMT DEF PasskeysInv, Served
  <2>4. Passkeys!OneCeremony' BY <1>1, <1>3, <2>1, <2>2, SMT DEF PasskeysInv, Served, Passkeys!OneCeremony
  <2> QED BY <2>3, <2>4 DEF PasskeysInv
<1>4. CASE Passkeys!Goes(c, "challenging", "done") /\ UNCHANGED <<controller, ceremonyAborted>>
  BY <1>1, <1>4, AnyOtherStep DEF CeremonyStep
<1> QED BY <1>2, <1>3, <1>4 DEF Passkeys!Challenge, Passkeys!Ends

\* Every ceremonyStep keeps the invariant.
LEMMA PasskeysNextInv ==
    ASSUME None \notin Ceremony, PasskeysInv, [Passkeys!Next]_(Passkeys!vars)
    PROVE  PasskeysInv'
<1>1. ASSUME NEW c \in Ceremony, NEW m \in Name, Passkeys!register(c, m) \/ Passkeys!authenticate(c, m) PROVE PasskeysInv'
  BY <1>1, BeginsKeeps DEF Passkeys!register, Passkeys!authenticate
<1>2. ASSUME NEW c \in Ceremony,
             Passkeys!Enroll(c) \/ Passkeys!UnenrollOfThatName(c) \/ Passkeys!Credential(c) \/ Passkeys!CeremonyFails(c) \/ Passkeys!Verify(c)
      PROVE PasskeysInv'
  <2>1. UNCHANGED <<controller, ceremonyAborted, ownSignal>>
    BY <1>2 DEF Passkeys!Enroll, Passkeys!UnenrollOfThatName, Passkeys!Credential, Passkeys!CeremonyFails, Passkeys!Verify
  <2>2. \E source \in CeremonyStep \ {"new"}, to \in CeremonyStep \ {"new", "ceremony"} : Passkeys!Goes(c, source, to)
    BY <1>2 DEF Passkeys!Enroll, Passkeys!UnenrollOfThatName, Passkeys!Credential, Passkeys!CeremonyFails, Passkeys!Verify, Passkeys!Ends, CeremonyStep
  <2> QED BY <2>1, <2>2, AnyOtherStep
<1>3. ASSUME NEW c \in Ceremony, Passkeys!Challenge(c) PROVE PasskeysInv'
  BY <1>3, ChallengeKeeps
<1>4. CASE Passkeys!CancelCeremony
  BY <1>4, SMT DEF Passkeys!CancelCeremony, PasskeysInv, Served, Passkeys!OneCeremony
<1>5. CASE UNCHANGED Passkeys!vars
  BY <1>5, SMT DEF Passkeys!vars, PasskeysInv, Served, Passkeys!OneCeremony
<1> QED BY <1>1, <1>2, <1>3, <1>4, <1>5 DEF Passkeys!Next

\* Of the ceremonies that use the signal of the service one at most is not told to end, the one
\* that cancelCeremony reaches, however many calls overlap.
THEOREM OneCeremonyAtATime == MCSpec => []OneCeremony
<1>1. Passkeys!Init => PasskeysInv
  BY SMT DEF Passkeys!Init, PasskeysInv, Served, Passkeys!OneCeremony, CeremonyStep
<1>2. PasskeysInv /\ [Passkeys!Next]_(Passkeys!vars) => PasskeysInv' BY ProofsApply, PasskeysNextInv
<1>3. Passkeys!Spec => []PasskeysInv BY <1>1, <1>2, PTL DEF Passkeys!Spec
<1>4. PasskeysInv => OneCeremony BY DEF PasskeysInv, OneCeremony
<1> QED BY <1>3, <1>4, Composition, PTL
-----------------------------------------------------------------------------
\* What the methods have in common, as far as it matters to the outcome of a call.
Libraries == Calls!Storage \cup {"vectors"} \cup Calls!Admin \cup Calls!Postgrest \cup {"functions"}

Shaped(m) ==
    /\ DOMAIN m = {"library", "usable", "reads", "checked", "promise"}
    /\ m.library \in Libraries
    /\ m.reads \in BOOLEAN /\ m.checked \in BOOLEAN
    /\ m.promise \in {"eager", "lazy", "cached"}
    /\ m.library = "functions" \/ m.checked => m.promise = "eager"

LEMMA MethodShape ==
    ASSUME NEW library \in Libraries, NEW usable, NEW reads \in BOOLEAN, NEW checked \in BOOLEAN,
           NEW promise \in {"eager", "lazy", "cached"},
           library = "functions" \/ checked => promise = "eager"
    PROVE  Shaped(Calls!Method(library, usable, reads, checked, promise))
BY DEF Shaped, Calls!Method

LEMMA PlainShape ==
    ASSUME NEW library \in Libraries
    PROVE  /\ Shaped(Calls!Plain(library)) /\ Calls!Plain(library).promise = "eager"
           /\ Shaped(Calls!OfFields(library)) /\ Calls!OfFields(library).promise = "eager"
<1>1. Shaped(Calls!Plain(library)) /\ Shaped(Calls!OfFields(library))
  BY MethodShape DEF Calls!Plain, Calls!OfFields
<1> QED BY <1>1 DEF Calls!Plain, Calls!OfFields, Calls!Method

LEMMA CheckedShape == \A m : Shaped(m) /\ m.promise = "eager" => Shaped(Calls!Checked(m))
BY DEF Shaped, Calls!Checked

LEMMA SingleShape ==
    \A m : Shaped(m) /\ m.library = "postgrest" =>
        /\ Shaped([m EXCEPT !.library = "postgrest maybeSingle"])
        /\ Shaped([m EXCEPT !.library = "postgrest maybeSingle written"])
BY DEF Shaped, Libraries, Calls!Postgrest, Calls!Single

LEMMA MethodsShape == \A m \in Calls!Methods : Shaped(m)
<1> USE DEF Libraries, Calls!Storage, Calls!Admin, Calls!Single, Calls!Postgrest
<1>1. /\ Shaped(Calls!Plain("storage")) /\ Shaped(Calls!OfFields("storage"))
      /\ Shaped(Calls!Plain("vectors")) /\ Shaped(Calls!Plain("admin"))
      /\ Shaped(Calls!OfFields("admin")) /\ Shaped(Calls!Plain("functions"))
  BY PlainShape
<1>2. \A usable, library, promise :
        library \in Libraries /\ promise \in {"eager", "lazy", "cached"}
        /\ (library = "functions" => promise = "eager") =>
            /\ Shaped(Calls!Method(library, usable, TRUE, FALSE, promise))
            /\ Shaped(Calls!Method(library, usable, FALSE, FALSE, promise))
  BY MethodShape
<1>3. /\ Shaped(Calls!Checked(Calls!Plain("vectors"))) /\ Shaped(Calls!Checked(Calls!Plain("admin")))
      /\ Shaped(Calls!Checked(Calls!OfFields("admin")))
      /\ Shaped(Calls!adminSignOut)
  <2>1. Shaped(Calls!Method("admin", Calls!Body, FALSE, FALSE, "eager"))
    BY <1>2
  <2>2. Calls!Method("admin", Calls!Body, FALSE, FALSE, "eager").promise = "eager"
    BY DEF Calls!Method
  <2> HIDE DEF Libraries, Calls!Storage, Calls!Admin, Calls!Single, Calls!Postgrest
  <2> QED BY PlainShape, <2>1, <2>2, CheckedShape DEF Calls!adminSignOut, Libraries, Calls!Admin
<1>4. Shaped(Calls!query) /\ Calls!query.library = "postgrest"
  BY <1>2 DEF Calls!query, Calls!Method
<1>5. Shaped(Calls!maybeSingle) /\ Shaped(Calls!maybeSingleWritten)
  BY <1>4, SingleShape DEF Calls!maybeSingle, Calls!maybeSingleWritten
<1>6. /\ Shaped(Calls!createSignedUploadUrl) /\ Shaped(Calls!createSignedUrls) /\ Shaped(Calls!exists)
      /\ Shaped(Calls!download) /\ Shaped(Calls!asStream) /\ Shaped(Calls!listUsers)
      /\ Shaped(Calls!listOAuthClients) /\ Shaped(Calls!deleteOAuthClient)
      /\ Shaped(Calls!csvQuery) /\ Shaped(Calls!headQuery) /\ Shaped(Calls!invokeStream)
  BY <1>2 DEF Calls!createSignedUploadUrl, Calls!createSignedUrls, Calls!exists, Calls!download,
     Calls!asStream, Calls!listUsers, Calls!listOAuthClients, Calls!deleteOAuthClient,
     Calls!csvQuery, Calls!headQuery, Calls!invokeStream
<1> SUFFICES ASSUME NEW m \in Calls!Methods PROVE Shaped(m)
  OBVIOUS
<1> HIDE DEF Shaped
<1> QED
  BY <1>1, <1>3, <1>4, <1>5, <1>6
  DEF Calls!Methods, Calls!uploadOrUpdate, Calls!uploadToSignedUrl,
     Calls!move, Calls!copy, Calls!createSignedUrl, Calls!info, Calls!remove, Calls!list,
     Calls!listV2, Calls!listBuckets, Calls!getBucket, Calls!createBucket,
     Calls!updateBucket, Calls!emptyBucket, Calls!deleteBucket, Calls!createAnalyticsBucket,
     Calls!listAnalyticsBuckets, Calls!deleteAnalyticsBucket, Calls!createVectorBucket,
     Calls!getVectorBucket, Calls!listVectorBuckets, Calls!deleteVectorBucket, Calls!createIndex,
     Calls!getIndex, Calls!listIndexes, Calls!deleteIndex, Calls!putVectors, Calls!getVectors,
     Calls!listVectors, Calls!queryVectors, Calls!deleteVectors,
     Calls!inviteUserByEmail, Calls!generateLink, Calls!createUser, Calls!getUserById,
     Calls!updateUserById, Calls!deleteUser, Calls!adminListFactors, Calls!adminDeleteFactor,
     Calls!createOAuthClient, Calls!getOAuthClient, Calls!updateOAuthClient,
     Calls!regenerateOAuthClientSecret, Calls!invoke

\* What a library may make of an answer.
LEMMA MakesWhat ==
    ASSUME NEW m \in Calls!Methods, NEW a, a.body \in Calls!Body,
           NEW made \in Calls!Makes(m, a)
    PROVE  /\ made \in {"data", "error", "other", "false", "anyway"}
           /\ made = "data" =>
                Calls!Ok(a) \/ (m.library \in Calls!Postgrest /\ Calls!NotAnError(m, a))
           /\ made = "anyway" => m.library = "postgrest maybeSingle" /\ a.body = "rows"
           /\ made = "other" => \/ m.library = "storage exists" /\ a.status # "404"
                                \/ Calls!Ok(a) /\ a.body \notin m.usable
                                \/ Calls!NullError(m, a)
           /\ made = "data" /\ a.body = "cut" /\ m.reads => ~Calls!CanAbort(m)
           /\ a.status = "none" => made # "data" /\ made # "anyway"
<1>1. Shaped(m)
  BY MethodsShape
<1>2. m.library \in Calls!Postgrest \cup {"functions"} \/ ~Calls!CanAbort(m) \/ m.library = "storage"
  BY DEF Calls!CanAbort, Calls!list, Calls!Plain, Calls!Method
<1>3. CASE m.library \in Calls!Storage
  <2>1. made = Calls!StorageMakes(m, a) \/ made = "error"
    BY <1>3 DEF Calls!Makes, Calls!Storage, Calls!Postgrest, Calls!Single, Calls!Admin
  <2>2. CASE Calls!StorageRejects(m, a)
    <3>1. Calls!StorageMakes(m, a) \in {"false", "other", "error"}
      BY <2>2 DEF Calls!StorageMakes
    <3>2. Calls!StorageMakes(m, a) = "other" => m.library = "storage exists" /\ a.status # "404"
      BY <2>2 DEF Calls!StorageMakes
    <3> QED BY <2>1, <3>1, <3>2
  <2>3. CASE ~Calls!StorageRejects(m, a)
    <3>1. Calls!StorageMakes(m, a) = IF a.body \in m.usable THEN "data" ELSE "other"
      BY <2>3 DEF Calls!StorageMakes
    <3>2. Calls!Ok(a) /\ (m.library \notin {"storage exists", "storage response"} => a.body \in Calls!Json)
      BY <2>3 DEF Calls!StorageRejects
    <3>3. a.body = "cut" => ~Calls!CanAbort(m)
      BY <1>2, <1>3, <3>2 DEF Calls!Storage, Calls!Json, Calls!Arrays, Calls!Postgrest, Calls!Single
    <3> QED BY <2>1, <3>1, <3>2, <3>3 DEF Calls!Ok
  <2> QED BY <2>2, <2>3
<1>4. CASE m.library = "vectors"
  BY <1>1, <1>2, <1>4 DEF Calls!Makes, Calls!VectorsMake, Calls!Ok, Calls!Storage, Calls!Postgrest, Calls!Single, Calls!Admin
<1>5. CASE m.library \in Calls!Admin
  BY <1>1, <1>2, <1>5 DEF Calls!Makes, Calls!AdminMakes, Calls!Ok, Calls!NullError, Calls!Storage, Calls!Postgrest,
     Calls!Single, Calls!Admin
<1>6. CASE m.library \in Calls!Postgrest
  <2>1. made = Calls!PostgrestMakes(m, a)
    BY <1>6 DEF Calls!Makes, Calls!Storage, Calls!Postgrest, Calls!Single, Calls!Admin
  <2>2. CASE a.status = "none" \/ (a.body = "cut" /\ (m.reads \/ ~Calls!Ok(a)))
    BY <2>1, <2>2 DEF Calls!PostgrestMakes
  <2>3. CASE ~(a.status = "none" \/ (a.body = "cut" /\ (m.reads \/ ~Calls!Ok(a)))) /\ Calls!Ok(a)
    BY <2>1, <2>3 DEF Calls!PostgrestMakes
  <2>4. CASE ~(a.status = "none" \/ (a.body = "cut" /\ (m.reads \/ ~Calls!Ok(a)))) /\ ~Calls!Ok(a)
    BY <1>6, <2>1, <2>4 DEF Calls!PostgrestMakes
  <2> QED BY <2>2, <2>3, <2>4
<1>7. CASE m.library = "functions"
  BY <1>1, <1>2, <1>7 DEF Calls!Makes, Calls!FunctionsMake, Calls!Ok, Calls!Storage, Calls!Postgrest, Calls!Single, Calls!Admin
<1> QED BY <1>1, <1>3, <1>4, <1>5, <1>6, <1>7 DEF Shaped, Libraries

\* What a call tells the application.
LEMMA ToldWhat ==
    ASSUME NEW made \in {"data", "error", "other", "false", "anyway"}, NEW set \in BOOLEAN
    PROVE  /\ Calls!Told(set, made) \in {"data", "error", "false", "thrown"}
           /\ Calls!Told(set, made) = "data" => made = "data"
           /\ Calls!Told(set, made) = "error" => ~set \/ made = "anyway"
           /\ Calls!Told(set, made) = "thrown" => set \/ made = "other"
BY DEF Calls!Told

\* The signal of the request follows the application's, but for one that was aborted before an
\* invoke with a timeout; the one request of an eager method or of a Blob is made at first.
Signalled ==
    /\ aborted \in BOOLEAN /\ stopped \in BOOLEAN
    /\ signal \in {"none", "given", "aborted"}
    /\ signal # "none" => Calls!CanAbort(method)
    /\ aborted => signal # "none"
    /\ timeout => method.library = "functions"
    /\ aborted /\ timeout /\ step = "new" => signal = "aborted"
    /\ aborted /\ step \in {"sent", "answered"} => stopped \/ (signal = "aborted" /\ timeout)

Counted ==
    /\ requests <= awaits
    /\ step = "new" => requests < awaits
    /\ method.promise = "eager" => awaits = 1
    /\ method.promise = "cached" => requests <= 1 /\ (step = "new" => requests = 0)

\* A call has no outcome before it is done, and nothing of an answer before it is sent.
Staged ==
    /\ step # "done" => outcome = "none"
    /\ step \in {"new", "sent"} => answer = Calls!NoAnswer
    /\ step = "answered" => answer \in Calls!Answer

CallsInv == Calls!TypeOK /\ Signalled /\ Counted /\ Staged /\ Calls!FailuresShow

LEMMA NoAnswerFields ==
    /\ Calls!NoAnswer.status = "none" /\ Calls!NoAnswer.body = "cut"
    /\ Calls!NoAnswer.body \in Calls!Body /\ ~Calls!Ok(Calls!NoAnswer)
BY DEF Calls!NoAnswer, Calls!Body, Calls!Ok

\* An answer whose body is cut off is an answer.
LEMMA CutAnswer ==
    ASSUME NEW a \in Calls!Answer, NEW body \in Calls!Body
    PROVE  /\ [a EXCEPT !.body = body] \in Calls!Answer
           /\ [a EXCEPT !.body = body].body = body
           /\ a.body \in Calls!Body
BY DEF Calls!Answer

LEMMA CallsInitInv == ASSUME MaxAwaits \in Nat \ {0} PROVE Calls!Init => CallsInv
<1> SUFFICES ASSUME Calls!Init PROVE CallsInv
  OBVIOUS
<1>1. Shaped(method)
  BY MethodsShape DEF Calls!Init
<1>2. Calls!TypeOK
  <2>1. throwing \in BOOLEAN /\ timeout \in BOOLEAN
    BY DEF Calls!Init, Calls!CanThrow
  <2>2. awaits \in 1..MaxAwaits /\ requests \in 0..awaits
    BY DEF Calls!Init
  <2> QED BY <2>1, <2>2 DEF Calls!Init, Calls!TypeOK
<1>3. Signalled
  BY <1>1 DEF Calls!Init, Signalled
<1>4. Counted /\ Staged
  BY DEF Calls!Init, Counted, Staged
<1>5. Calls!FailuresShow
  BY DEF Calls!Init, Calls!FailuresShow, Calls!DataIsAnswer, Calls!ErrorsAsSet, Calls!AbortsHeard
<1> QED BY <1>2, <1>3, <1>4, <1>5 DEF CallsInv

\* The end of a call tells of the answer what it was.
LEMMA EndsWell ==
    ASSUME CallsInv, step # "done", UNCHANGED <<Calls!call, awaits, requests, aborted, stopped>>,
           answer' \in Calls!Answer \cup {Calls!NoAnswer}, answer'.body \in Calls!Body,
           NEW made \in Calls!Makes(method, answer'), Calls!Ends(Calls!Told(throwing, made)),
           aborted => \/ answer'.body = "cut" \/ answer'.status = "none"
                      \/ (signal = "aborted" /\ timeout)
    PROVE  CallsInv'
<1> DEFINE a == answer'
<1>1. method \in Calls!Methods /\ throwing \in BOOLEAN
  BY DEF CallsInv, Calls!TypeOK
<1>2. UNCHANGED <<method, throwing, signal, timeout>>
  BY DEF Calls!call
<1>3. PICK m \in Calls!Methods : m = method
  BY <1>1
<1>4. /\ made \in {"data", "error", "other", "false", "anyway"}
      /\ made = "data" =>
           Calls!Ok(a) \/ (method.library \in Calls!Postgrest /\ Calls!NotAnError(method, a))
      /\ made = "anyway" => method.library = "postgrest maybeSingle" /\ a.body = "rows"
      /\ made = "other" => \/ method.library = "storage exists" /\ a.status # "404"
                           \/ Calls!Ok(a) /\ a.body \notin method.usable
                           \/ Calls!NullError(method, a)
      /\ made = "data" /\ a.body = "cut" /\ method.reads => ~Calls!CanAbort(method)
      /\ a.status = "none" => made # "data" /\ made # "anyway"
  BY <1>1, MakesWhat
<1>5. PICK shown \in {"data", "error", "false", "thrown"} :
        /\ shown = Calls!Told(throwing, made)
        /\ shown = "data" => made = "data"
        /\ shown = "error" => ~throwing \/ made = "anyway"
        /\ shown = "thrown" => throwing \/ made = "other"
  BY <1>1, <1>4, ToldWhat
<1>6. /\ step' = "done" /\ outcome' = shown
      /\ timer' = IF timer = "set" THEN "off" ELSE timer
  BY <1>5 DEF Calls!Ends
<1> HIDE DEF a
<1>7. Calls!TypeOK'
  BY <1>2, <1>6 DEF CallsInv, Calls!TypeOK
<1>8. Signalled' /\ Counted' /\ Staged'
  BY <1>2, <1>6 DEF CallsInv, Signalled, Counted, Staged, Calls!CanAbort
<1>9. method' = method /\ throwing' = throwing /\ timeout' = timeout /\ signal' = signal /\ aborted' = aborted
  BY <1>2
<1>10. Calls!DataIsAnswer'
  BY <1>4, <1>5, <1>6, <1>9 DEF a, Calls!DataIsAnswer
<1>11. Calls!ErrorsAsSet'
  BY <1>4, <1>5, <1>6, <1>9 DEF a, Calls!ErrorsAsSet, Calls!ThrowsAnyway
<1>12. Calls!AbortsHeard'
  <2>1. aborted => Calls!CanAbort(method)
    BY DEF CallsInv, Signalled
  <2> QED BY <1>4, <1>5, <1>6, <1>9, <2>1 DEF a, Calls!AbortsHeard
<1>13. step' = "done" => timer' # "set"
  BY <1>6
<1>14. method'.promise = "cached" => requests' <= 1
  BY <1>9 DEF CallsInv, Counted
<1> QED BY <1>7, <1>8, <1>10, <1>11, <1>12, <1>13, <1>14 DEF CallsInv, Calls!FailuresShow

\* A call that has no outcome shows no failure.
LEMMA NothingShown ==
    ASSUME outcome = "none", Counted, step # "done"
    PROVE  Calls!FailuresShow
BY DEF Calls!FailuresShow, Calls!DataIsAnswer, Calls!ErrorsAsSet, Calls!AbortsHeard, Counted

\* A call whose arguments are checked has made no request before.
LEMMA CheckedAreFirst ==
    ASSUME CallsInv, step = "new", method.checked
    PROVE  requests = 0
<1>1. method.promise = "eager"
  BY MethodsShape DEF CallsInv, Calls!TypeOK, Shaped
<1> QED BY <1>1 DEF CallsInv, Calls!TypeOK, Counted

\* Arguments that do not pass.
LEMMA RefuseInv == ASSUME CallsInv, Calls!Refuse PROVE CallsInv'
<1>1. /\ UNCHANGED <<method, throwing, signal, timeout, awaits, requests, answer, aborted, stopped>>
      /\ step = "new" /\ method.checked
      /\ step' = "done" /\ outcome' = "thrown"
      /\ timer' = IF timer = "set" THEN "off" ELSE timer
  BY DEF Calls!Refuse, Calls!call, Calls!Ends
<1>2. Calls!TypeOK'
  BY <1>1 DEF CallsInv, Calls!TypeOK
<1>3. Signalled' /\ Counted' /\ Staged'
  BY <1>1 DEF CallsInv, Signalled, Counted, Staged, Calls!CanAbort
<1>4. Calls!FailuresShow'
  BY <1>1, CheckedAreFirst
  DEF CallsInv, Counted, Calls!FailuresShow, Calls!DataIsAnswer, Calls!ErrorsAsSet,
      Calls!AbortsHeard, Calls!ThrowsAnyway
<1> QED BY <1>2, <1>3, <1>4 DEF CallsInv

\* The steps of a call that is under way.
LEMMA UnderWayInv ==
    ASSUME CallsInv, Calls!Send \/ Calls!Abort \/ Calls!Timeout \/ Calls!AnswerArrives
    PROVE  CallsInv'
<1>1. /\ UNCHANGED <<method, throwing, signal, timeout, awaits, outcome>>
      /\ method' = method
  BY DEF Calls!Send, Calls!Abort, Calls!Timeout, Calls!AnswerArrives, Calls!call
<1>2. Shaped(method)
  BY MethodsShape DEF CallsInv, Calls!TypeOK
<1>3. step # "done" /\ step' # "done" /\ step' \in {"new", "sent", "answered"} /\ outcome = "none"
  <2>1. CASE Calls!Timeout
    BY <2>1 DEF Calls!Timeout, CallsInv, Calls!FailuresShow, Calls!TypeOK, Staged
  <2> QED BY <2>1 DEF Calls!Send, Calls!Abort, Calls!AnswerArrives, CallsInv, Staged
<1>4. Calls!TypeOK'
  <2>1. requests' \in 0..awaits
    BY DEF Calls!Send, Calls!Abort, Calls!Timeout, Calls!AnswerArrives, CallsInv, Calls!TypeOK, Counted
  <2>2. answer' \in Calls!Answer \cup {Calls!NoAnswer}
    BY DEF Calls!Send, Calls!Abort, Calls!Timeout, Calls!AnswerArrives, CallsInv, Calls!TypeOK
  <2>3. timer' \in {"off", "set", "fired"}
    BY DEF Calls!Send, Calls!Abort, Calls!Timeout, Calls!AnswerArrives, CallsInv, Calls!TypeOK
  <2> QED BY <1>1, <1>3, <2>1, <2>2, <2>3 DEF CallsInv, Calls!TypeOK
<1>5. Signalled'
  <2> USE DEF CallsInv, Signalled
  <2>1. CASE Calls!Send
    BY <1>1, <2>1 DEF Calls!Send, Calls!CanAbort
  <2>2. CASE Calls!Abort
    BY <1>1, <1>2, <2>2 DEF Calls!Abort, Calls!CanAbort, Shaped
  <2>3. CASE Calls!Timeout
    BY <1>1, <2>3 DEF Calls!Timeout, Calls!CanAbort
  <2>4. CASE Calls!AnswerArrives
    BY <1>1, <2>4 DEF Calls!AnswerArrives, Calls!CanAbort
  <2> QED BY <2>1, <2>2, <2>3, <2>4
<1>6. Counted'
  BY <1>1, <1>3 DEF Calls!Send, Calls!Abort, Calls!Timeout, Calls!AnswerArrives, CallsInv, Calls!TypeOK, Counted
<1>7. Staged'
  BY <1>1, <1>3 DEF Calls!Send, Calls!Abort, Calls!Timeout, Calls!AnswerArrives, CallsInv, Staged
<1>8. Calls!FailuresShow'
  BY <1>1, <1>3, <1>6 DEF Calls!FailuresShow, Calls!DataIsAnswer, Calls!ErrorsAsSet, Calls!AbortsHeard, Counted
<1> QED BY <1>4, <1>5, <1>6, <1>7, <1>8 DEF CallsInv

\* The ends of a request.
LEMMA NoAnswerInv == ASSUME CallsInv, Calls!NoToken \/ Calls!NeverArrives PROVE CallsInv'
<1>1. PICK made \in Calls!Makes(method, Calls!NoAnswer) : Calls!Ends(Calls!Told(throwing, made))
  BY DEF Calls!NoToken, Calls!NeverArrives
<1>2. /\ UNCHANGED <<Calls!call, awaits, requests, answer, aborted, stopped>>
      /\ step \in {"new", "sent"}
  BY DEF Calls!NoToken, Calls!NeverArrives
<1>3. answer' = Calls!NoAnswer
  BY <1>2 DEF CallsInv, Staged
<1> QED BY <1>1, <1>2, <1>3, NoAnswerFields, EndsWell

LEMMA BodyArrivesInv == ASSUME CallsInv, Calls!BodyArrives PROVE CallsInv'
<1>1. step = "answered" /\ answer \in Calls!Answer
  BY DEF Calls!BodyArrives, CallsInv, Staged
<1>2. PICK body \in {"cut", IF stopped THEN "cut" ELSE answer.body} :
        /\ answer' = [answer EXCEPT !.body = body]
        /\ \E made \in Calls!Makes(method, answer') : Calls!Ends(Calls!Told(throwing, made))
  BY DEF Calls!BodyArrives
<1>3. body \in Calls!Body
  BY <1>1, CutAnswer DEF Calls!Body
<1>4. answer' \in Calls!Answer /\ answer'.body = body
  BY <1>1, <1>2, <1>3, CutAnswer
<1>5. aborted => answer'.body = "cut" \/ (signal = "aborted" /\ timeout)
  BY <1>1, <1>2, <1>4 DEF CallsInv, Signalled
<1>6. UNCHANGED <<Calls!call, awaits, requests, aborted, stopped>>
  BY DEF Calls!BodyArrives
<1> QED BY <1>1, <1>2, <1>3, <1>4, <1>5, <1>6, EndsWell

\* A builder that runs again, or gives what it has.
LEMMA AwaitAgainInv == ASSUME CallsInv, Calls!AwaitAgain PROVE CallsInv'
<1>1. /\ UNCHANGED <<method, throwing, signal, timeout, requests, aborted, timer>>
      /\ step = "done" /\ method.promise # "eager"
      /\ awaits < MaxAwaits /\ awaits' = awaits + 1
      /\ stopped' = (stopped /\ step' = "done")
  BY DEF Calls!AwaitAgain, Calls!call
<1>2. timeout = FALSE
  BY <1>1, MethodsShape DEF CallsInv, Calls!TypeOK, Signalled, Shaped
<1>3. awaits' \in 1..MaxAwaits /\ requests' \in 0..awaits'
  BY <1>1, ProofsApply DEF CallsInv, Calls!TypeOK
<1>4. CASE method.promise = "cached"
  <2>1. UNCHANGED <<step, answer, outcome>>
    BY <1>4 DEF Calls!AwaitAgain
  <2>2. Calls!TypeOK'
    BY <1>1, <1>3, <2>1 DEF CallsInv, Calls!TypeOK
  <2>3. Signalled' /\ Counted' /\ Staged'
    BY <1>1, <2>1 DEF CallsInv, Calls!TypeOK, Signalled, Counted, Staged, Calls!CanAbort
  <2>4. Calls!FailuresShow'
    BY <1>1, <2>1 DEF CallsInv, Calls!FailuresShow, Calls!DataIsAnswer, Calls!ErrorsAsSet, Calls!AbortsHeard,
       Calls!ThrowsAnyway
  <2> QED BY <2>2, <2>3, <2>4 DEF CallsInv
<1>5. CASE method.promise # "cached"
  <2>1. step' = "new" /\ answer' = Calls!NoAnswer /\ outcome' = "none"
    BY <1>5 DEF Calls!AwaitAgain
  <2>2. Calls!TypeOK'
    BY <1>1, <1>3, <2>1 DEF CallsInv, Calls!TypeOK
  <2>3. Signalled' /\ Counted' /\ Staged'
    BY <1>1, <1>2, <1>5, <2>1 DEF CallsInv, Calls!TypeOK, Signalled, Counted, Staged, Calls!CanAbort
  <2>4. Calls!FailuresShow'
    BY <1>1, <1>5, <2>1 DEF Calls!FailuresShow, Calls!DataIsAnswer, Calls!ErrorsAsSet, Calls!AbortsHeard
  <2> QED BY <2>2, <2>3, <2>4 DEF CallsInv
<1> QED BY <1>4, <1>5

LEMMA CallsNextInv == CallsInv /\ [Calls!Next]_(Calls!vars) => CallsInv'
<1> SUFFICES ASSUME CallsInv, [Calls!Next]_(Calls!vars) PROVE CallsInv'
  OBVIOUS
<1>1. CASE UNCHANGED Calls!vars
  <2>1. Calls!TypeOK' /\ Signalled' /\ Counted' /\ Staged'
    BY <1>1 DEF Calls!vars, CallsInv, Calls!TypeOK, Signalled, Counted, Staged, Calls!CanAbort
  <2>2. Calls!FailuresShow'
    BY <1>1 DEF Calls!vars, CallsInv, Calls!FailuresShow, Calls!DataIsAnswer, Calls!ErrorsAsSet,
       Calls!AbortsHeard, Calls!ThrowsAnyway
  <2> QED BY <2>1, <2>2 DEF CallsInv
<1> QED
  BY <1>1, RefuseInv, UnderWayInv, NoAnswerInv, BodyArrivesInv, AwaitAgainInv DEF Calls!Next

\* A call of a library tells of the server's answer what it was, in the way that was asked for,
\* unless the application aborts it; it leaves no timer, and a Blob is downloaded once: for every
\* method, answer and order of abort, timeout and answer, however often a builder is awaited.
THEOREM CallsShowFailures == MCSpec => []FailuresShow
<1>1. Calls!Init => CallsInv
  BY ProofsApply, CallsInitInv
<1>2. CallsInv => Calls!FailuresShow
  BY DEF CallsInv
<1>3. Calls!Spec => []Calls!FailuresShow
  BY <1>1, <1>2, CallsNextInv, PTL DEF Calls!Spec
<1>4. Calls!FailuresShow => FailuresShow
  BY DEF FailuresShow
<1> QED BY <1>3, <1>4, Composition, PTL
-----------------------------------------------------------------------------
\* Induction over the naturals, for a set.
LEMMA NatSetInduction ==
    ASSUME NEW S, 0 \in S, \A n \in Nat : n \in S => n + 1 \in S
    PROVE  Nat \subseteq S
<1> SUFFICES ASSUME Nat \ S # {} PROVE FALSE
  OBVIOUS
<1> DEFINE R == OpToRel(<, Nat)
<1>1. IsWellFoundedOn(R, Nat)
  BY NatLessThanWellFounded
<1>2. PICK x \in Nat \ S : \A y \in Nat \ S : ~(<<y, x>> \in R)
  <2> HIDE DEF R
  <2> QED BY <1>1, WFMin
<1>3. \A y \in Nat \ S : ~(y < x)
  BY <1>2 DEF OpToRel
<1>4. x # 0 /\ x - 1 \in Nat /\ x - 1 < x
  OBVIOUS
<1>5. x - 1 \in S
  BY <1>3, <1>4
<1> QED BY <1>4, <1>5

\* The pending diffs are applied one after the other.
Applies(pair, diffs, n, f) ==
    f = [i \in 0..n |-> IF i = 0 THEN pair ELSE Presence!Told(f[i - 1], diffs[i])]

LEMMA AppliesExists ==
    ASSUME NEW pair, NEW diffs
    PROVE  \A n \in Nat : \E f : Applies(pair, diffs, n, f)
<1> DEFINE S == {n \in Nat : \E f : Applies(pair, diffs, n, f)}
<1>1. 0 \in S
  <2> DEFINE f == [i \in 0..0 |-> pair]
  <2>1. f = [i \in 0..0 |-> IF i = 0 THEN pair ELSE Presence!Told(f[i - 1], diffs[i])]
    OBVIOUS
  <2>2. Applies(pair, diffs, 0, f)
    BY <2>1 DEF Applies
  <2> QED BY <2>2
<1>2. ASSUME NEW n \in Nat, n \in S PROVE n + 1 \in S
  <2>1. PICK f : Applies(pair, diffs, n, f)
    BY <1>2
  <2> DEFINE g == [i \in 0..(n + 1) |-> IF i = n + 1 THEN Presence!Told(f[n], diffs[n + 1]) ELSE f[i]]
  <2>2. \A i \in 0..n : g[i] = f[i]
    OBVIOUS
  <2>3. \A i \in 0..n : f[i] = IF i = 0 THEN pair ELSE Presence!Told(f[i - 1], diffs[i])
    BY <2>1 DEF Applies
  <2>4. \A i \in 0..(n + 1) : g[i] = IF i = 0 THEN pair ELSE Presence!Told(g[i - 1], diffs[i])
    <3> SUFFICES ASSUME NEW i \in 0..(n + 1)
                 PROVE  g[i] = IF i = 0 THEN pair ELSE Presence!Told(g[i - 1], diffs[i])
      OBVIOUS
    <3>1. CASE i = n + 1
      <4>1. g[i] = Presence!Told(f[n], diffs[i]) /\ g[i - 1] = f[n] /\ i # 0
        BY <3>1
      <4> QED BY <4>1
    <3>2. CASE i = 0
      BY <2>2, <2>3, <3>2
    <3>3. CASE i \in 1..n
      <4>1. g[i] = f[i] /\ g[i - 1] = f[i - 1] /\ i # 0
        BY <2>2, <3>3
      <4> QED BY <2>3, <3>3, <4>1
    <3> QED BY <3>1, <3>2, <3>3
  <2>5. g = [i \in 0..(n + 1) |-> IF i = 0 THEN pair ELSE Presence!Told(g[i - 1], diffs[i])]
    BY <2>4
  <2> HIDE DEF g
  <2>6. Applies(pair, diffs, n + 1, g)
    BY <2>5 DEF Applies
  <2> QED BY <2>6
<1> HIDE DEF S
<1>3. Nat \subseteq S
  BY <1>1, <1>2, NatSetInduction
<1> QED BY <1>3 DEF S

LEMMA AfterDiffsApplies ==
    ASSUME NEW pair, NEW diffs, Len(diffs) \in Nat
    PROVE  \E f : Applies(pair, diffs, Len(diffs), f) /\ Presence!AfterDiffs(pair, diffs) = f[Len(diffs)]
<1> DEFINE after == CHOOSE f : f = [i \in 0..Len(diffs) |-> IF i = 0 THEN pair ELSE Presence!Told(f[i - 1], diffs[i])]
<1>1. Presence!AfterDiffs(pair, diffs) = after[Len(diffs)]
  BY DEF Presence!AfterDiffs
<1>2. \E f : f = [i \in 0..Len(diffs) |-> IF i = 0 THEN pair ELSE Presence!Told(f[i - 1], diffs[i])]
  <2>1. PICK f : Applies(pair, diffs, Len(diffs), f)
    BY AppliesExists
  <2>2. f = [i \in 0..Len(diffs) |-> IF i = 0 THEN pair ELSE Presence!Told(f[i - 1], diffs[i])]
    BY <2>1, Zenon DEF Applies
  <2> QED BY <2>2
<1>3. Applies(pair, diffs, Len(diffs), after)
  BY <1>2 DEF Applies
<1> QED BY <1>1, <1>3

\* The references that a message has join and leave under a key.
Joins(d, k) == {m.phx_ref : m \in d.joins[k]}
Leaves(d, k) == {m.phx_ref : m \in d.leaves[k]}

Refs == 1..MaxPresence
Views == [Key -> SUBSET Refs]

\* A diff with references.
Referring(d) == \A k \in Key : Joins(d, k) \subseteq Refs /\ Leaves(d, k) \subseteq Refs

\* One diff: whoever follows the events still knows the state.
LEMMA ToldAgrees ==
    ASSUME NEW pair, pair.view \in Views, pair.told = pair.view, NEW d, Referring(d),
           NEW after, after = Presence!Told(pair, d)
    PROVE  /\ after.view \in Views
           /\ after.told = after.view
           /\ \A k \in Key : after.view[k] = (pair.view[k] \cup Joins(d, k)) \ Leaves(d, k)
<1>1. after.view = [k \in Key |-> (pair.view[k] \cup Joins(d, k)) \ Leaves(d, k)]
  BY DEF Presence!Told, Presence!Diffed, Presence!SyncDiff, Presence!TransformState, Joins, Leaves
<1>2. after.told = [k \in Key |-> (pair.told[k] \cup Joins(d, k))
                        \ (IF pair.view[k] \cup Joins(d, k) # {} THEN Leaves(d, k) ELSE {})]
  BY DEF Presence!Told, Presence!Follow, Presence!TransformState, Joins, Leaves
<1>3. after.told = after.view
  <2>1. \A k \in Key : (pair.told[k] \cup Joins(d, k))
                        \ (IF pair.view[k] \cup Joins(d, k) # {} THEN Leaves(d, k) ELSE {})
                       = (pair.view[k] \cup Joins(d, k)) \ Leaves(d, k)
    OBVIOUS
  <2> QED BY <1>1, <1>2, <2>1
<1>4. after.view \in Views
  BY <1>1 DEF Views, Referring
<1> QED BY <1>1, <1>3, <1>4

\* The diffs of i \in I lead from one view to another: they leave nothing that is there in the
\* end, and what is not there in the end is left by them after it was joined.
Leads(source, diffs, I, target) ==
    \A k \in Key :
        /\ \A r \in target[k] :
              /\ r \in source[k] \/ \E i \in I : r \in Joins(diffs[i], k)
              /\ \A i \in I : r \notin Leaves(diffs[i], k)
        /\ \A r \in source[k] \ target[k] : \E i \in I : r \in Leaves(diffs[i], k)
        /\ \A i \in I : \A r \in Joins(diffs[i], k) \ target[k] :
              \E j \in I : i < j /\ r \in Leaves(diffs[j], k)

\* A view that the diffs lead from to another is that other one once they are applied.
LEMMA OneDiffOn ==
    ASSUME NEW source \in Views, NEW target \in Views, NEW next \in Views, NEW diffs, NEW n \in Nat, NEW i \in 1..n,
           Leads(source, diffs, i..n, target),
           \A k \in Key : next[k] = (source[k] \cup Joins(diffs[i], k)) \ Leaves(diffs[i], k)
    PROVE  Leads(next, diffs, (i + 1)..n, target)
<1> SUFFICES ASSUME NEW k \in Key
             PROVE  /\ \A r \in target[k] :
                          /\ r \in next[k] \/ \E j \in (i + 1)..n : r \in Joins(diffs[j], k)
                          /\ \A j \in (i + 1)..n : r \notin Leaves(diffs[j], k)
                    /\ \A r \in next[k] \ target[k] : \E j \in (i + 1)..n : r \in Leaves(diffs[j], k)
                    /\ \A j \in (i + 1)..n : \A r \in Joins(diffs[j], k) \ target[k] :
                          \E m \in (i + 1)..n : j < m /\ r \in Leaves(diffs[m], k)
  BY DEF Leads
<1>1. \A j : j \in i..n <=> j = i \/ j \in (i + 1)..n
  OBVIOUS
<1>2. \A j \in (i + 1)..n : i < j
  OBVIOUS
<1>3. ASSUME NEW r \in target[k]
      PROVE  /\ r \in next[k] \/ \E j \in (i + 1)..n : r \in Joins(diffs[j], k)
             /\ \A j \in (i + 1)..n : r \notin Leaves(diffs[j], k)
  BY <1>1 DEF Leads
<1>4. ASSUME NEW r \in next[k] \ target[k]
      PROVE  \E j \in (i + 1)..n : r \in Leaves(diffs[j], k)
  <2>1. r \notin Leaves(diffs[i], k) /\ (r \in source[k] \/ r \in Joins(diffs[i], k))
    OBVIOUS
  <2>2. \E j \in i..n : r \in Leaves(diffs[j], k)
    BY <1>1, <2>1 DEF Leads
  <2> QED BY <1>1, <2>1, <2>2
<1>5. ASSUME NEW j \in (i + 1)..n, NEW r \in Joins(diffs[j], k) \ target[k]
      PROVE  \E m \in (i + 1)..n : j < m /\ r \in Leaves(diffs[m], k)
  <2>1. PICK m \in i..n : j < m /\ r \in Leaves(diffs[m], k)
    BY <1>1 DEF Leads
  <2>2. m \in (i + 1)..n
    BY <1>2, <2>1
  <2> QED BY <2>1, <2>2
<1> QED BY <1>3, <1>4, <1>5

\* Nothing is left to apply.
LEMMA LeadsNowhere ==
    ASSUME NEW source \in Views, NEW target \in Views, NEW diffs, NEW I, I = {}, Leads(source, diffs, I, target)
    PROVE  source = target
<1>1. \A k \in Key : source[k] = target[k]
  BY DEF Leads
<1> QED BY <1>1 DEF Views

LEMMA AfterDiffsLead ==
    ASSUME NEW pair, pair.view \in Views, pair.told = pair.view, NEW X, NEW diffs \in Seq(X),
           \A i \in 1..Len(diffs) : Referring(diffs[i]),
           NEW after, after = Presence!AfterDiffs(pair, diffs)
    PROVE  /\ after.view \in Views
           /\ after.told = after.view
           /\ \A target \in Views : Leads(pair.view, diffs, 1..Len(diffs), target) => after.view = target
<1> DEFINE n == Len(diffs)
<1>1. n \in Nat
  BY LenProperties
<1>2. PICK f : Applies(pair, diffs, n, f) /\ Presence!AfterDiffs(pair, diffs) = f[n]
  BY <1>1, AfterDiffsApplies
<1> HIDE DEF n
<1>3. \A i \in 0..n : f[i] = IF i = 0 THEN pair ELSE Presence!Told(f[i - 1], diffs[i])
  BY <1>2 DEF Applies
<1> DEFINE Right(i) == /\ f[i].view \in Views /\ f[i].told = f[i].view
                      /\ \A target \in Views :
                            Leads(pair.view, diffs, 1..n, target) => Leads(f[i].view, diffs, (i + 1)..n, target)
           S == {i \in Nat : i \in 0..n => Right(i)}
<1>4. 0 \in S
  <2>1. f[0] = pair /\ 0 + 1 = 1
    BY <1>1, <1>3
  <2> QED BY <2>1
<1>5. ASSUME NEW i \in Nat, i \in S PROVE i + 1 \in S
  <2> SUFFICES ASSUME i + 1 \in 0..n PROVE Right(i + 1)
    OBVIOUS
  <2>1. i \in 0..n /\ i + 1 \in 1..n /\ Right(i)
    BY <1>1, <1>5
  <2>2. f[i + 1] = Presence!Told(f[i], diffs[i + 1])
    <3>1. i + 1 \in 0..n /\ i + 1 # 0 /\ i + 1 - 1 = i
      BY <1>1, <2>1
    <3> QED BY <1>3, <3>1
  <2>3. Referring(diffs[i + 1])
    BY <2>1 DEF n
  <2>4. /\ f[i + 1].view \in Views
        /\ f[i + 1].told = f[i + 1].view
        /\ \A k \in Key : f[i + 1].view[k] = (f[i].view[k] \cup Joins(diffs[i + 1], k)) \ Leaves(diffs[i + 1], k)
    <3> DEFINE p == f[i]
               q == f[i + 1]
               d == diffs[i + 1]
    <3>1. p.view \in Views /\ p.told = p.view /\ Referring(d) /\ q = Presence!Told(p, d)
      BY <2>1, <2>2, <2>3
    <3> HIDE DEF p, q, d
    <3>2. /\ q.view \in Views
          /\ q.told = q.view
          /\ \A k \in Key : q.view[k] = (p.view[k] \cup Joins(d, k)) \ Leaves(d, k)
      BY <3>1, ToldAgrees
    <3> QED BY <3>2 DEF p, q, d
  <2>5. ASSUME NEW target \in Views, Leads(pair.view, diffs, 1..n, target)
        PROVE  Leads(f[i + 1].view, diffs, (i + 1 + 1)..n, target)
    <3>1. Leads(f[i].view, diffs, (i + 1)..n, target)
      BY <2>1, <2>5
    <3> QED BY <1>1, <2>1, <2>4, <3>1, OneDiffOn
  <2> QED BY <2>4, <2>5
<1> HIDE DEF S
<1>6. Nat \subseteq S
  BY <1>4, <1>5, NatSetInduction
<1>7. Right(n)
  BY <1>1, <1>6 DEF S
<1>8. ASSUME NEW target \in Views, Leads(pair.view, diffs, 1..n, target)
      PROVE  f[n].view = target
  <2>1. Leads(f[n].view, diffs, (n + 1)..n, target) /\ f[n].view \in Views
    BY <1>7, <1>8
  <2>2. (n + 1)..n = {}
    BY <1>1
  <2> QED BY <2>1, <2>2, LeadsNowhere
<1> QED BY <1>2, <1>7, <1>8 DEF n

LEMMA ThereAndBack == \A m, n \in Nat : m - n + n = m
OBVIOUS

\* Of what leads from a view to itself the first part may be dropped.
LEMMA DropLeads ==
    ASSUME NEW q, NEW r, NEW n \in Nat, NEW I \in SUBSET Nat, NEW J \in SUBSET Nat, NEW target,
           \A i \in J : i + n \in I /\ r[i] = q[i + n],
           \A i \in I : i > n => i - n \in J,
           Leads(target, q, I, target)
    PROVE  Leads(target, r, J, target)
<1> SUFFICES ASSUME NEW k \in Key
             PROVE  /\ \A x \in target[k] : \A i \in J : x \notin Leaves(r[i], k)
                    /\ \A i \in J : \A x \in Joins(r[i], k) \ target[k] :
                          \E j \in J : i < j /\ x \in Leaves(r[j], k)
  BY DEF Leads
<1>1. ASSUME NEW x \in target[k], NEW i \in J PROVE x \notin Leaves(r[i], k)
  BY DEF Leads
<1>2. ASSUME NEW i \in J, NEW x \in Joins(r[i], k) \ target[k]
      PROVE  \E j \in J : i < j /\ x \in Leaves(r[j], k)
  <2>1. PICK m \in I : i + n < m /\ x \in Leaves(q[m], k)
    BY DEF Leads
  <2>2. m - n \in J /\ i < m - n /\ r[m - n] = q[m]
    <3>1. m > n /\ m \in Nat /\ i \in Nat
      BY <2>1
    <3>2. m - n \in J
      BY <2>1, <3>1
    <3>3. m - n + n = m
      BY <3>1, ThereAndBack
    <3> QED BY <2>1, <3>1, <3>2, <3>3
  <2> QED BY <2>1, <2>2
<1> QED BY <1>1, <1>2

\* What leads from one view to another may be moved.
LEMMA ShiftLeads ==
    ASSUME NEW q, NEW r, NEW n \in Nat, NEW I \in SUBSET Nat, NEW J \in SUBSET Nat,
           NEW source, NEW target,
           \A i \in J : i + n \in I /\ r[i] = q[i + n],
           \A i \in I : i > n /\ i - n \in J,
           Leads(source, q, I, target)
    PROVE  Leads(source, r, J, target)
<1> SUFFICES ASSUME NEW k \in Key
             PROVE  /\ \A x \in target[k] :
                          /\ x \in source[k] \/ \E i \in J : x \in Joins(r[i], k)
                          /\ \A i \in J : x \notin Leaves(r[i], k)
                    /\ \A x \in source[k] \ target[k] : \E i \in J : x \in Leaves(r[i], k)
                    /\ \A i \in J : \A x \in Joins(r[i], k) \ target[k] :
                          \E j \in J : i < j /\ x \in Leaves(r[j], k)
  BY DEF Leads
<1>1. \A m \in I : m - n \in J /\ r[m - n] = q[m] /\ m \in Nat
  <2> SUFFICES ASSUME NEW m \in I PROVE m - n \in J /\ r[m - n] = q[m] /\ m \in Nat
    OBVIOUS
  <2>1. m - n \in J
    OBVIOUS
  <2>2. m \in Nat
    OBVIOUS
  <2>3. m - n + n = m
    BY <2>2, ThereAndBack
  <2>4. r[m - n] = q[m - n + n]
    BY <2>1
  <2> QED BY <2>1, <2>2, <2>3, <2>4
<1>2. ASSUME NEW x \in target[k]
      PROVE  /\ x \in source[k] \/ \E i \in J : x \in Joins(r[i], k)
             /\ \A i \in J : x \notin Leaves(r[i], k)
  BY <1>1 DEF Leads
<1>3. ASSUME NEW x \in source[k] \ target[k] PROVE \E i \in J : x \in Leaves(r[i], k)
  BY <1>1 DEF Leads
<1>4. ASSUME NEW i \in J, NEW x \in Joins(r[i], k) \ target[k]
      PROVE  \E j \in J : i < j /\ x \in Leaves(r[j], k)
  <2>1. PICK m \in I : i + n < m /\ x \in Leaves(q[m], k)
    BY DEF Leads
  <2>2. m - n \in J /\ r[m - n] = q[m] /\ i < m - n
    BY <1>1, <2>1
  <2> QED BY <2>1, <2>2
<1> QED BY <1>2, <1>3, <1>4

\* The server publishes what it changes, under references not used before.
Changes(target, d, new) ==
    \A k \in Key :
        /\ new[k] = (target[k] \ Leaves(d, k)) \cup Joins(d, k)
        /\ Joins(d, k) \cap Leaves(d, k) = {}

LEMMA AppendLeads ==
    ASSUME NEW q, NEW r, NEW I \in SUBSET Nat, NEW last \in Nat, NEW source, NEW target, NEW new,
           \A i \in I : i < last /\ r[i] = q[i],
           Changes(target, r[last], new),
           \A i \in I : \A k \in Key : Joins(r[last], k) \cap Leaves(q[i], k) = {},
           Leads(source, q, I, target)
    PROVE  Leads(source, r, I \cup {last}, new)
<1>1. \A k \in Key : \A i \in I : Joins(r[i], k) = Joins(q[i], k) /\ Leaves(r[i], k) = Leaves(q[i], k)
  BY DEF Joins, Leaves
<1> SUFFICES ASSUME NEW k \in Key
             PROVE  /\ \A x \in new[k] :
                          /\ x \in source[k] \/ \E i \in I \cup {last} : x \in Joins(r[i], k)
                          /\ \A i \in I \cup {last} : x \notin Leaves(r[i], k)
                    /\ \A x \in source[k] \ new[k] : \E i \in I \cup {last} : x \in Leaves(r[i], k)
                    /\ \A i \in I \cup {last} : \A x \in Joins(r[i], k) \ new[k] :
                          \E j \in I \cup {last} : i < j /\ x \in Leaves(r[j], k)
  BY DEF Leads
<1>2. /\ new[k] = (target[k] \ Leaves(r[last], k)) \cup Joins(r[last], k)
      /\ Joins(r[last], k) \cap Leaves(r[last], k) = {}
  BY DEF Changes
<1>3. /\ \A x \in target[k] :
            /\ x \in source[k] \/ \E i \in I : x \in Joins(q[i], k)
            /\ \A i \in I : x \notin Leaves(q[i], k)
      /\ \A x \in source[k] \ target[k] : \E i \in I : x \in Leaves(q[i], k)
      /\ \A i \in I : \A x \in Joins(q[i], k) \ target[k] :
            \E j \in I : i < j /\ x \in Leaves(q[j], k)
  BY DEF Leads
<1>4. ASSUME NEW x \in new[k]
      PROVE  /\ x \in source[k] \/ \E i \in I \cup {last} : x \in Joins(r[i], k)
             /\ \A i \in I \cup {last} : x \notin Leaves(r[i], k)
  BY <1>1, <1>2, <1>3
<1>5. ASSUME NEW x \in source[k] \ new[k]
      PROVE  \E i \in I \cup {last} : x \in Leaves(r[i], k)
  BY <1>1, <1>2, <1>3
<1>6. ASSUME NEW i \in I \cup {last}, NEW x \in Joins(r[i], k) \ new[k]
      PROVE  \E j \in I \cup {last} : i < j /\ x \in Leaves(r[j], k)
  <2>1. i \in I
    BY <1>2
  <2>2. CASE x \in target[k]
    BY <1>2, <2>1, <2>2
  <2>3. CASE x \notin target[k]
    BY <1>1, <1>3, <2>1, <2>3
  <2> QED BY <2>2, <2>3
<1> QED BY <1>4, <1>5, <1>6

\* What leads to a view leads from it too.
LEMMA LeadsItself ==
    ASSUME NEW diffs, NEW I, NEW source, NEW target, Leads(source, diffs, I, target)
    PROVE  Leads(target, diffs, I, target)
BY DEF Leads

\* Messages that are the same lead the same way.
LEMMA SameLeads ==
    ASSUME NEW q, NEW r, NEW I, NEW source, NEW target,
           \A i \in I : r[i] = q[i], Leads(source, q, I, target)
    PROVE  Leads(source, r, I, target)
BY DEF Leads
\* What is there of the server's messages, in the order in which they are applied.
Message ==
    [event : {"presence_state", "presence_diff"}, joins : [Key -> SUBSET Presence!Meta],
     leaves : [Key -> SUBSET Presence!Meta], of : Nat]
IsDiff(m) == m.event = "presence_diff"
Messages == pendingDiffs \o wire

\* Where the messages of a join are.
OfJoin(q, join) == {i \in 1..Len(q) : q[i].of = join}

\* The server's channel process, between the join and the state: its diffs lead from what is there
\* to what is there.
BeforeState(q, join, there) ==
    /\ \A i \in OfJoin(q, join) : IsDiff(q[i])
    /\ Leads(there, q, OfJoin(q, join), there)

\* The state of the join is on its way: with the diffs that overtook it, it is the view of the time
\* it was sent at, and the diffs that follow, all of the same join, lead on to what is there.
StateOnItsWay(q, join, there) ==
    \E j \in OfJoin(q, join) :
        /\ ~IsDiff(q[j])
        /\ \A i \in OfJoin(q, join) : i < j => IsDiff(q[i])
        /\ \A i \in (j + 1)..Len(q) : IsDiff(q[i]) /\ q[i].of = join
        /\ \E sent \in Views :
              /\ \A k \in Key : Joins(q[j], k) = sent[k]
              /\ Leads(sent, q, {i \in OfJoin(q, join) : i < j}, sent)
              /\ Leads(sent, q, (j + 1)..Len(q), there)

\* The state of the join has arrived, and the diffs on their way lead on to what is there.
DiffsOnTheirWay(q, join) == \A i \in 1..Len(q) : IsDiff(q[i]) /\ q[i].of = join
StateFollowed(view, q, there) == Leads(view, q, 1..Len(q), there)

PresenceTyped ==
    /\ Presence!TypeOK
    /\ presenceTold = state
    /\ process <= joinCount /\ syncRef <= joinCount
    /\ \A k \in Key : present[k] \subseteq 1..tracked
    /\ pendingDiffs \in Seq(Message) /\ wire \in Seq(Message)

Queued ==
    /\ \A i \in 1..Len(pendingDiffs) : IsDiff(pendingDiffs[i])
    /\ ~Presence!InPendingSyncState => pendingDiffs = <<>>
    /\ \A i \in 1..Len(Messages) :
          /\ Messages[i].of <= joinCount
          /\ Messages[i].of = joinCount => process = joinCount
          /\ \A k \in Key : Joins(Messages[i], k) \subseteq 1..tracked /\ Leaves(Messages[i], k) \subseteq 1..tracked

LedOn ==
    process = joinRef /\ process # 0 =>
        \/ ~stateSent /\ BeforeState(Messages, process, present)
        \/ stateSent /\ StateOnItsWay(Messages, process, present)
        \/ /\ stateSent /\ pendingDiffs = <<>> /\ syncRef = joinRef
           /\ DiffsOnTheirWay(wire, process)
           /\ outdated \/ StateFollowed(state, wire, present)

PresenceInv == PresenceTyped /\ Queued /\ LedOn
\* The messages from after the n-th on.
Rest(q, r, n) == Len(r) = Len(q) - n /\ \A i \in 1..Len(r) : r[i] = q[i + n]

LEMMA RestBefore ==
    ASSUME NEW q, NEW r, NEW n \in Nat, Len(q) \in Nat, Len(r) \in Nat, Rest(q, r, n),
           NEW join, NEW there, BeforeState(q, join, there)
    PROVE  BeforeState(r, join, there)
<1> DEFINE I == OfJoin(q, join)
           J == OfJoin(r, join)
<1>1. I \in SUBSET Nat /\ J \in SUBSET Nat
  BY DEF OfJoin
<1>2. \A i \in J : i + n \in I /\ r[i] = q[i + n]
  BY DEF OfJoin, Rest
<1>3. \A i \in I : i > n => i - n \in J
  <2> SUFFICES ASSUME NEW i \in I, i > n PROVE i - n \in J
    OBVIOUS
  <2>1. i \in Nat /\ i <= Len(q)
    BY DEF OfJoin
  <2>2. i - n \in 1..Len(r) /\ i - n + n = i
    BY <2>1 DEF Rest
  <2>3. r[i - n] = q[i]
    BY <2>2 DEF Rest
  <2> QED BY <2>2, <2>3 DEF OfJoin
<1>4. Leads(there, q, I, there) /\ \A i \in I : IsDiff(q[i])
  BY DEF BeforeState
<1> HIDE DEF I, J
<1>5. Leads(there, r, J, there)
  BY <1>1, <1>2, <1>3, <1>4, DropLeads
<1>6. \A i \in J : IsDiff(r[i])
  BY <1>2, <1>4
<1> QED BY <1>5, <1>6 DEF BeforeState, J

LEMMA RestOnItsWay ==
    ASSUME NEW q, NEW r, NEW n \in Nat, Len(q) \in Nat, Len(r) \in Nat, Rest(q, r, n),
           NEW join, NEW there, StateOnItsWay(q, join, there),
           \A i \in 1..n : IsDiff(q[i]) \/ q[i].of # join
    PROVE  StateOnItsWay(r, join, there)
<1>1. PICK j \in OfJoin(q, join), sent \in Views :
        /\ ~IsDiff(q[j])
        /\ \A i \in OfJoin(q, join) : i < j => IsDiff(q[i])
        /\ \A i \in (j + 1)..Len(q) : IsDiff(q[i]) /\ q[i].of = join
        /\ \A k \in Key : Joins(q[j], k) = sent[k]
        /\ Leads(sent, q, {i \in OfJoin(q, join) : i < j}, sent)
        /\ Leads(sent, q, (j + 1)..Len(q), there)
  BY DEF StateOnItsWay
<1>2. j \in 1..Len(q) /\ q[j].of = join
  BY DEF OfJoin
<1>3. j > n
  BY <1>1, <1>2
<1> DEFINE m == j - n
<1>4. m \in 1..Len(r) /\ m + n = j
  BY <1>2, <1>3 DEF Rest
<1>5. r[m] = q[j]
  <2>1. r[m] = q[m + n]
    BY <1>4 DEF Rest
  <2> QED BY <1>4, <2>1
<1>6. m \in OfJoin(r, join)
  BY <1>2, <1>4, <1>5 DEF OfJoin
<1> DEFINE I == {i \in OfJoin(q, join) : i < j}
           J == {i \in OfJoin(r, join) : i < m}
           I2 == (j + 1)..Len(q)
           J2 == (m + 1)..Len(r)
<1>7. I \in SUBSET Nat /\ J \in SUBSET Nat /\ I2 \in SUBSET Nat /\ J2 \in SUBSET Nat
  BY <1>2, <1>4 DEF OfJoin
<1>8. \A i \in J : i + n \in I /\ r[i] = q[i + n]
  BY <1>2, <1>4 DEF OfJoin, Rest
<1>9. \A i \in I : i > n => i - n \in J
  <2> SUFFICES ASSUME NEW i \in I, i > n PROVE i - n \in J
    OBVIOUS
  <2>1. i \in Nat /\ i <= Len(q) /\ i < j
    BY DEF OfJoin
  <2>2. i - n \in 1..Len(r) /\ i - n + n = i /\ i - n < m
    BY <1>2, <2>1 DEF Rest
  <2>3. r[i - n] = q[i]
    BY <2>2 DEF Rest
  <2> QED BY <2>2, <2>3 DEF OfJoin
<1>10. \A i \in J2 : i + n \in I2 /\ r[i] = q[i + n]
  BY <1>2, <1>4 DEF Rest
<1>11. \A i \in I2 : i > n /\ i - n \in J2
  BY <1>2, <1>4 DEF Rest
<1>12. Leads(sent, q, I, sent) /\ Leads(sent, q, I2, there)
  BY <1>1
<1>13. /\ \A i \in J : IsDiff(r[i])
       /\ \A i \in J2 : IsDiff(r[i]) /\ r[i].of = join
  BY <1>1, <1>8, <1>10
<1> HIDE DEF I, J, I2, J2
<1>14. Leads(sent, r, J, sent)
  BY <1>7, <1>8, <1>9, <1>12, DropLeads
<1>15. Leads(sent, r, J2, there)
  BY <1>7, <1>10, <1>11, <1>12, ShiftLeads
<1>16. \A k \in Key : Joins(r[m], k) = sent[k]
  BY <1>1, <1>5
<1>17. \A i \in OfJoin(r, join) : i < m => IsDiff(r[i])
  BY <1>13 DEF J
<1>18. ~IsDiff(r[m])
  BY <1>1, <1>5
<1> HIDE DEF m
<1> QED BY <1>6, <1>13, <1>14, <1>15, <1>16, <1>17, <1>18 DEF StateOnItsWay, J, J2

\* The current state has come, and it was what its diffs led from.
LEMMA RestFollowed ==
    ASSUME NEW q, NEW r, NEW n \in Nat, Len(q) \in Nat, Len(r) \in Nat, Rest(q, r, n),
           NEW view, NEW there, Leads(view, q, (n + 1)..Len(q), there)
    PROVE  StateFollowed(view, r, there)
<1> DEFINE I == (n + 1)..Len(q)
           J == 1..Len(r)
<1>1. \A i \in J : i + n \in I /\ r[i] = q[i + n]
  BY DEF Rest
<1>2. \A i \in I : i > n /\ i - n \in J
  BY DEF Rest
<1>3. I \in SUBSET Nat /\ J \in SUBSET Nat
  OBVIOUS
<1> HIDE DEF I, J
<1>4. Leads(view, r, J, there)
  BY <1>1, <1>2, <1>3, ShiftLeads DEF I
<1> QED BY <1>4 DEF StateFollowed, J
-----------------------------------------------------------------------------
\* One more diff of the join.
Longer(q, r, m) ==
    Len(r) = Len(q) + 1 /\ (\A i \in 1..Len(q) : r[i] = q[i]) /\ r[Len(r)] = m

\* What a diff has join, none of the earlier ones had leave.
Fresh(q, m) == \A i \in 1..Len(q) : \A k \in Key : Joins(m, k) \cap Leaves(q[i], k) = {}

LEMMA LongerBefore ==
    ASSUME NEW q, NEW r, NEW m, Len(q) \in Nat, Longer(q, r, m), IsDiff(m), NEW join, m.of = join,
           NEW there, NEW new, Changes(there, m, new), Fresh(q, m),
           BeforeState(q, join, there)
    PROVE  BeforeState(r, join, new)
<1> DEFINE I == OfJoin(q, join)
           last == Len(r)
<1>1. I \in SUBSET Nat /\ last \in Nat
  BY DEF OfJoin, Longer
<1>2. OfJoin(r, join) = I \cup {last}
  <2>1. 1..Len(r) = 1..Len(q) \cup {last}
    BY DEF Longer
  <2> QED BY <2>1 DEF OfJoin, Longer
<1>3. \A i \in I : i < last /\ r[i] = q[i] /\ i \in 1..Len(q)
  BY DEF OfJoin, Longer
<1>4. r[last] = m
  BY DEF Longer
<1>5. \A i \in I : \A k \in Key : Joins(r[last], k) \cap Leaves(q[i], k) = {}
  BY <1>3, <1>4 DEF Fresh
<1>6. Leads(there, q, I, there) /\ \A i \in I : IsDiff(q[i])
  BY DEF BeforeState
<1>7. Changes(there, r[last], new)
  BY <1>4
<1> HIDE DEF I, last
<1>8. Leads(there, r, I \cup {last}, new)
  BY <1>1, <1>3, <1>5, <1>6, <1>7, AppendLeads
<1>9. Leads(new, r, I \cup {last}, new)
  BY <1>8, LeadsItself
<1>10. \A i \in I \cup {last} : IsDiff(r[i])
  BY <1>3, <1>4, <1>6
<1> QED BY <1>2, <1>9, <1>10 DEF BeforeState

LEMMA LongerOnItsWay ==
    ASSUME NEW q, NEW r, NEW m, Len(q) \in Nat, Longer(q, r, m), IsDiff(m), NEW join, m.of = join,
           NEW there, NEW new, Changes(there, m, new), Fresh(q, m),
           StateOnItsWay(q, join, there)
    PROVE  StateOnItsWay(r, join, new)
<1>1. PICK j \in OfJoin(q, join), sent \in Views :
        /\ ~IsDiff(q[j])
        /\ \A i \in OfJoin(q, join) : i < j => IsDiff(q[i])
        /\ \A i \in (j + 1)..Len(q) : IsDiff(q[i]) /\ q[i].of = join
        /\ \A k \in Key : Joins(q[j], k) = sent[k]
        /\ Leads(sent, q, {i \in OfJoin(q, join) : i < j}, sent)
        /\ Leads(sent, q, (j + 1)..Len(q), there)
  BY DEF StateOnItsWay
<1>2. j \in 1..Len(q) /\ q[j].of = join
  BY DEF OfJoin
<1> DEFINE I == {i \in OfJoin(q, join) : i < j}
           I2 == (j + 1)..Len(q)
           last == Len(r)
<1>3. I2 \in SUBSET Nat /\ last \in Nat
  BY <1>2 DEF Longer
<1>4. (j + 1)..Len(r) = I2 \cup {last}
  BY <1>2 DEF Longer
<1>5. \A i \in I2 : i < last /\ r[i] = q[i] /\ i \in 1..Len(q)
  BY <1>2 DEF Longer
<1>6. r[last] = m
  BY DEF Longer
<1>7. {i \in OfJoin(r, join) : i < j} = I
  <2>1. \A i : i \in 1..Len(r) /\ i < j <=> i \in 1..Len(q) /\ i < j
    BY <1>2 DEF Longer
  <2> QED BY <2>1 DEF OfJoin, Longer
<1>8. \A i \in I : r[i] = q[i]
  BY DEF OfJoin, Longer
<1>9. r[j] = q[j] /\ j \in OfJoin(r, join)
  BY <1>2 DEF Longer, OfJoin
<1>10. \A i \in I2 : \A k \in Key : Joins(r[last], k) \cap Leaves(q[i], k) = {}
  BY <1>5, <1>6 DEF Fresh
<1>11. Leads(sent, q, I, sent) /\ Leads(sent, q, I2, there)
  BY <1>1
<1>12. Changes(there, r[last], new)
  BY <1>6
<1>13. /\ \A i \in I : IsDiff(r[i])
       /\ \A i \in I2 \cup {last} : IsDiff(r[i]) /\ r[i].of = join
  BY <1>1, <1>5, <1>6, <1>8
<1> HIDE DEF I, I2, last
<1>14. Leads(sent, r, I2 \cup {last}, new)
  BY <1>3, <1>5, <1>10, <1>11, <1>12, AppendLeads
<1>15. Leads(sent, r, I, sent)
  BY <1>8, <1>11, SameLeads
<1>16. \A i \in OfJoin(r, join) : i < j => IsDiff(r[i])
  BY <1>7, <1>13
<1>17. ~IsDiff(r[j]) /\ \A k \in Key : Joins(r[j], k) = sent[k]
  BY <1>1, <1>9
<1> QED BY <1>4, <1>7, <1>9, <1>13, <1>14, <1>15, <1>16, <1>17 DEF StateOnItsWay

LEMMA LongerFollowed ==
    ASSUME NEW q, NEW r, NEW m, Len(q) \in Nat, Longer(q, r, m), IsDiff(m),
           NEW there, NEW new, Changes(there, m, new), Fresh(q, m),
           NEW view, StateFollowed(view, q, there)
    PROVE  StateFollowed(view, r, new)
<1> DEFINE I == 1..Len(q)
           last == Len(r)
<1>1. I \in SUBSET Nat /\ last \in Nat /\ 1..Len(r) = I \cup {last}
  BY DEF Longer
<1>2. \A i \in I : i < last /\ r[i] = q[i]
  BY DEF Longer
<1>3. r[last] = m
  BY DEF Longer
<1>4. \A i \in I : \A k \in Key : Joins(r[last], k) \cap Leaves(q[i], k) = {}
  BY <1>3 DEF Fresh
<1>5. Leads(view, q, I, there) /\ Changes(there, r[last], new)
  BY <1>3 DEF StateFollowed
<1> HIDE DEF I, last
<1>6. Leads(view, r, I \cup {last}, new)
  BY <1>1, <1>2, <1>4, <1>5, AppendLeads
<1> QED BY <1>1, <1>6 DEF StateFollowed

\* The state is sent: it is the view that the earlier diffs lead from and to.
LEMMA StateSent ==
    ASSUME NEW q, NEW r, NEW m, Len(q) \in Nat, Longer(q, r, m), ~IsDiff(m), NEW join, m.of = join,
           NEW there \in Views, \A k \in Key : Joins(m, k) = there[k],
           BeforeState(q, join, there)
    PROVE  StateOnItsWay(r, join, there)
<1> DEFINE j == Len(r)
           I == OfJoin(q, join)
<1>1. j \in 1..Len(r) /\ (j + 1)..Len(r) = {} /\ r[j] = m /\ j \in OfJoin(r, join)
  BY DEF Longer, OfJoin
<1>2. {i \in OfJoin(r, join) : i < j} = I
  <2>1. \A i : i \in 1..Len(r) /\ i < j <=> i \in 1..Len(q)
    BY DEF Longer
  <2> QED BY <2>1 DEF OfJoin, Longer
<1>3. \A i \in I : r[i] = q[i]
  BY DEF OfJoin, Longer
<1>4. Leads(there, q, I, there) /\ \A i \in I : IsDiff(q[i])
  BY DEF BeforeState
<1> HIDE DEF I
<1>5. Leads(there, r, I, there)
  BY <1>3, <1>4, SameLeads
<1>6. Leads(there, r, {}, there)
  BY DEF Leads
<1>7. \A i \in OfJoin(r, join) : i < j => IsDiff(r[i])
  BY <1>2, <1>3, <1>4
<1>8. ~IsDiff(r[j]) /\ \A k \in Key : Joins(r[j], k) = there[k]
  BY <1>1
<1> HIDE DEF j
<1> QED BY <1>1, <1>2, <1>5, <1>6, <1>7, <1>8 DEF StateOnItsWay
-----------------------------------------------------------------------------
\* The messages are those that wait, then those on their way.
LEMMA OneAfterTheOther ==
    ASSUME NEW p \in Seq(Message), NEW w \in Seq(Message), NEW q, q = p \o w
    PROVE  /\ q \in Seq(Message) /\ Len(p) \in Nat /\ Len(w) \in Nat /\ Len(q) = Len(p) + Len(w)
           /\ \A i \in 1..Len(p) : q[i] = p[i]
           /\ \A i \in 1..Len(w) : q[i + Len(p)] = w[i]
           /\ p = <<>> => q = w
<1>1. /\ q \in Seq(Message) /\ Len(p) \in Nat /\ Len(w) \in Nat /\ Len(q) = Len(p) + Len(w)
      /\ \A i \in 1..(Len(p) + Len(w)) : q[i] = IF i <= Len(p) THEN p[i] ELSE w[i - Len(p)]
  BY ConcatProperties, LenProperties
<1> DEFINE a == Len(p)
           b == Len(w)
<1>2. \A i \in 1..a : q[i] = p[i]
  <2> HIDE DEF a, b
  <2> QED BY <1>1 DEF a, b
<1>3. \A i \in 1..b : q[i + a] = w[i]
  <2> SUFFICES ASSUME NEW i \in 1..b PROVE q[i + a] = w[i]
    OBVIOUS
  <2>1. a \in Nat /\ b \in Nat
    BY <1>1
  <2>2. q[i + a] = IF i + a <= a THEN p[i + a] ELSE w[i + a - a]
    <3>1. i + a \in 1..(a + b)
      <4> HIDE DEF a, b
      <4> QED BY <2>1
    <3> QED BY <1>1, <3>1
  <2> HIDE DEF a, b
  <2>3. ~(i + a <= a) /\ i + a - a = i
    BY <2>1
  <2> QED BY <2>2, <2>3
<1>4. p = <<>> => q = w
  BY ConcatEmptySeq
<1> QED BY <1>1, <1>2, <1>3, <1>4

LEMMA MessageRefers ==
    ASSUME NEW m \in Message
    PROVE  Referring(m)
BY DEF Message, Referring, Joins, Leaves, Presence!Meta, Refs

\* What is left of the messages once the first ones are applied.
LEMMA TailRest ==
    ASSUME NEW p \in Seq(Message), NEW w \in Seq(Message), w # <<>>, NEW q, q = p \o w
    PROVE  /\ Tail(w) \in Seq(Message)
           /\ Rest(q, Tail(w), Len(p) + 1)
           /\ Head(w) = q[Len(p) + 1] /\ Len(p) + 1 \in 1..Len(q) /\ Head(w) \in Message
<1> DEFINE a == Len(p)
           b == Len(w)
           r == Tail(w)
<1>1. /\ q \in Seq(Message) /\ a \in Nat /\ b \in Nat /\ Len(q) = a + b
      /\ \A i \in 1..b : q[i + a] = w[i]
  BY OneAfterTheOther
<1>2. r \in Seq(Message) /\ Len(r) = b - 1 /\ \A i \in 1..Len(r) : r[i] = w[i + 1]
  BY HeadTailProperties
<1>3. b # 0 /\ Head(w) = w[1]
  BY EmptySeq
<1>4. Head(w) \in Message
  BY HeadTailProperties
<1> HIDE DEF a, b, r
<1>5. 1 \in 1..b /\ a + 1 = 1 + a /\ a + 1 \in 1..Len(q)
  BY <1>1, <1>3
<1>6. Head(w) = q[a + 1]
  BY <1>1, <1>3, <1>5
<1>7. ASSUME NEW i \in 1..Len(r) PROVE r[i] = q[i + (a + 1)]
  <2>1. i + 1 \in 1..b /\ i + 1 + a = i + (a + 1)
    BY <1>1, <1>2
  <2> QED BY <1>1, <1>2, <2>1
<1>8. Len(r) = Len(q) - (a + 1)
  BY <1>1, <1>2
<1> QED BY <1>2, <1>4, <1>5, <1>6, <1>7, <1>8 DEF a, r, Rest

\* A message that waits with the others is where it was.
LEMMA MovedOver ==
    ASSUME NEW p \in Seq(Message), NEW w \in Seq(Message), w # <<>>
    PROVE  Append(p, Head(w)) \in Seq(Message) /\ Append(p, Head(w)) \o Tail(w) = p \o w
<1> DEFINE h == Head(w)
           u == <<h>>
<1>1. h \in Message /\ Tail(w) \in Seq(Message)
  BY HeadTailProperties
<1>2. u \in Seq(Message) /\ Append(p, h) = p \o u /\ u \o Tail(w) = w
  <2>1. u \in Seq(Message)
    BY <1>1
  <2>2. Append(p, h) = p \o u
    <3> HIDE DEF h
    <3> QED BY <1>1 DEF u
  <2>3. u \o Tail(w) = w
    <3> DEFINE v == u \o Tail(w)
    <3>1. /\ v \in Seq(Message) /\ Len(v) = Len(u) + Len(Tail(w))
          /\ \A i \in 1..(Len(u) + Len(Tail(w))) : v[i] = IF i <= Len(u) THEN u[i] ELSE Tail(w)[i - Len(u)]
      BY <1>1, <2>1, ConcatProperties
    <3>2. Len(u) = 1 /\ u[1] = w[1]
      OBVIOUS
    <3>3. Len(Tail(w)) = Len(w) - 1 /\ \A i \in 1..Len(Tail(w)) : Tail(w)[i] = w[i + 1]
      BY HeadTailProperties
    <3>4. Len(w) \in Nat /\ Len(w) # 0
      BY LenProperties, EmptySeq
    <3> DEFINE n == Len(w)
               t == Tail(w)
    <3> HIDE DEF v, u, n, t
    <3>5. Len(v) = n
      BY <3>1, <3>2, <3>3, <3>4 DEF n, t
    <3>6. ASSUME NEW i \in 1..n PROVE v[i] = w[i]
      <4>1. CASE i = 1
        <5>1. v[1] = u[1]
          BY <3>1, <3>2, <3>3, <3>4 DEF n, t
        <5> QED BY <3>2, <4>1, <5>1
      <4>2. CASE i # 1
        <5>1. i - 1 \in 1..Len(t) /\ i - 1 + 1 = i
          BY <3>3, <3>4, <4>2 DEF n, t
        <5>2. v[i] = t[i - 1]
          BY <3>1, <3>2, <3>3, <3>4, <4>2 DEF n, t
        <5>3. t[i - 1] = w[i - 1 + 1]
          BY <3>3, <5>1 DEF t
        <5> QED BY <5>1, <5>2, <5>3
      <4> QED BY <4>1, <4>2
    <3> QED BY <3>1, <3>5, <3>6, SeqEqual DEF n, v, t
  <2> QED BY <2>1, <2>2, <2>3
<1>3. (p \o u) \o Tail(w) = p \o (u \o Tail(w))
  <2> DEFINE S == Seq(Message)
             t == Tail(w)
  <2>1. p \in S /\ u \in S /\ t \in S
    BY <1>1, <1>2
  <2> HIDE DEF t, u
  <2>2. (p \o u) \o t = p \o (u \o t)
    BY <2>1, ConcatAssociative, SMTT(30)
  <2> QED BY <2>2 DEF t
<1> HIDE DEF u
<1> QED BY <1>1, <1>2, <1>3

\* A message sent is the last one.
LEMMA AppendLonger ==
    ASSUME NEW p \in Seq(Message), NEW w \in Seq(Message), NEW m \in Message,
           NEW q, q = p \o w, NEW r, r = p \o Append(w, m)
    PROVE  /\ Append(w, m) \in Seq(Message)
           /\ Longer(q, r, m)
<1> DEFINE u == Append(w, m)
<1>1. u \in Seq(Message) /\ Len(u) = Len(w) + 1 /\ u[Len(w) + 1] = m /\ \A i \in 1..Len(w) : u[i] = w[i]
  OBVIOUS
<1>2. /\ Len(p) \in Nat /\ Len(w) \in Nat /\ Len(q) = Len(p) + Len(w)
      /\ \A i \in 1..Len(p) : q[i] = p[i]
      /\ \A i \in 1..Len(w) : q[i + Len(p)] = w[i]
  BY OneAfterTheOther
<1> HIDE DEF u
<1>3. /\ Len(r) = Len(p) + Len(u)
      /\ \A i \in 1..Len(p) : r[i] = p[i]
      /\ \A i \in 1..Len(u) : r[i + Len(p)] = u[i]
  BY <1>1, OneAfterTheOther DEF u
<1> DEFINE a == Len(p)
           b == Len(w)
<1>4. Len(r) = Len(q) + 1
  BY <1>1, <1>2, <1>3
<1>5. r[Len(r)] = m
  <2>1. b + 1 \in 1..Len(u) /\ b + 1 + a = Len(r)
    BY <1>1, <1>2, <1>3
  <2>2. r[b + 1 + a] = u[b + 1]
    BY <1>3, <2>1
  <2> QED BY <1>1, <2>1, <2>2
<1>6. ASSUME NEW i \in 1..Len(q) PROVE r[i] = q[i]
  <2>1. CASE i \in 1..a
    BY <1>2, <1>3, <2>1
  <2>2. CASE i \notin 1..a
    <3>1. i - a \in 1..b /\ i - a \in 1..Len(u) /\ i - a + a = i
      BY <1>1, <1>2, <2>2
    <3>2. q[i - a + a] = w[i - a] /\ r[i - a + a] = u[i - a] /\ u[i - a] = w[i - a]
      BY <1>1, <1>2, <1>3, <3>1
    <3> QED BY <3>1, <3>2
  <2> QED BY <2>1, <2>2
<1> QED BY <1>1, <1>4, <1>5, <1>6 DEF u, Longer
-----------------------------------------------------------------------------
LEMMA PresenceBegins == Presence!Init => PresenceInv
<1> SUFFICES ASSUME Presence!Init PROVE PresenceInv
  OBVIOUS
<1> USE ProofsApply DEF Presence!Init
<1>1. pendingDiffs = <<>> /\ wire = <<>> /\ Messages = <<>>
  BY DEF Messages
<1>2. PresenceTyped
  <2>1. pendingDiffs \in Seq(Message) /\ wire \in Seq(Message)
    BY <1>1, EmptySeq
  <2>2. Presence!Nobody \in [Key -> SUBSET (1..MaxPresence)] /\ \A k \in Key : Presence!Nobody[k] = {}
    BY DEF Presence!Nobody
  <2>3. 0 \in 0..MaxJoin /\ 0 \in 0..MaxPresence
    OBVIOUS
  <2>4. state = Presence!Nobody /\ presenceTold = state /\ present = state /\ tracked = 0
    OBVIOUS
  <2>5. Presence!TypeOK
    BY <2>2, <2>3, <2>4 DEF Presence!TypeOK
  <2>6. process <= joinCount /\ syncRef <= joinCount
    OBVIOUS
  <2>7. \A k \in Key : present[k] \subseteq 1..tracked
    BY <2>2, <2>4
  <2> QED BY <2>1, <2>4, <2>5, <2>6, <2>7 DEF PresenceTyped
<1>3. Queued
  BY <1>1 DEF Queued
<1> QED BY <1>2, <1>3 DEF PresenceInv, LedOn

LEMMA StateArrivesKeeps == PresenceInv /\ Presence!StateArrives => PresenceInv'
<1> SUFFICES ASSUME PresenceInv, Presence!StateArrives PROVE PresenceInv'
  OBVIOUS
<1> USE DEF PresenceInv
<1> DEFINE q == Messages
           r == Messages'
           a == Len(pendingDiffs)
           h == Head(wire)
           new == Presence!TransformState(h.joins)
           synced == [view |-> Presence!SyncState(state, new),
                      told |-> Presence!Follow(presenceTold, state, Presence!JoinsOf(state, new), Presence!LeavesOf(state, new))]
           merged == Presence!AfterDiffs(synced, pendingDiffs)
<1>1. /\ wire # <<>> /\ h.event = "presence_state"
      /\ wire' = Tail(wire) /\ pendingDiffs' = <<>>
      /\ syncRef' = joinRef
      /\ state' = merged.view /\ presenceTold' = merged.told
      /\ outdated' = \E i \in DOMAIN pendingDiffs : pendingDiffs[i].of # h.of
      /\ UNCHANGED <<joinCount, joinRef, present, process, stateSent, tracked>>
  BY DEF Presence!StateArrives
<1>2. /\ q \in Seq(Message) /\ a \in Nat /\ Len(wire) \in Nat /\ Len(q) = a + Len(wire)
      /\ \A i \in 1..a : q[i] = pendingDiffs[i]
      /\ pendingDiffs \in Seq(Message) /\ wire \in Seq(Message)
  BY OneAfterTheOther DEF PresenceTyped, Messages
<1>3. /\ wire' \in Seq(Message) /\ Rest(q, wire', a + 1)
      /\ h = q[a + 1] /\ a + 1 \in 1..Len(q) /\ h \in Message
  <2>1. q = pendingDiffs \o wire
    BY DEF Messages
  <2> HIDE DEF q
  <2> QED BY <1>1, <1>2, <2>1, TailRest
<1>4. r = wire' /\ pendingDiffs' \in Seq(Message)
  BY <1>1, <1>3, ConcatEmptySeq DEF Messages
<1>5. Len(q) \in Nat /\ Len(r) \in Nat /\ Rest(q, r, a + 1)
  BY <1>2, <1>3, <1>4, LenProperties
<1>6. \A k \in Key : new[k] = Joins(h, k)
  BY DEF Presence!TransformState, Joins
<1>7. new \in Views
  <2>1. Referring(h)
    BY <1>3, MessageRefers
  <2>2. new = [k \in Key |-> Joins(h, k)]
    BY DEF Presence!TransformState, Joins
  <2> QED BY <2>1, <2>2 DEF Referring, Views
<1>8. synced.view = new /\ synced.told = new
  <2>1. state \in Views /\ presenceTold = state
    BY DEF PresenceTyped, Presence!TypeOK, Views, Refs
  <2>2. synced.view = [k \in Key |-> (state[k] \cup (new[k] \ state[k])) \ (state[k] \ new[k])]
    BY DEF Presence!SyncState, Presence!SyncDiff, Presence!JoinsOf, Presence!LeavesOf
  <2>3. synced.told = [k \in Key |-> (state[k] \cup (new[k] \ state[k]))
                          \ (IF state[k] \cup (new[k] \ state[k]) # {} THEN state[k] \ new[k] ELSE {})]
    BY <2>1 DEF Presence!Follow, Presence!JoinsOf, Presence!LeavesOf
  <2> HIDE DEF new, synced
  <2>4. \A k \in Key : (state[k] \cup (new[k] \ state[k])) \ (state[k] \ new[k]) = new[k]
    OBVIOUS
  <2>5. \A k \in Key : (state[k] \cup (new[k] \ state[k]))
                          \ (IF state[k] \cup (new[k] \ state[k]) # {} THEN state[k] \ new[k] ELSE {}) = new[k]
    OBVIOUS
  <2>6. new = [k \in Key |-> new[k]]
    BY <1>7 DEF Views
  <2>7. synced.view = [k \in Key |-> new[k]]
    BY <2>2, <2>4, Zenon
  <2>8. synced.told = [k \in Key |-> new[k]]
    BY <2>3, <2>5, Zenon
  <2> QED BY <2>6, <2>7, <2>8
<1>9. \A i \in 1..Len(pendingDiffs) : Referring(pendingDiffs[i])
  BY <1>2, MessageRefers, ElementOfSeq
<1>10. /\ merged.view \in Views
       /\ merged.told = merged.view
       /\ \A target \in Views :
             Leads(new, pendingDiffs, 1..Len(pendingDiffs), target) => merged.view = target
  <2>1. merged = Presence!AfterDiffs(synced, pendingDiffs)
    OBVIOUS
  <2> HIDE DEF merged, synced, new
  <2>2. synced.view \in Views /\ synced.told = synced.view
    BY <1>7, <1>8
  <2> QED BY <1>2, <1>8, <1>9, <2>1, <2>2, AfterDiffsLead
<1>11. PresenceTyped'
  <2>1. outdated' \in BOOLEAN
    BY <1>1
  <2>2. state' \in [Key -> SUBSET (1..MaxPresence)] /\ presenceTold' = state'
    BY <1>1, <1>10 DEF Views, Refs
  <2>3. syncRef' \in 0..MaxJoin /\ syncRef' <= joinCount
    BY <1>1, ProofsApply DEF PresenceTyped, Presence!TypeOK
  <2> HIDE DEF merged, h
  <2> QED BY <1>1, <1>3, <1>4, <2>1, <2>2, <2>3 DEF PresenceTyped, Presence!TypeOK
<1>12. Queued'
  <2>1. \A i \in 1..Len(r) : i + (a + 1) \in 1..Len(q) /\ r[i] = q[i + (a + 1)]
    BY <1>2, <1>5 DEF Rest
  <2>2. \A i \in 1..Len(q) :
          /\ q[i].of <= joinCount
          /\ q[i].of = joinCount => process = joinCount
          /\ \A k \in Key : Joins(q[i], k) \subseteq 1..tracked /\ Leaves(q[i], k) \subseteq 1..tracked
    BY DEF Queued
  <2>3. Len(pendingDiffs') = 0
    BY <1>1
  <2> HIDE DEF q, r, merged, h, a
  <2>4. \A i \in 1..Len(r) :
          /\ r[i].of <= joinCount'
          /\ r[i].of = joinCount' => process' = joinCount'
          /\ \A k \in Key : Joins(r[i], k) \subseteq 1..tracked' /\ Leaves(r[i], k) \subseteq 1..tracked'
    BY <1>1, <2>1, <2>2
  <2> QED BY <1>1, <2>3, <2>4 DEF Queued, r
<1>13. LedOn'
  <2> SUFFICES ASSUME process = joinRef, process # 0
               PROVE  \/ ~stateSent /\ BeforeState(r, process, present)
                      \/ stateSent /\ StateOnItsWay(r, process, present)
                      \/ /\ stateSent
                         /\ DiffsOnTheirWay(wire', process)
                         /\ outdated' \/ StateFollowed(state', wire', present)
    <3> HIDE DEF q, merged, h, a
    <3> QED BY <1>1 DEF LedOn
  <2>1. h = q[a + 1] /\ ~IsDiff(h)
    BY <1>1, <1>3 DEF IsDiff
  <2>2. \A i \in 1..a : IsDiff(q[i])
    BY <1>2 DEF Queued
  <2>3. CASE ~stateSent /\ BeforeState(q, process, present)
    <3> HIDE DEF q, r, a, h
    <3>1. BeforeState(r, process, present)
      <4>1. a + 1 \in Nat
        BY <1>2
      <4> QED BY <1>5, <2>3, <4>1, RestBefore
    <3> QED BY <2>3, <3>1
  <2>4. CASE stateSent /\ StateOnItsWay(q, process, present) /\ h.of # process
    <3>1. \A i \in 1..(a + 1) : IsDiff(q[i]) \/ q[i].of # process
      <4> HIDE DEF q, h, a
      <4> QED BY <1>2, <2>1, <2>2, <2>4
    <3> HIDE DEF q, r, a, h
    <3>2. StateOnItsWay(r, process, present)
      <4>1. a + 1 \in Nat
        BY <1>2
      <4> QED BY <1>5, <2>4, <3>1, <4>1, RestOnItsWay
    <3> QED BY <2>4, <3>2
  <2>5. CASE stateSent /\ StateOnItsWay(q, process, present) /\ h.of = process
    <3>1. PICK j \in OfJoin(q, process), sent \in Views :
            /\ ~IsDiff(q[j])
            /\ \A i \in OfJoin(q, process) : i < j => IsDiff(q[i])
            /\ \A i \in (j + 1)..Len(q) : IsDiff(q[i]) /\ q[i].of = process
            /\ \A k \in Key : Joins(q[j], k) = sent[k]
            /\ Leads(sent, q, {i \in OfJoin(q, process) : i < j}, sent)
            /\ Leads(sent, q, (j + 1)..Len(q), present)
      BY <2>5 DEF StateOnItsWay
    <3>2. j = a + 1
      <4> HIDE DEF q, h, a
      <4>1. j \in 1..Len(q)
        BY DEF OfJoin
      <4>2. a + 1 \in OfJoin(q, process)
        BY <1>3, <2>1, <2>5 DEF OfJoin
      <4> QED BY <1>2, <1>3, <1>5, <2>1, <2>2, <3>1, <4>1, <4>2, SMTT(30)
    <3>3. new = sent
      <4>1. \A k \in Key : new[k] = sent[k]
        BY <1>6, <2>1, <3>1, <3>2
      <4> HIDE DEF new
      <4> QED BY <1>7, <4>1 DEF Views
    <3>4. DiffsOnTheirWay(wire', process)
      <4>1. \A i \in 1..Len(r) : i + (a + 1) \in (a + 1 + 1)..Len(q) /\ r[i] = q[i + (a + 1)]
        <5> HIDE DEF q, r, a
        <5> QED BY <1>2, <1>5 DEF Rest
      <4> HIDE DEF q, r, h, a, new
      <4> QED BY <1>4, <3>1, <3>2, <4>1 DEF DiffsOnTheirWay
    <3>5. CASE outdated'
      BY <2>5, <3>4, <3>5
    <3>6. CASE ~outdated'
      <4>1. \A i \in 1..a : pendingDiffs[i].of = process
        <5>1. DOMAIN pendingDiffs = 1..a
          BY <1>2, LenProperties
        <5> HIDE DEF a, h
        <5> QED BY <1>1, <2>5, <3>6, <5>1
      <4>2. {i \in OfJoin(q, process) : i < j} = 1..a
        <5> HIDE DEF q, a
        <5> QED BY <1>2, <1>3, <3>2, <4>1 DEF OfJoin
      <4>3. Leads(sent, pendingDiffs, 1..a, sent)
        <5>1. Leads(sent, q, 1..a, sent)
          BY <3>1, <4>2
        <5>2. \A i \in 1..a : pendingDiffs[i] = q[i]
          BY <1>2
        <5> HIDE DEF q, a
        <5> QED BY <5>1, <5>2, SameLeads
      <4>4. state' = sent
        <5> HIDE DEF new, merged, q, h
        <5> QED BY <1>1, <1>10, <3>3, <4>3
      <4>5. StateFollowed(sent, wire', present)
        <5>1. Leads(sent, q, (a + 1 + 1)..Len(q), present)
          BY <3>1, <3>2
        <5>2. a + 1 \in Nat
          BY <1>2
        <5> HIDE DEF q, r, a
        <5> QED BY <1>4, <1>5, <5>1, <5>2, RestFollowed
      <4> QED BY <2>5, <3>4, <4>4, <4>5
    <3> QED BY <3>5, <3>6
  <2>6. CASE stateSent /\ pendingDiffs = <<>> /\ syncRef = joinRef /\ DiffsOnTheirWay(wire, process)
    <3>1. IsDiff(wire[1])
      <4>1. 1 \in 1..Len(wire)
        <5>1. Len(wire) # 0
          BY <1>1, <1>2, EmptySeq
        <5> QED BY <1>2, <5>1
      <4> QED BY <2>6, <4>1 DEF DiffsOnTheirWay
    <3>2. h = wire[1]
      OBVIOUS
    <3> QED BY <2>1, <3>1, <3>2
  <2> HIDE DEF q, r, h, a, new, merged
  <2> QED BY <2>3, <2>4, <2>5, <2>6 DEF LedOn, q
<1> QED BY <1>11, <1>12, <1>13

LEMMA DiffArrivesKeeps == PresenceInv /\ Presence!DiffArrives => PresenceInv'
<1> SUFFICES ASSUME PresenceInv, Presence!DiffArrives PROVE PresenceInv'
  OBVIOUS
<1> USE DEF PresenceInv
<1> DEFINE q == Messages
           r == Messages'
           h == Head(wire)
           pair == [view |-> state, told |-> presenceTold]
           merged == Presence!Told(pair, h)
<1>1. /\ wire # <<>> /\ h.event = "presence_diff" /\ wire' = Tail(wire)
      /\ UNCHANGED <<syncRef, joinCount, joinRef, present, process, stateSent, tracked, outdated>>
  BY DEF Presence!DiffArrives
<1>2. CASE Presence!InPendingSyncState
  <2>1. pendingDiffs' = Append(pendingDiffs, h) /\ UNCHANGED <<state, presenceTold>>
    BY <1>2 DEF Presence!DiffArrives
  <2>2. pendingDiffs \in Seq(Message) /\ wire \in Seq(Message)
    BY DEF PresenceTyped
  <2>3. pendingDiffs' \in Seq(Message) /\ wire' \in Seq(Message) /\ h \in Message
    <3>1. Append(pendingDiffs, h) \in Seq(Message)
      BY <1>1, <2>2, MovedOver
    <3> QED BY <1>1, <2>1, <2>2, <3>1, HeadTailProperties
  <2>4. r = q
    <3>1. Append(pendingDiffs, h) \o Tail(wire) = pendingDiffs \o wire
      BY <1>1, <2>2, MovedOver
    <3> QED BY <1>1, <2>1, <3>1 DEF Messages
  <2>5. \A i \in 1..Len(pendingDiffs') : IsDiff(pendingDiffs'[i])
    <3> SUFFICES ASSUME NEW i \in 1..Len(Append(pendingDiffs, h))
                 PROVE  IsDiff(Append(pendingDiffs, h)[i])
      BY <2>1
    <3>1. \A j \in 1..Len(pendingDiffs) : IsDiff(pendingDiffs[j])
      BY DEF Queued
    <3>2. IsDiff(h)
      BY <1>1 DEF IsDiff
    <3> HIDE DEF h
    <3> QED BY <2>2, <2>3, <3>1, <3>2
  <2>6. PresenceTyped'
    <3> HIDE DEF h
    <3> QED BY <1>1, <2>1, <2>3 DEF PresenceTyped, Presence!TypeOK
  <2>7. Queued'
    <3>1. Presence!InPendingSyncState'
      BY <1>1, <1>2 DEF Presence!InPendingSyncState
    <3> HIDE DEF h
    <3> QED BY <1>1, <2>4, <2>5, <3>1 DEF Queued
  <2>8. LedOn'
    <3>1. ~(process = joinRef /\ process # 0 /\ syncRef = joinRef)
      BY <1>2 DEF Presence!InPendingSyncState
    <3> HIDE DEF h
    <3> QED BY <1>1, <2>4, <3>1 DEF LedOn
  <2> QED BY <2>6, <2>7, <2>8
<1>3. CASE ~Presence!InPendingSyncState
  <2>1. pendingDiffs = <<>> /\ pendingDiffs' = <<>> /\ state' = merged.view /\ presenceTold' = merged.told
    BY <1>3 DEF Presence!DiffArrives, Queued
  <2>2. wire \in Seq(Message) /\ q = wire /\ pendingDiffs \in Seq(Message)
    BY <2>1, ConcatEmptySeq DEF PresenceTyped, Messages
  <2>3. /\ wire' \in Seq(Message) /\ Rest(wire, wire', 1)
        /\ h = wire[1] /\ 1 \in 1..Len(wire) /\ h \in Message
    <3>1. Len(pendingDiffs) = 0 /\ wire = pendingDiffs \o wire
      BY <2>1, <2>2 DEF Messages
    <3>2. Rest(wire, Tail(wire), 0 + 1) /\ h = wire[0 + 1] /\ 0 + 1 \in 1..Len(wire)
      BY <1>1, <2>2, <3>1, TailRest
    <3> QED BY <1>1, <2>2, <3>2, HeadTailProperties
  <2>4. r = wire'
    BY <2>1, <2>3, ConcatEmptySeq DEF Messages
  <2>5. Len(wire) \in Nat /\ Len(r) \in Nat /\ Rest(wire, r, 1)
    BY <2>2, <2>3, <2>4, LenProperties
  <2>6. state \in Views /\ presenceTold = state
    BY DEF PresenceTyped, Presence!TypeOK, Views, Refs
  <2>7. /\ merged.view \in Views
        /\ merged.told = merged.view
        /\ \A k \in Key : merged.view[k] = (state[k] \cup Joins(h, k)) \ Leaves(h, k)
    <3>1. pair.view = state /\ pair.told = presenceTold /\ merged = Presence!Told(pair, h)
      OBVIOUS
    <3>2. Referring(h)
      BY <2>3, MessageRefers
    <3> HIDE DEF pair, merged, h
    <3> QED BY <2>6, <3>1, <3>2, ToldAgrees
  <2>8. PresenceTyped'
    <3> HIDE DEF h, merged
    <3> QED BY <1>1, <2>1, <2>2, <2>3, <2>7 DEF PresenceTyped, Presence!TypeOK, Views, Refs
  <2>9. Queued'
    <3>1. \A i \in 1..Len(r) : i + 1 \in 1..Len(wire) /\ r[i] = wire[i + 1]
      BY <2>5 DEF Rest
    <3>2. \A i \in 1..Len(wire) :
            /\ wire[i].of <= joinCount
            /\ wire[i].of = joinCount => process = joinCount
            /\ \A k \in Key : Joins(wire[i], k) \subseteq 1..tracked /\ Leaves(wire[i], k) \subseteq 1..tracked
      BY <2>2 DEF Queued
    <3>3. Len(pendingDiffs') = 0
      BY <2>1
    <3> HIDE DEF q, r, merged, h
    <3>4. \A i \in 1..Len(r) :
            /\ r[i].of <= joinCount'
            /\ r[i].of = joinCount' => process' = joinCount'
            /\ \A k \in Key : Joins(r[i], k) \subseteq 1..tracked' /\ Leaves(r[i], k) \subseteq 1..tracked'
      BY <1>1, <3>1, <3>2
    <3> QED BY <1>1, <2>1, <3>3, <3>4 DEF Queued, r
  <2>10. LedOn'
    <3> SUFFICES ASSUME process = joinRef, process # 0
                 PROVE  \/ ~stateSent /\ BeforeState(r, process, present)
                        \/ stateSent /\ StateOnItsWay(r, process, present)
                        \/ /\ stateSent /\ syncRef = joinRef
                           /\ DiffsOnTheirWay(wire', process)
                           /\ outdated \/ StateFollowed(state', wire', present)
      <4> HIDE DEF q, merged, h
      <4> QED BY <1>1, <2>1 DEF LedOn
    <3>1. CASE ~stateSent /\ BeforeState(wire, process, present)
      <4> HIDE DEF q, r, h
      <4>1. BeforeState(r, process, present)
        BY <2>5, <3>1, RestBefore
      <4> QED BY <3>1, <4>1
    <3>2. CASE stateSent /\ StateOnItsWay(wire, process, present)
      <4>1. \A i \in 1..1 : IsDiff(wire[i]) \/ wire[i].of # process
        BY <1>1, <2>3 DEF IsDiff
      <4> HIDE DEF q, r, h
      <4>2. StateOnItsWay(r, process, present)
        BY <2>5, <3>2, <4>1, RestOnItsWay
      <4> QED BY <3>2, <4>2
    <3>3. CASE /\ stateSent /\ syncRef = joinRef
               /\ DiffsOnTheirWay(wire, process)
               /\ outdated \/ StateFollowed(state, wire, present)
      <4>1. DiffsOnTheirWay(r, process)
        <5>1. \A i \in 1..Len(r) : i + 1 \in 1..Len(wire) /\ r[i] = wire[i + 1]
          BY <2>5 DEF Rest
        <5> HIDE DEF r
        <5> QED BY <3>3, <5>1 DEF DiffsOnTheirWay
      <4>2. CASE outdated
        BY <2>4, <3>3, <4>1, <4>2
      <4>3. CASE StateFollowed(state, wire, present)
        <5> DEFINE n == Len(wire)
                   next == merged.view
        <5>1. present \in Views
          BY DEF PresenceTyped, Presence!TypeOK, Views, Refs
        <5>2. Leads(state, wire, 1..n, present)
          BY <4>3 DEF StateFollowed
        <5>3. next \in Views /\ \A k \in Key : next[k] = (state[k] \cup Joins(wire[1], k)) \ Leaves(wire[1], k)
          <6> HIDE DEF merged
          <6> QED BY <2>3, <2>7
        <5>4. n \in Nat /\ 1 \in 1..n
          BY <2>3, <2>5
        <5> HIDE DEF n, next, r
        <5>5. Leads(next, wire, (1 + 1)..n, present)
          BY <2>6, <5>1, <5>2, <5>3, <5>4, OneDiffOn
        <5>6. StateFollowed(next, r, present)
          BY <2>5, <5>5, RestFollowed DEF n
        <5>7. state' = next
          BY <2>1 DEF next
        <5> QED BY <2>4, <3>3, <4>1, <5>6, <5>7
      <4> QED BY <3>3, <4>2, <4>3
    <3> HIDE DEF q, r, h, merged
    <3> QED BY <2>2, <3>1, <3>2, <3>3 DEF LedOn, q
  <2> QED BY <2>8, <2>9, <2>10
<1> QED BY <1>2, <1>3

LEMMA RejoinKeeps == PresenceInv /\ Presence!Rejoin => PresenceInv'
<1> SUFFICES ASSUME PresenceInv, Presence!Rejoin PROVE PresenceInv'
  OBVIOUS
<1> USE ProofsApply DEF PresenceInv
<1>1. /\ joinCount < MaxJoin /\ joinCount' = joinCount + 1 /\ joinRef' \in {0, joinCount'}
      /\ UNCHANGED <<state, pendingDiffs, syncRef, presenceTold, present, tracked, outdated>>
      /\ \/ process' = 0 /\ stateSent' = FALSE /\ wire' = <<>>
         \/ UNCHANGED <<process, stateSent, wire>>
  BY DEF Presence!Rejoin
<1>2. joinCount \in Nat /\ process \in Nat /\ syncRef \in Nat /\ process <= joinCount /\ syncRef <= joinCount
  BY DEF PresenceTyped, Presence!TypeOK
<1>3. process' < joinCount' /\ syncRef' < joinCount' /\ process' \in 0..MaxJoin /\ joinCount' \in 0..MaxJoin
      /\ stateSent' \in BOOLEAN /\ wire' \in Seq(Message)
  <2>1. process' \in 0..MaxJoin /\ process' <= joinCount /\ wire' \in Seq(Message) /\ stateSent' \in BOOLEAN
    <3>1. process \in 0..MaxJoin /\ wire \in Seq(Message) /\ stateSent \in BOOLEAN
      BY DEF PresenceTyped, Presence!TypeOK
    <3>2. CASE process' = 0 /\ stateSent' = FALSE /\ wire' = <<>>
      <4>1. wire' \in Seq(Message)
        BY <3>2, EmptySeq
      <4>2. process' \in 0..MaxJoin /\ process' <= joinCount
        BY <1>2, <3>2
      <4>3. stateSent' \in BOOLEAN
        BY <3>2, Zenon
      <4> QED BY <4>1, <4>2, <4>3
    <3>3. CASE UNCHANGED <<process, stateSent, wire>>
      BY <1>2, <3>1, <3>3
    <3> QED BY <1>1, <3>2, <3>3
  <2>2. joinCount' \in 0..MaxJoin
    BY <1>1, <1>2
  <2> QED BY <1>1, <1>2, <2>1, <2>2
<1>4. PresenceTyped'
  <2>1. process' <= joinCount' /\ syncRef' <= joinCount'
    BY <1>1, <1>2, <1>3
  <2> QED BY <1>1, <1>3, <2>1 DEF PresenceTyped, Presence!TypeOK
<1>5. LedOn'
  BY <1>1, <1>2, <1>3 DEF LedOn
<1>6. Queued'
  <2>1. \A i \in 1..Len(Messages') : i \in 1..Len(Messages) /\ Messages'[i] = Messages[i]
    <3>1. CASE UNCHANGED <<process, stateSent, wire>>
      BY <1>1, <3>1 DEF Messages
    <3>2. CASE wire' = <<>>
      <4>1. pendingDiffs \in Seq(Message) /\ wire \in Seq(Message)
        BY DEF PresenceTyped
      <4>2. Messages' = pendingDiffs
        BY <1>1, <3>2, <4>1, ConcatEmptySeq DEF Messages
      <4>3. /\ Len(Messages) = Len(pendingDiffs) + Len(wire)
            /\ Len(pendingDiffs) \in Nat /\ Len(wire) \in Nat
            /\ \A i \in 1..Len(pendingDiffs) : Messages[i] = pendingDiffs[i]
        BY <4>1, OneAfterTheOther DEF Messages
      <4> HIDE DEF Messages
      <4> QED BY <4>2, <4>3
    <3> QED BY <1>1, <3>1, <3>2
  <2>2. \A i \in 1..Len(Messages) : Messages[i].of <= joinCount /\ Messages[i] \in Message
    <3>1. Messages \in Seq(Message)
      BY OneAfterTheOther DEF Messages, PresenceTyped
    <3> HIDE DEF Messages
    <3> QED BY <3>1, ElementOfSeq DEF Queued
  <2> DEFINE r == Messages'
  <2>3. \A i \in 1..Len(r) : r[i].of <= joinCount' /\ r[i].of # joinCount'
    <3> SUFFICES ASSUME NEW i \in 1..Len(r) PROVE r[i].of <= joinCount' /\ r[i].of # joinCount'
      OBVIOUS
    <3>1. r[i].of <= joinCount /\ r[i].of \in Nat
      BY <2>1, <2>2 DEF Message
    <3> HIDE DEF r
    <3> QED BY <1>1, <1>2, <3>1
  <2>4. \A i \in 1..Len(r) : \A k \in Key : Joins(r[i], k) \subseteq 1..tracked' /\ Leaves(r[i], k) \subseteq 1..tracked'
    BY <1>1, <2>1 DEF Queued
  <2>5. Presence!InPendingSyncState'
    BY <1>1, <1>2, <1>3 DEF Presence!InPendingSyncState
  <2>6. \A i \in 1..Len(pendingDiffs') : IsDiff(pendingDiffs'[i])
    BY <1>1 DEF Queued
  <2> QED BY <2>3, <2>4, <2>5, <2>6 DEF Queued
<1> QED BY <1>4, <1>5, <1>6

LEMMA ServerJoinKeeps == PresenceInv /\ Presence!ServerJoin => PresenceInv'
<1> SUFFICES ASSUME PresenceInv, Presence!ServerJoin PROVE PresenceInv'
  OBVIOUS
<1> USE DEF PresenceInv
<1>1. /\ process < joinCount /\ process' = joinCount /\ stateSent' = FALSE
      /\ UNCHANGED <<state, pendingDiffs, syncRef, joinCount, joinRef, presenceTold, present, wire, tracked, outdated>>
  BY DEF Presence!ServerJoin
<1>2. Messages' = Messages
  BY <1>1 DEF Messages
<1>3. joinCount \in Nat /\ process \in Nat /\ joinRef \in {0, joinCount}
  BY DEF PresenceTyped, Presence!TypeOK
<1>4. PresenceTyped'
  <2>1. process' \in 0..MaxJoin /\ process' <= joinCount' /\ syncRef' <= joinCount'
    BY <1>1, <1>3 DEF PresenceTyped, Presence!TypeOK
  <2>2. stateSent' \in BOOLEAN
    BY <1>1, Zenon
  <2> QED BY <1>1, <2>1, <2>2 DEF PresenceTyped, Presence!TypeOK
<1>5. \A i \in 1..Len(Messages) : Messages[i].of # joinCount
  BY <1>1, <1>3 DEF Queued
<1>6. Queued'
  BY <1>1, <1>2, <1>5 DEF Queued, Presence!InPendingSyncState
<1>7. BeforeState(Messages, joinCount, present)
  <2>1. OfJoin(Messages, joinCount) = {}
    BY <1>5 DEF OfJoin
  <2> QED BY <2>1 DEF BeforeState, Leads
<1>8. LedOn'
  BY <1>1, <1>2, <1>3, <1>7 DEF LedOn
<1> QED BY <1>4, <1>6, <1>8

LEMMA MetasRefer == \A refs : {x.phx_ref : x \in Presence!Metas(refs)} = refs
<1> SUFFICES ASSUME NEW refs PROVE {x.phx_ref : x \in Presence!Metas(refs)} = refs
  OBVIOUS
<1> DEFINE meta(r) == [phx_ref |-> r, phx_ref_prev |-> 0]
<1>1. \A r : meta(r).phx_ref = r
  OBVIOUS
<1>2. Presence!Metas(refs) = {meta(r) : r \in refs}
  BY DEF Presence!Metas
<1> HIDE DEF meta
<1> QED BY <1>1, <1>2

LEMMA ServerStateKeeps == PresenceInv /\ Presence!ServerState => PresenceInv'
<1> SUFFICES ASSUME PresenceInv, Presence!ServerState PROVE PresenceInv'
  OBVIOUS
<1> USE DEF PresenceInv
<1> DEFINE q == Messages
           r == Messages'
           m == Presence!Raw("presence_state", [k \in Key |-> Presence!Metas(present[k])], Presence!Nobody)
<1>1. /\ process # 0 /\ ~stateSent /\ stateSent' = TRUE /\ wire' = Append(wire, m)
      /\ UNCHANGED <<state, pendingDiffs, syncRef, joinCount, joinRef, presenceTold, present, process, tracked, outdated>>
  BY DEF Presence!ServerState
<1>2. /\ pendingDiffs \in Seq(Message) /\ wire \in Seq(Message)
      /\ present \in Views /\ \A k \in Key : present[k] \subseteq 1..tracked
      /\ process \in Nat /\ joinCount \in Nat /\ process <= joinCount
  BY DEF PresenceTyped, Presence!TypeOK, Views, Refs
<1>3. /\ \A k \in Key : Joins(m, k) = present[k] /\ Leaves(m, k) = {}
      /\ ~IsDiff(m) /\ m.of = process
  <2>1. /\ m.joins = [k \in Key |-> Presence!Metas(present[k])] /\ m.leaves = Presence!Nobody
        /\ m.event = "presence_state" /\ m.of = process
    BY DEF Presence!Raw
  <2> HIDE DEF m
  <2>2. \A k \in Key : Joins(m, k) = present[k]
    BY <2>1, MetasRefer DEF Joins
  <2>3. \A k \in Key : Leaves(m, k) = {}
    BY <2>1 DEF Leaves, Presence!Nobody
  <2> QED BY <2>1, <2>2, <2>3 DEF IsDiff
<1>4. m \in Message
  <2>1. [k \in Key |-> Presence!Metas(present[k])] \in [Key -> SUBSET Presence!Meta]
    <3>1. \A k \in Key : present[k] \subseteq 1..MaxPresence
      BY <1>2 DEF Views, Refs
    <3>2. \A k \in Key : Presence!Metas(present[k]) \in SUBSET Presence!Meta
      <4>1. ASSUME NEW x \in 1..MaxPresence
            PROVE  [phx_ref |-> x, phx_ref_prev |-> 0] \in Presence!Meta
        BY ProofsApply DEF Presence!Meta
      <4> QED BY <3>1, <4>1 DEF Presence!Metas
    <3> QED BY <3>2
  <2>2. Presence!Nobody \in [Key -> SUBSET Presence!Meta]
    BY DEF Presence!Nobody
  <2> QED BY <1>2, <2>1, <2>2 DEF Presence!Raw, Message
<1> HIDE DEF m
<1>5. wire' \in Seq(Message) /\ Longer(q, r, m)
  <2>1. q = pendingDiffs \o wire /\ r = pendingDiffs \o Append(wire, m)
    BY <1>1 DEF Messages
  <2> HIDE DEF q, r
  <2> QED BY <1>1, <1>2, <1>4, <2>1, AppendLonger
<1>6. PresenceTyped'
  BY <1>1, <1>5 DEF PresenceTyped, Presence!TypeOK
<1>7. Len(q) \in Nat
  BY <1>2, OneAfterTheOther DEF Messages
<1>8. Queued'
  <2>1. \A i \in 1..Len(q) :
          /\ q[i].of <= joinCount
          /\ q[i].of = joinCount => process = joinCount
          /\ \A k \in Key : Joins(q[i], k) \subseteq 1..tracked /\ Leaves(q[i], k) \subseteq 1..tracked
    BY DEF Queued
  <2> HIDE DEF q, r
  <2>2. \A i \in 1..Len(r) : (i \in 1..Len(q) /\ r[i] = q[i]) \/ r[i] = m
    BY <1>5, <1>7 DEF Longer
  <2>3. \A i \in 1..Len(r) :
          /\ r[i].of <= joinCount
          /\ r[i].of = joinCount => process = joinCount
          /\ \A k \in Key : Joins(r[i], k) \subseteq 1..tracked /\ Leaves(r[i], k) \subseteq 1..tracked
    <3> SUFFICES ASSUME NEW i \in 1..Len(r)
                 PROVE  /\ r[i].of <= joinCount
                        /\ r[i].of = joinCount => process = joinCount
                        /\ \A k \in Key : Joins(r[i], k) \subseteq 1..tracked /\ Leaves(r[i], k) \subseteq 1..tracked
      OBVIOUS
    <3>1. CASE i \in 1..Len(q) /\ r[i] = q[i]
      BY <2>1, <3>1
    <3>2. CASE r[i] = m
      BY <1>2, <1>3, <3>2
    <3> QED BY <2>2, <3>1, <3>2
  <2>4. Presence!InPendingSyncState' = Presence!InPendingSyncState
    BY <1>1 DEF Presence!InPendingSyncState
  <2> QED BY <1>1, <2>3, <2>4 DEF Queued, r
<1>9. LedOn'
  <2> SUFFICES ASSUME process = joinRef PROVE StateOnItsWay(r, process, present)
    BY <1>1 DEF LedOn
  <2>1. BeforeState(q, process, present)
    BY <1>1 DEF LedOn
  <2> HIDE DEF q, r
  <2> QED BY <1>2, <1>3, <1>5, <1>7, <2>1, StateSent
<1> QED BY <1>6, <1>8, <1>9

\* What the server's changes have in common.
Published(m) ==
    /\ wire' = IF process = 0 THEN wire ELSE Append(wire, m)
    /\ m \in Message /\ IsDiff(m) /\ m.of = process
    /\ Changes(present, m, present')
    /\ \A k \in Key : Joins(m, k) \subseteq 1..tracked' /\ Leaves(m, k) \subseteq 1..tracked'
    /\ \A k \in Key : Joins(m, k) \cap (1..tracked) = {}
    /\ present' \in Views /\ \A k \in Key : present'[k] \subseteq 1..tracked'
    /\ tracked' \in 0..MaxPresence /\ tracked <= tracked'
    /\ UNCHANGED <<state, pendingDiffs, syncRef, joinCount, joinRef, presenceTold, process, stateSent, outdated>>

LEMMA PublishedKeeps ==
    ASSUME PresenceInv, NEW m, Published(m)
    PROVE  PresenceInv'
<1> USE DEF PresenceInv
<1> DEFINE q == Messages
           r == Messages'
<1>1. /\ pendingDiffs \in Seq(Message) /\ wire \in Seq(Message)
      /\ process \in Nat /\ joinCount \in Nat /\ process <= joinCount /\ tracked \in Nat /\ tracked' \in Nat
  BY ProofsApply DEF PresenceTyped, Presence!TypeOK, Published
<1>2. Len(q) \in Nat
  BY <1>1, OneAfterTheOther DEF Messages
<1>3. \A i \in 1..Len(q) :
        /\ q[i].of <= joinCount
        /\ q[i].of = joinCount => process = joinCount
        /\ \A k \in Key : Joins(q[i], k) \subseteq 1..tracked /\ Leaves(q[i], k) \subseteq 1..tracked
  BY DEF Queued
<1>4. 1..tracked \subseteq 1..tracked'
  BY <1>1 DEF Published
<1>5. UNCHANGED <<state, pendingDiffs, syncRef, joinCount, joinRef, presenceTold, process, stateSent, outdated>>
  BY DEF Published
<1>6. CASE process = 0
  <2>1. r = q /\ wire' = wire
    BY <1>5, <1>6 DEF Published, Messages
  <2>2. PresenceTyped'
    BY <1>5, <2>1 DEF PresenceTyped, Presence!TypeOK, Published, Views, Refs
  <2> HIDE DEF q, r
  <2>3. \A i \in 1..Len(r) :
          /\ r[i].of <= joinCount
          /\ r[i].of = joinCount => process = joinCount
          /\ \A k \in Key : Joins(r[i], k) \subseteq 1..tracked' /\ Leaves(r[i], k) \subseteq 1..tracked'
    BY <1>3, <1>4, <2>1
  <2>4. Queued'
    BY <1>5, <2>3 DEF Queued, r, Presence!InPendingSyncState
  <2>5. LedOn'
    BY <1>5, <1>6 DEF LedOn
  <2> QED BY <2>2, <2>4, <2>5
<1>7. CASE process # 0
  <2>1. wire' = Append(wire, m) /\ m \in Message
    BY <1>7 DEF Published
  <2>2. Append(wire, m) \in Seq(Message) /\ Longer(q, r, m)
    <3>1. q = pendingDiffs \o wire /\ r = pendingDiffs \o Append(wire, m)
      BY <1>5, <2>1 DEF Messages
    <3> HIDE DEF q, r
    <3> QED BY <1>1, <2>1, <3>1, AppendLonger
  <2>3. PresenceTyped'
    BY <1>5, <2>1, <2>2 DEF PresenceTyped, Presence!TypeOK, Published, Views, Refs
  <2> HIDE DEF q, r
  <2>4. \A i \in 1..Len(r) : (i \in 1..Len(q) /\ r[i] = q[i]) \/ r[i] = m
    BY <1>2, <2>2 DEF Longer
  <2>5. \A i \in 1..Len(r) :
          /\ r[i].of <= joinCount
          /\ r[i].of = joinCount => process = joinCount
          /\ \A k \in Key : Joins(r[i], k) \subseteq 1..tracked' /\ Leaves(r[i], k) \subseteq 1..tracked'
    <3> SUFFICES ASSUME NEW i \in 1..Len(r)
                 PROVE  /\ r[i].of <= joinCount
                        /\ r[i].of = joinCount => process = joinCount
                        /\ \A k \in Key : Joins(r[i], k) \subseteq 1..tracked' /\ Leaves(r[i], k) \subseteq 1..tracked'
      OBVIOUS
    <3>1. CASE i \in 1..Len(q) /\ r[i] = q[i]
      BY <1>3, <1>4, <3>1
    <3>2. CASE r[i] = m
      BY <1>1, <3>2 DEF Published
    <3> QED BY <2>4, <3>1, <3>2
  <2>6. Queued'
    BY <1>5, <2>5 DEF Queued, r, Presence!InPendingSyncState
  <2>7. Changes(present, m, present') /\ IsDiff(m) /\ m.of = process
    BY DEF Published
  <2>8. Fresh(q, m)
    BY <1>3 DEF Fresh, Published
  <2>9. LedOn'
    <3> SUFFICES ASSUME process = joinRef
                 PROVE  \/ ~stateSent /\ BeforeState(r, process, present')
                        \/ stateSent /\ StateOnItsWay(r, process, present')
                        \/ /\ stateSent /\ pendingDiffs = <<>> /\ syncRef = joinRef
                           /\ DiffsOnTheirWay(wire', process)
                           /\ outdated \/ StateFollowed(state, wire', present')
      BY <1>5 DEF LedOn, r
    <3>1. CASE ~stateSent /\ BeforeState(q, process, present)
      <4>1. BeforeState(r, process, present')
        BY <1>2, <2>2, <2>7, <2>8, <3>1, LongerBefore
      <4> QED BY <3>1, <4>1
    <3>2. CASE stateSent /\ StateOnItsWay(q, process, present)
      <4>1. StateOnItsWay(r, process, present')
        BY <1>2, <2>2, <2>7, <2>8, <3>2, LongerOnItsWay
      <4> QED BY <3>2, <4>1
    <3>3. CASE /\ stateSent /\ pendingDiffs = <<>> /\ syncRef = joinRef
               /\ DiffsOnTheirWay(wire, process)
               /\ outdated \/ StateFollowed(state, wire, present)
      <4>1. q = wire /\ r = wire'
        BY <1>1, <1>5, <2>1, <2>2, <3>3, ConcatEmptySeq DEF q, r, Messages
      <4>2. DiffsOnTheirWay(r, process)
        BY <2>4, <2>7, <3>3, <4>1 DEF DiffsOnTheirWay
      <4>3. CASE outdated
        BY <3>3, <4>1, <4>2, <4>3
      <4>4. CASE StateFollowed(state, wire, present)
        <5>1. StateFollowed(state, r, present')
          BY <1>2, <2>2, <2>7, <2>8, <4>1, <4>4, LongerFollowed
        <5> QED BY <3>3, <4>1, <4>2, <5>1
      <4> QED BY <3>3, <4>3, <4>4
    <3> QED BY <1>7, <3>1, <3>2, <3>3 DEF LedOn, q
  <2> QED BY <2>3, <2>6, <2>9
<1> QED BY <1>6, <1>7

LEMMA AloneIs ==
    ASSUME NEW k \in Key, NEW metas, NEW a, a = Presence!Alone(k, metas)
    PROVE  /\ \A j \in Key : a[j] = IF j = k THEN metas ELSE {}
           /\ metas \in SUBSET Presence!Meta => a \in [Key -> SUBSET Presence!Meta]
BY DEF Presence!Alone, Presence!Nobody

LEMMA MetasAre ==
    ASSUME NEW refs \in SUBSET Refs
    PROVE  Presence!Metas(refs) \in SUBSET Presence!Meta
<1>1. ASSUME NEW x \in Refs PROVE [phx_ref |-> x, phx_ref_prev |-> 0] \in Presence!Meta
  BY <1>1, ProofsApply DEF Presence!Meta, Refs
<1> QED BY <1>1 DEF Presence!Metas

\* What a diff about one key says.
LEMMA RawDiff ==
    ASSUME NEW k \in Key, NEW joined \in SUBSET Presence!Meta, NEW left \in SUBSET Presence!Meta,
           process \in Nat,
           NEW m, m = Presence!Raw("presence_diff", Presence!Alone(k, joined), Presence!Alone(k, left))
    PROVE  /\ m \in Message /\ IsDiff(m) /\ m.of = process
           /\ \A j \in Key : /\ Joins(m, j) = IF j = k THEN {x.phx_ref : x \in joined} ELSE {}
                             /\ Leaves(m, j) = IF j = k THEN {x.phx_ref : x \in left} ELSE {}
<1> DEFINE a == Presence!Alone(k, joined)
           b == Presence!Alone(k, left)
<1>1. /\ a \in [Key -> SUBSET Presence!Meta] /\ b \in [Key -> SUBSET Presence!Meta]
      /\ \A j \in Key : a[j] = IF j = k THEN joined ELSE {}
      /\ \A j \in Key : b[j] = IF j = k THEN left ELSE {}
  BY AloneIs
<1> HIDE DEF a, b
<1>2. m = [event |-> "presence_diff", joins |-> a, leaves |-> b, of |-> process]
  BY DEF Presence!Raw, a, b
<1>3. m \in Message
  BY <1>1, <1>2 DEF Message
<1>4. IsDiff(m) /\ m.of = process /\ m.joins = a /\ m.leaves = b
  BY <1>2 DEF IsDiff
<1>5. \A j \in Key : /\ Joins(m, j) = IF j = k THEN {x.phx_ref : x \in joined} ELSE {}
                     /\ Leaves(m, j) = IF j = k THEN {x.phx_ref : x \in left} ELSE {}
  BY <1>1, <1>4 DEF Joins, Leaves
<1> QED BY <1>3, <1>4, <1>5

LEMMA ServerTrackKeeps ==
    ASSUME PresenceInv, NEW k \in Key, Presence!ServerTrack(k)
    PROVE  PresenceInv'
<1>1. /\ tracked < MaxPresence /\ tracked' = tracked + 1
      /\ UNCHANGED <<state, pendingDiffs, syncRef, joinCount, joinRef, presenceTold, process, stateSent, outdated>>
  BY DEF Presence!ServerTrack
<1>2. /\ process \in Nat /\ tracked \in Nat /\ tracked' \in 1..MaxPresence
      /\ present \in Views /\ \A j \in Key : present[j] \subseteq 1..tracked
  BY <1>1, ProofsApply DEF PresenceInv, PresenceTyped, Presence!TypeOK, Views, Refs
<1>3. PICK old \in {0} \cup present[k] :
         LET replaced == IF old = 0 THEN {} ELSE {old} IN
         /\ present' = [present EXCEPT ![k] = (@ \ replaced) \cup {tracked'}]
         /\ Presence!Publish(Presence!Alone(k, {[phx_ref |-> tracked', phx_ref_prev |-> old]}),
                             Presence!Alone(k, Presence!Metas(replaced)))
  BY DEF Presence!ServerTrack
<1> DEFINE replaced == IF old = 0 THEN {} ELSE {old}
           joined == {[phx_ref |-> tracked', phx_ref_prev |-> old]}
           left == Presence!Metas(replaced)
           m == Presence!Raw("presence_diff", Presence!Alone(k, joined), Presence!Alone(k, left))
<1>4. replaced \subseteq present[k] /\ replaced \subseteq 1..tracked /\ replaced \subseteq Refs
  BY <1>2, <1>3, ProofsApply DEF Views, Refs
<1>5. joined \in SUBSET Presence!Meta /\ left \in SUBSET Presence!Meta
  <2>1. old \in 0..MaxPresence
    BY <1>2, <1>3, ProofsApply DEF Views, Refs
  <2>2. joined \in SUBSET Presence!Meta
    BY <1>2, <2>1 DEF Presence!Meta
  <2> HIDE DEF replaced
  <2> QED BY <1>4, <2>2, MetasAre
<1>6. {x.phx_ref : x \in joined} = {tracked'} /\ {x.phx_ref : x \in left} = replaced
  <2>1. {x.phx_ref : x \in joined} = {tracked'}
    <3> DEFINE e == [phx_ref |-> tracked', phx_ref_prev |-> old]
    <3>1. e.phx_ref = tracked' /\ joined = {e}
      OBVIOUS
    <3> HIDE DEF e, joined
    <3> QED BY <3>1
  <2> HIDE DEF replaced
  <2> QED BY <2>1, MetasRefer
<1>7. present' = [present EXCEPT ![k] = (@ \ replaced) \cup {tracked'}] /\ wire' = IF process = 0 THEN wire ELSE Append(wire, m)
  BY <1>3 DEF Presence!Publish
<1> HIDE DEF replaced, joined, left
<1>8. /\ m \in Message /\ IsDiff(m) /\ m.of = process
      /\ \A j \in Key : /\ Joins(m, j) = IF j = k THEN {tracked'} ELSE {}
                        /\ Leaves(m, j) = IF j = k THEN replaced ELSE {}
  <2>1. m = Presence!Raw("presence_diff", Presence!Alone(k, joined), Presence!Alone(k, left))
    OBVIOUS
  <2> HIDE DEF m
  <2>2. /\ m \in Message /\ IsDiff(m) /\ m.of = process
        /\ \A j \in Key : /\ Joins(m, j) = IF j = k THEN {x.phx_ref : x \in joined} ELSE {}
                          /\ Leaves(m, j) = IF j = k THEN {x.phx_ref : x \in left} ELSE {}
    BY <1>2, <1>5, <2>1, RawDiff
  <2> QED BY <1>6, <2>2
<1> HIDE DEF m
<1>9. \A j \in Key : present'[j] = IF j = k THEN (present[k] \ replaced) \cup {tracked'} ELSE present[j]
  BY <1>2, <1>7 DEF Views
<1>10. Changes(present, m, present')
  <2>1. tracked' \notin replaced
    BY <1>1, <1>2, <1>4
  <2> QED BY <1>8, <1>9, <2>1 DEF Changes
<1>11. 1..tracked \subseteq 1..tracked' /\ tracked' \in 1..tracked' /\ tracked' \notin 1..tracked
  BY <1>1, <1>2
<1>12. \A j \in Key : present'[j] \subseteq 1..tracked'
  BY <1>2, <1>9, <1>11
<1>13. present' \in Views
  BY <1>2, <1>7 DEF Views, Refs
<1>14. \A j \in Key : Joins(m, j) \subseteq 1..tracked' /\ Leaves(m, j) \subseteq 1..tracked'
  BY <1>4, <1>8, <1>11
<1>15. \A j \in Key : Joins(m, j) \cap (1..tracked) = {}
  BY <1>8, <1>11
<1>16. tracked' \in 0..MaxPresence /\ tracked <= tracked'
  BY <1>1, <1>2
<1>17. Published(m)
  BY <1>1, <1>7, <1>8, <1>10, <1>12, <1>13, <1>14, <1>15, <1>16 DEF Published
<1> QED BY <1>17, PublishedKeeps

LEMMA ServerUntrackKeeps ==
    ASSUME PresenceInv, NEW k \in Key, Presence!ServerUntrack(k)
    PROVE  PresenceInv'
<1>1. UNCHANGED <<state, pendingDiffs, syncRef, joinCount, joinRef, presenceTold, process, stateSent, tracked, outdated>>
  BY DEF Presence!ServerUntrack
<1>2. /\ process \in Nat /\ tracked \in 0..MaxPresence
      /\ present \in Views /\ \A j \in Key : present[j] \subseteq 1..tracked
  BY ProofsApply DEF PresenceInv, PresenceTyped, Presence!TypeOK, Views, Refs
<1>3. PICK r \in present[k] :
         /\ present' = [present EXCEPT ![k] = @ \ {r}]
         /\ Presence!Publish(Presence!Nobody, Presence!Alone(k, Presence!Metas({r})))
  BY DEF Presence!ServerUntrack
<1> DEFINE left == Presence!Metas({r})
           m == Presence!Raw("presence_diff", Presence!Alone(k, {}), Presence!Alone(k, left))
<1>4. Presence!Alone(k, {}) = Presence!Nobody
  BY DEF Presence!Alone, Presence!Nobody
<1>5. wire' = IF process = 0 THEN wire ELSE Append(wire, m)
  BY <1>3, <1>4 DEF Presence!Publish
<1>6. {} \in SUBSET Presence!Meta /\ left \in SUBSET Presence!Meta
  <2>1. {r} \in SUBSET Refs
    BY <1>2, <1>3 DEF Views
  <2> QED BY <2>1, MetasAre
<1>7. {x.phx_ref : x \in left} = {r} /\ \A none : none = {} => {x.phx_ref : x \in none} = {}
  BY MetasRefer
<1> HIDE DEF left
<1>8. /\ m \in Message /\ IsDiff(m) /\ m.of = process
      /\ \A j \in Key : /\ Joins(m, j) = {}
                        /\ Leaves(m, j) = IF j = k THEN {r} ELSE {}
  BY <1>2, <1>6, <1>7, RawDiff
<1> HIDE DEF m
<1>9. \A j \in Key : present'[j] = IF j = k THEN present[k] \ {r} ELSE present[j]
  BY <1>2, <1>3 DEF Views
<1>10. Changes(present, m, present')
  BY <1>8, <1>9 DEF Changes
<1>11. /\ \A j \in Key : present'[j] \subseteq 1..tracked
       /\ present' \in Views
  BY <1>2, <1>3, <1>9 DEF Views
<1>12. \A j \in Key : /\ Joins(m, j) \subseteq 1..tracked' /\ Leaves(m, j) \subseteq 1..tracked'
                      /\ Joins(m, j) \cap (1..tracked) = {}
  BY <1>1, <1>2, <1>3, <1>8
<1>13. tracked' \in 0..MaxPresence /\ tracked <= tracked'
  BY <1>1, <1>2
<1>14. Published(m)
  BY <1>1, <1>5, <1>8, <1>10, <1>11, <1>12, <1>13 DEF Published
<1> QED BY <1>14, PublishedKeeps

LEMMA PresenceKeeps == PresenceInv /\ [Presence!Next]_(Presence!vars) => PresenceInv'
<1> SUFFICES ASSUME PresenceInv, [Presence!Next]_(Presence!vars) PROVE PresenceInv'
  OBVIOUS
<1>1. CASE UNCHANGED Presence!vars
  <2>1. Messages' = Messages
    BY <1>1 DEF Presence!vars, Messages
  <2>2. PresenceTyped' /\ Queued'
    BY <1>1, <2>1 DEF PresenceInv, PresenceTyped, Queued, Presence!vars, Presence!TypeOK, Presence!InPendingSyncState
  <2>3. LedOn'
    BY <1>1, <2>1 DEF PresenceInv, LedOn, Presence!vars
  <2> QED BY <2>2, <2>3 DEF PresenceInv
<1> QED BY <1>1, StateArrivesKeeps, DiffArrivesKeeps, RejoinKeeps, ServerJoinKeeps, ServerStateKeeps,
           ServerTrackKeeps, ServerUntrackKeeps DEF Presence!Next

\* In sync, the view is the server's.
LEMMA LedOnAgrees == PresenceInv => Presence!PresenceAgrees
<1> SUFFICES ASSUME PresenceInv, Presence!InSync, ~outdated PROVE state = present
  BY DEF PresenceInv, PresenceTyped, Presence!PresenceAgrees
<1>1. joinRef # 0 /\ process = joinRef /\ stateSent /\ wire = <<>>
  BY DEF Presence!InSync
<1>2. Messages = pendingDiffs /\ pendingDiffs \in Seq(Message)
  BY <1>1, ConcatEmptySeq DEF Messages, PresenceInv, PresenceTyped
<1>3. ~StateOnItsWay(Messages, process, present)
  BY <1>2 DEF PresenceInv, Queued, StateOnItsWay, OfJoin
<1>4. StateFollowed(state, wire, present)
  BY <1>1, <1>3 DEF PresenceInv, LedOn
<1>5. Leads(state, wire, {}, present)
  BY <1>1, <1>4 DEF StateFollowed
<1>6. state \in Views /\ present \in Views
  BY DEF PresenceInv, PresenceTyped, Presence!TypeOK, Views, Refs
<1> QED BY <1>5, <1>6, LeadsNowhere

\* Whoever follows the join and leave events of a channel's presence knows its state, which is the
\* server's once the client is in sync: RealtimePresence.syncState, syncDiff and the pendingDiffs.
THEOREM PresencesAgree == MCSpec => []PresenceAgrees
<1>1. Presence!Spec => []PresenceInv
  BY PresenceBegins, PresenceKeeps, PTL DEF Presence!Spec
<1>2. PresenceInv => PresenceAgrees
  BY LedOnAgrees DEF PresenceAgrees
<1> QED BY <1>1, <1>2, Composition, PTL
-----------------------------------------------------------------------------
\* The calls of some chains, added up one chain after the other.
AnyOf(s) == CHOOSE x \in s : TRUE
AddsUp(made, T, f) ==
    f = [s \in SUBSET T |-> IF s = {} THEN 0 ELSE Len(made[AnyOf(s)]) + f[s \ {AnyOf(s)}]]

\* There is such an addition, for finitely many chains.
LEMMA AddsUpExists ==
    ASSUME NEW made, NEW T, IsFiniteSet(T)
    PROVE  \E f : AddsUp(made, T, f)
<1> DEFINE UpTo(n) == {s \in SUBSET T : Cardinality(s) <= n}
           Sum(f, s) == IF s = {} THEN 0 ELSE Len(made[AnyOf(s)]) + f[s \ {AnyOf(s)}]
           N == {n \in Nat : \E f : \A s \in UpTo(n) : f[s] = Sum(f, s)}
<1>1. \A s \in SUBSET T : IsFiniteSet(s) /\ Cardinality(s) \in Nat /\ (Cardinality(s) = 0 <=> s = {})
  BY FS_Subset, FS_CardinalityType, FS_EmptySet
<1>2. \A s \in SUBSET T : s # {} => s \ {AnyOf(s)} \in SUBSET T /\ Cardinality(s \ {AnyOf(s)}) = Cardinality(s) - 1
  <2>1. SUFFICES ASSUME NEW s \in SUBSET T, s # {} PROVE Cardinality(s \ {AnyOf(s)}) = Cardinality(s) - 1
    OBVIOUS
  <2>2. AnyOf(s) \in s BY <2>1 DEF AnyOf
  <2> QED BY <1>1, <2>2, FS_RemoveElement
<1>3. 0 \in N
  <2>1. \A s \in UpTo(0) : s = {} BY <1>1
  <2>2. \A s \in UpTo(0) : [s1 \in SUBSET T |-> 0][s] = 0 BY <2>1
  <2>3. \A s \in UpTo(0) : [s1 \in SUBSET T |-> 0][s] = Sum([s1 \in SUBSET T |-> 0], s) BY <2>1, <2>2
  <2> QED BY <2>3
<1>4. ASSUME NEW n \in Nat, n \in N PROVE n + 1 \in N
  <2>1. PICK f : \A s \in UpTo(n) : f[s] = Sum(f, s) BY <1>4
  <2> DEFINE g == [s \in SUBSET T |-> IF Cardinality(s) <= n THEN f[s] ELSE Sum(f, s)]
  <2>2. \A s \in UpTo(n) : g[s] = f[s] OBVIOUS
  <2>3. ASSUME NEW s \in UpTo(n + 1) PROVE g[s] = Sum(f, s) /\ Sum(g, s) = Sum(f, s)
    <3>1. g[s] = Sum(f, s)
      <4>1. CASE Cardinality(s) <= n BY <2>1, <4>1
      <4>2. CASE ~(Cardinality(s) <= n) BY <4>2
      <4> QED BY <4>1, <4>2
    <3>2. s # {} => s \ {AnyOf(s)} \in UpTo(n) BY <1>1, <1>2
    <3>3. Sum(g, s) = Sum(f, s) BY <2>2, <3>2
    <3> QED BY <3>1, <3>3
  <2>4. \A s \in UpTo(n + 1) : g[s] = Sum(g, s) BY <2>3
  <2> HIDE DEF g, Sum, UpTo
  <2> QED BY <2>4
<1>5. Nat \subseteq N
  <2> HIDE DEF N
  <2> QED BY <1>3, <1>4, NatSetInduction
<1>6. Cardinality(T) \in Nat /\ \A s \in SUBSET T : Cardinality(s) <= Cardinality(T)
  BY FS_CardinalityType, FS_Subset
<1>7. PICK f : \A s \in SUBSET T : f[s] = Sum(f, s)
  <2>1. UpTo(Cardinality(T)) = SUBSET T BY <1>6
  <2>2. Cardinality(T) \in N BY <1>5, <1>6
  <2>3. PICK f : \A s \in UpTo(Cardinality(T)) : f[s] = Sum(f, s) BY <2>2
  <2> QED BY <2>1, <2>3
<1> DEFINE h == [s \in SUBSET T |-> f[s]]
<1>8. \A s \in SUBSET T : h[s] = Sum(h, s)
  <2> SUFFICES ASSUME NEW s \in SUBSET T PROVE h[s] = Sum(h, s) OBVIOUS
  <2>1. h[s] = Sum(f, s) BY <1>7
  <2>2. s # {} => h[s \ {AnyOf(s)}] = f[s \ {AnyOf(s)}] BY <1>2
  <2> QED BY <2>1, <2>2
<1>9. h = [s \in SUBSET T |-> Sum(h, s)] BY <1>8
<1> HIDE DEF h
<1>10. AddsUp(made, T, h) BY <1>9 DEF AddsUp
<1> QED BY <1>10

\* The one that is chosen is one.
LEMMA MadeAddsUp ==
    ASSUME NEW made, NEW T, IsFiniteSet(T)
    PROVE  AddsUp(made, T, CHOOSE f : AddsUp(made, T, f))
BY AddsUpExists

\* What is a sequence of something.
IsSeq(q) == \E S : q \in Seq(S)

\* What holds of no chain, and of some if it does of one less, holds of all.
LEMMA OneLess ==
    ASSUME NEW T, IsFiniteSet(T), NEW P \in SUBSET (SUBSET T), {} \in P,
           \A s \in SUBSET T : s # {} /\ s \ {AnyOf(s)} \in P => s \in P
    PROVE  T \in P
<1> DEFINE N == {n \in Nat : \A s \in SUBSET T : Cardinality(s) = n => s \in P}
<1>1. \A s \in SUBSET T : IsFiniteSet(s) /\ Cardinality(s) \in Nat /\ (Cardinality(s) = 0 <=> s = {})
  BY FS_Subset, FS_CardinalityType, FS_EmptySet
<1>2. 0 \in N BY <1>1
<1>3. ASSUME NEW n \in Nat, n \in N PROVE n + 1 \in N
  <2>1. SUFFICES ASSUME NEW s \in SUBSET T, Cardinality(s) = n + 1 PROVE s \in P OBVIOUS
  <2>2. s # {} BY <1>1, <2>1
  <2>3. AnyOf(s) \in s BY <2>2 DEF AnyOf
  <2>4. Cardinality(s \ {AnyOf(s)}) = n BY <1>1, <2>1, <2>3, FS_RemoveElement
  <2>5. s \ {AnyOf(s)} \in P BY <1>3, <2>4
  <2> QED BY <2>2, <2>5
<1>4. Nat \subseteq N
  <2> HIDE DEF N
  <2> QED BY <1>2, <1>3, NatSetInduction
<1>5. T \in SUBSET T /\ Cardinality(T) \in Nat BY <1>1
<1> QED BY <1>4, <1>5

\* No calls of any chain are none in all.
LEMMA NoneMade ==
    ASSUME NEW made, NEW T, IsFiniteSet(T), \A d \in T : Len(made[d]) = 0, NEW f, AddsUp(made, T, f)
    PROVE  f[T] = 0
<1>1. \A s \in SUBSET T : f[s] = IF s = {} THEN 0 ELSE Len(made[AnyOf(s)]) + f[s \ {AnyOf(s)}]
  BY Zenon DEF AddsUp
<1> DEFINE P == {s \in SUBSET T : f[s] = 0}
<1>2. {} \in P
  <2>1. PICK z : z = {} OBVIOUS
  <2>2. z \in SUBSET T BY <2>1
  <2>3. f[z] = 0 BY <1>1, <2>1, <2>2
  <2> QED BY <2>1, <2>2, <2>3
<1>3. ASSUME NEW s \in SUBSET T, s # {}, s \ {AnyOf(s)} \in P PROVE s \in P
  <2>1. AnyOf(s) \in T BY <1>3 DEF AnyOf
  <2>2. f[s] = Len(made[AnyOf(s)]) + f[s \ {AnyOf(s)}] BY <1>1, <1>3
  <2> QED BY <1>3, <2>1, <2>2
<1> HIDE DEF P
<1>4. P \in SUBSET (SUBSET T) BY DEF P
<1>5. T \in P BY <1>2, <1>3, <1>4, OneLess
<1> QED BY <1>5 DEF P

\* One more call of a chain is one more in all.
LEMMA OneMore ==
    ASSUME NEW made, NEW T, IsFiniteSet(T), NEW more, NEW c \in T, NEW e,
           \A d \in T : IsSeq(made[d]),
           \A d \in T : more[d] = IF d = c THEN Append(made[d], e) ELSE made[d],
           NEW f, AddsUp(made, T, f), NEW g, AddsUp(more, T, g)
    PROVE  f[T] \in Nat /\ g[T] = f[T] + 1
<1>1. \A s \in SUBSET T : f[s] = IF s = {} THEN 0 ELSE Len(made[AnyOf(s)]) + f[s \ {AnyOf(s)}]
  BY Zenon DEF AddsUp
<1>2. \A s \in SUBSET T : g[s] = IF s = {} THEN 0 ELSE Len(more[AnyOf(s)]) + g[s \ {AnyOf(s)}]
  BY Zenon DEF AddsUp
<1>3. \A d \in T : Len(made[d]) \in Nat /\ Len(more[d]) = IF d = c THEN Len(made[d]) + 1 ELSE Len(made[d])
  <2> SUFFICES ASSUME NEW d \in T PROVE Len(made[d]) \in Nat /\ Len(more[d]) = IF d = c THEN Len(made[d]) + 1 ELSE Len(made[d])
    OBVIOUS
  <2>1. PICK S : made[d] \in Seq(S) BY DEF IsSeq
  <2>2. Len(Append(made[d], e)) = Len(made[d]) + 1
    <3>1. made[d] \in Seq(S \cup {e}) BY <2>1
    <3> QED BY <3>1
  <2>3. Len(made[d]) \in Nat BY <2>1
  <2>4. CASE d = c BY <2>2, <2>3, <2>4
  <2>5. CASE d # c BY <2>3, <2>5
  <2> QED BY <2>4, <2>5
<1> DEFINE P == {s \in SUBSET T : f[s] \in Nat /\ g[s] = IF c \in s THEN f[s] + 1 ELSE f[s]}
<1>4. {} \in P
  <2>1. PICK z : z = {} OBVIOUS
  <2>2. z \in SUBSET T BY <2>1
  <2>3. f[z] = 0 /\ g[z] = 0 BY <1>1, <1>2, <2>1, <2>2
  <2> QED BY <2>1, <2>2, <2>3
<1>5. ASSUME NEW s \in SUBSET T, s # {}, s \ {AnyOf(s)} \in P PROVE s \in P
  <2>1. PICK x, r : x = AnyOf(s) /\ r = s \ {x} OBVIOUS
  <2>2. x \in s BY <1>5, <2>1 DEF AnyOf
  <2>3. f[r] \in Nat /\ g[r] = IF c \in r THEN f[r] + 1 ELSE f[r] BY <1>5, <2>1
  <2>4. f[s] = Len(made[x]) + f[r] /\ g[s] = Len(more[x]) + g[r] BY <1>1, <1>2, <1>5, <2>1
  <2>5. CASE x = c
    <3>1. c \in s /\ c \notin r BY <2>1, <2>2, <2>5
    <3>2. g[r] = f[r] /\ f[r] \in Nat BY <2>3, <3>1
    <3>3. Len(made[x]) \in Nat /\ Len(more[x]) = Len(made[x]) + 1 BY <1>3, <2>2, <2>5
    <3>4. f[s] \in Nat /\ g[s] = f[s] + 1 BY <2>4, <3>2, <3>3
    <3> QED BY <3>1, <3>4
  <2>6. CASE x # c
    <3>1. c \in s <=> c \in r BY <2>1, <2>6
    <3>2. Len(made[x]) \in Nat /\ Len(more[x]) = Len(made[x]) BY <1>3, <2>2, <2>6
    <3>3. CASE c \in r
      <4>1. g[r] = f[r] + 1 /\ f[r] \in Nat BY <2>3, <3>3
      <4>2. f[s] \in Nat /\ g[s] = f[s] + 1 BY <2>4, <3>2, <4>1
      <4> QED BY <3>1, <3>3, <4>2
    <3>4. CASE c \notin r
      <4>1. g[r] = f[r] /\ f[r] \in Nat BY <2>3, <3>4
      <4>2. f[s] \in Nat /\ g[s] = f[s] BY <2>4, <3>2, <4>1
      <4> QED BY <3>1, <3>4, <4>2
    <3> QED BY <3>3, <3>4
  <2> QED BY <2>5, <2>6
<1> HIDE DEF P
<1>6. P \in SUBSET (SUBSET T) BY DEF P
<1>7. T \in P BY <1>4, <1>5, <1>6, OneLess
<1> QED BY <1>7 DEF P

Verbs == {Query!Unset, "GET", "HEAD", "POST", "PATCH", "DELETE"}

\* A filter builder is a record with a method, and the calls are counted.
QueryInv ==
    /\ from \in [Chain -> Source \cup {Query!Unset}]
    /\ DOMAIN calls = Chain /\ \A c \in Chain : IsSeq(calls[c])
    /\ Query!Made \in Nat /\ Query!Made <= MaxCalls
    /\ request = [c \in Chain |-> request[c]]
    /\ \A c \in Chain : "method" \in DOMAIN request[c] /\ request[c].method \in Verbs

\* How many calls there are.
LEMMA MadeIs ==
    ASSUME IsFiniteSet(Chain)
    PROVE  /\ DOMAIN calls = Chain => \E f : AddsUp(calls, Chain, f) /\ Query!Made = f[Chain]
           /\ DOMAIN calls' = Chain => \E f : AddsUp(calls', Chain, f) /\ Query!Made' = f[Chain]
<1>1. ASSUME DOMAIN calls = Chain PROVE \E f : AddsUp(calls, Chain, f) /\ Query!Made = f[Chain]
  <2>1. PICK made, sum : made = calls /\ sum = Query!Made OBVIOUS
  <2>2. sum = (CHOOSE f : AddsUp(made, Chain, f))[Chain]
    BY <1>1, <2>1 DEF Query!Made, Query!FoldFunction, Query!FoldFunctionOnSet, Query!MapThenFoldSet, AnyOf, AddsUp
  <2>3. \E f : AddsUp(made, Chain, f) /\ sum = f[Chain] BY <2>2, MadeAddsUp
  <2> QED BY <2>1, <2>3
<1>2. ASSUME DOMAIN calls' = Chain PROVE \E f : AddsUp(calls', Chain, f) /\ Query!Made' = f[Chain]
  <2>1. PICK made, sum : made = calls' /\ sum = Query!Made' OBVIOUS
  <2>2. sum = (CHOOSE f : AddsUp(made, Chain, f))[Chain]
    BY <1>2, <2>1 DEF Query!Made, Query!FoldFunction, Query!FoldFunctionOnSet, Query!MapThenFoldSet, AnyOf, AddsUp
  <2>3. \E f : AddsUp(made, Chain, f) /\ sum = f[Chain] BY <2>2, MadeAddsUp
  <2> QED BY <2>1, <2>3
<1> QED BY <1>1, <1>2

\* A call is counted once.
LEMMA CalledCounts ==
    ASSUME IsFiniteSet(Chain), MaxCalls \in Nat, QueryInv, NEW c \in Chain, NEW call, Query!Called(c, call)
    PROVE  /\ DOMAIN calls' = Chain /\ \A d \in Chain : IsSeq(calls'[d])
           /\ Query!Made' \in Nat /\ Query!Made' <= MaxCalls
<1>1. Query!Made < MaxCalls /\ calls' = [calls EXCEPT ![c] = Append(@, call)] BY DEF Query!Called
<1>2. DOMAIN calls = Chain /\ (\A d \in Chain : IsSeq(calls[d])) /\ Query!Made \in Nat BY DEF QueryInv
<1>3. DOMAIN calls' = Chain /\ \A d \in Chain : calls'[d] = IF d = c THEN Append(calls[d], call) ELSE calls[d]
  BY <1>1, <1>2
<1>4. \A d \in Chain : IsSeq(calls'[d])
  <2> SUFFICES ASSUME NEW d \in Chain PROVE IsSeq(calls'[d]) OBVIOUS
  <2>1. PICK S : calls[d] \in Seq(S) BY <1>2 DEF IsSeq
  <2>2. calls[d] \in Seq(S \cup {call}) BY <2>1
  <2>3. Append(calls[d], call) \in Seq(S \cup {call}) BY <2>2
  <2>4. calls'[d] \in Seq(S \cup {call}) BY <1>3, <2>2, <2>3
  <2> QED BY <2>4 DEF IsSeq
<1>5. PICK f : AddsUp(calls, Chain, f) /\ Query!Made = f[Chain] BY <1>2, MadeIs
<1>6. PICK g : AddsUp(calls', Chain, g) /\ Query!Made' = g[Chain] BY <1>3, MadeIs
<1>7. PICK made, more : made = calls /\ more = calls' OBVIOUS
<1>8. g[Chain] = f[Chain] + 1
  <2>1. \A d \in Chain : IsSeq(made[d]) BY <1>2, <1>7
  <2>2. \A d \in Chain : more[d] = IF d = c THEN Append(made[d], call) ELSE made[d] BY <1>3, <1>7
  <2>3. AddsUp(made, Chain, f) /\ AddsUp(more, Chain, g) BY <1>5, <1>6, <1>7
  <2> QED BY <2>1, <2>2, <2>3, OneMore
<1>9. Query!Made' \in Nat /\ Query!Made' <= MaxCalls BY <1>1, <1>2, <1>5, <1>6, <1>8
<1> QED BY <1>3, <1>4, <1>9

\* The builder of one chain becomes another with the same or a proper method.
Rebuilt(c) ==
    \/ UNCHANGED request
    \/ \E b : /\ request' = [request EXCEPT ![c] = b]
              /\ "method" \in DOMAIN b /\ b.method \in Verbs \cup {request[c].method}

\* Which leaves the builders records with methods.
LEMMA RebuiltKeeps ==
    ASSUME QueryInv, NEW c \in Chain, Rebuilt(c)
    PROVE  /\ request' = [d \in Chain |-> request'[d]]
           /\ \A d \in Chain : "method" \in DOMAIN request'[d] /\ request'[d].method \in Verbs
<1>1. CASE UNCHANGED request BY <1>1 DEF QueryInv
<1>2. CASE ~UNCHANGED request
  <2>1. PICK b : /\ request' = [request EXCEPT ![c] = b]
                 /\ "method" \in DOMAIN b /\ b.method \in Verbs \cup {request[c].method}
    BY <1>2 DEF Rebuilt
  <2>2. DOMAIN request = Chain BY Zenon DEF QueryInv
  <2>3. \A d \in Chain : request'[d] = IF d = c THEN b ELSE request[d] BY <2>1, <2>2
  <2>4. request' = [d \in Chain |-> request'[d]] BY <2>1, <2>2
  <2> QED BY <2>1, <2>3, <2>4 DEF QueryInv
<1> QED BY <1>1, <1>2

\* A step that does not touch the calls leaves their number.
LEMMA UncalledCounts ==
    ASSUME QueryInv, UNCHANGED calls
    PROVE  /\ DOMAIN calls' = Chain /\ \A d \in Chain : IsSeq(calls'[d])
           /\ Query!Made' \in Nat /\ Query!Made' <= MaxCalls
<1>1. Query!Made' = Query!Made
  BY DEF Query!Made, Query!FoldFunction, Query!FoldFunctionOnSet, Query!MapThenFoldSet
<1> QED BY <1>1 DEF QueryInv

\* Each method of a chain is one more call, of a builder that may be new.
LEMMA QueryStep ==
    ASSUME IsFiniteSet(Chain), MaxCalls \in Nat, QueryInv, NEW c \in Chain, Rebuilt(c),
           UNCHANGED calls \/ \E call : Query!Called(c, call),
           UNCHANGED from \/ \E s \in Source : from' = [from EXCEPT ![c] = s]
    PROVE  QueryInv'
<1>1. /\ request' = [d \in Chain |-> request'[d]]
      /\ \A d \in Chain : "method" \in DOMAIN request'[d] /\ request'[d].method \in Verbs
  BY RebuiltKeeps
<1>2. /\ DOMAIN calls' = Chain /\ \A d \in Chain : IsSeq(calls'[d])
      /\ Query!Made' \in Nat /\ Query!Made' <= MaxCalls
  BY CalledCounts, UncalledCounts
<1>3. from' \in [Chain -> Source \cup {Query!Unset}]
  BY DEF QueryInv
<1> QED BY <1>1, <1>2, <1>3 DEF QueryInv

\* A method that makes a builder is such a call, and one of a filter builder.
LEMMA BuildsKeeps ==
    ASSUME IsFiniteSet(Chain), MaxCalls \in Nat, QueryInv, NEW c \in Chain,
           NEW verb \in Verbs, NEW prefers, NEW pairs, Query!Builds(c, verb, prefers, pairs)
    PROVE  QueryInv'
<1>1. PICK b : /\ request' = [request EXCEPT ![c] = b]
               /\ "method" \in DOMAIN b /\ b.method = verb
  <2> DEFINE b == [method |-> verb, prefer |-> preferred'[from[c]], accept |-> <<>>]
  <2>1. request' = [request EXCEPT ![c] = b] BY DEF Query!Builds
  <2>2. "method" \in DOMAIN b /\ b.method = verb OBVIOUS
  <2> QED BY <2>1, <2>2
<1>2. Rebuilt(c) BY <1>1 DEF Rebuilt
<1>3. (\E call : Query!Called(c, call)) /\ UNCHANGED from BY DEF Query!Builds
<1> QED BY <1>2, <1>3, QueryStep

LEMMA EditsKeeps ==
    ASSUME IsFiniteSet(Chain), MaxCalls \in Nat, QueryInv, NEW c \in Chain, NEW pairs, NEW call,
           Query!Edits(c, pairs, call),
           \/ UNCHANGED request
           \/ \E p : request' = [request EXCEPT ![c].prefer = p]
           \/ \E a : request' = [request EXCEPT ![c].accept = a]
    PROVE  QueryInv'
<1>1. "method" \in DOMAIN request[c] BY DEF QueryInv
<1>2. Rebuilt(c)
  <2>1. CASE UNCHANGED request BY <2>1 DEF Rebuilt
  <2>2. ASSUME NEW p, request' = [request EXCEPT ![c].prefer = p] PROVE Rebuilt(c)
    <3>1. PICK b : b = [request[c] EXCEPT !.prefer = p] OBVIOUS
    <3>2. request' = [request EXCEPT ![c] = b] BY <2>2, <3>1
    <3>3. "method" \in DOMAIN b /\ b.method = request[c].method BY <1>1, <3>1
    <3> QED BY <3>2, <3>3 DEF Rebuilt
  <2>3. ASSUME NEW a, request' = [request EXCEPT ![c].accept = a] PROVE Rebuilt(c)
    <3>1. PICK b : b = [request[c] EXCEPT !.accept = a] OBVIOUS
    <3>2. request' = [request EXCEPT ![c] = b] BY <2>3, <3>1
    <3>3. "method" \in DOMAIN b /\ b.method = request[c].method BY <1>1, <3>1
    <3> QED BY <3>2, <3>3 DEF Rebuilt
  <2> QED BY <2>1, <2>2, <2>3
<1>3. (\E one : Query!Called(c, one)) /\ UNCHANGED from BY DEF Query!Edits
<1> QED BY <1>2, <1>3, QueryStep

\* And so is each step of a chain.
LEMMA QueryKeeps ==
    ASSUME IsFiniteSet(Chain), MaxCalls \in Nat, QueryInv, [Query!Next]_(Query!vars)
    PROVE  QueryInv'
<1>1. CASE UNCHANGED Query!vars
  <2>1. UNCHANGED <<from, request, calls>> BY <1>1 DEF Query!vars
  <2>2. /\ DOMAIN calls' = Chain /\ \A d \in Chain : IsSeq(calls'[d])
        /\ Query!Made' \in Nat /\ Query!Made' <= MaxCalls
    BY <2>1, UncalledCounts
  <2> QED BY <2>1, <2>2 DEF QueryInv
<1>2. ASSUME NEW c \in Chain, NEW s \in Source, Query!From(c, s) PROVE QueryInv'
  <2>1. Rebuilt(c) /\ UNCHANGED calls /\ from' = [from EXCEPT ![c] = s] BY <1>2 DEF Query!From, Rebuilt
  <2> QED BY <2>1, QueryStep
<1>3. ASSUME NEW c \in Chain, NEW s \in Source, Query!rpc(c, s) PROVE QueryInv'
  <2>1. PICK verb \in {"GET", "HEAD", "POST"}, k \in Query!count, column \in Column :
          /\ Query!Called(c, <<"rpc", column>>)
          /\ request' = [request EXCEPT ![c] = [method |-> verb, prefer |-> k, accept |-> <<>>]]
    BY <1>3 DEF Query!rpc
  <2>2. PICK b : b = [method |-> verb, prefer |-> k, accept |-> <<>>] OBVIOUS
  <2>3. "method" \in DOMAIN b /\ b.method \in Verbs BY <2>2 DEF Verbs
  <2>4. Rebuilt(c) BY <2>1, <2>2, <2>3 DEF Rebuilt
  <2>5. from' = [from EXCEPT ![c] = s] BY <1>3 DEF Query!rpc
  <2>6. \E call : Query!Called(c, call) BY <2>1
  <2> QED BY <2>4, <2>5, <2>6, QueryStep
<1>4. ASSUME NEW c \in Chain, Query!select(c) \/ Query!update(c) \/ Query!delete(c) PROVE QueryInv'
  <2>1. \E verb \in Verbs : \E prefers, pairs : Query!Builds(c, verb, prefers, pairs)
    BY <1>4 DEF Query!select, Query!update, Query!delete, Verbs
  <2> QED BY <2>1, BuildsKeeps
<1>5. ASSUME NEW c \in Chain, Query!insert(c) \/ Query!upsert(c) PROVE QueryInv'
  <2>1. \E prefers, pairs : Query!Builds(c, "POST", prefers, pairs)
    BY <1>5 DEF Query!insert, Query!upsert
  <2>2. "POST" \in Verbs BY DEF Verbs
  <2> QED BY <2>1, <2>2, BuildsKeeps
<1>6. ASSUME NEW c \in Chain, NEW column, NEW operator,
             Query!order(c, column) \/ Query!filter(c, column, operator) \/ Query!limit(c, 7) \/ Query!range(c, 2, 4)
      PROVE  QueryInv'
  <2>1. (\E pairs, call : Query!Edits(c, pairs, call)) /\ UNCHANGED request
    BY <1>6 DEF Query!order, Query!filter, Query!limit, Query!range
  <2> QED BY <2>1, EditsKeeps
<1>7. ASSUME NEW c \in Chain, Query!returning(c) \/ Query!rollback(c) \/ Query!maxAffected(c) PROVE QueryInv'
  <2>1. (\E pairs, call : Query!Edits(c, pairs, call)) /\ \E p : request' = [request EXCEPT ![c].prefer = p]
    BY <1>7 DEF Query!returning, Query!rollback, Query!maxAffected, Query!Preferring
  <2> QED BY <2>1, EditsKeeps
<1>8. ASSUME NEW c \in Chain,
             Query!single(c) \/ Query!maybeSingle(c) \/ Query!csv(c) \/ Query!geojson(c) \/ Query!explain(c)
      PROVE  QueryInv'
  <2>1. (\E pairs, call : Query!Edits(c, pairs, call)) /\ \E a : request' = [request EXCEPT ![c].accept = a]
    BY <1>8 DEF Query!single, Query!maybeSingle, Query!csv, Query!geojson, Query!explain, Query!Formatted
  <2> QED BY <2>1, EditsKeeps
<1> QED BY <1>1, <1>2, <1>3, <1>4, <1>5, <1>6, <1>7, <1>8 DEF Query!Next

\* There are no calls at first.
LEMMA QueryBegins ==
    ASSUME IsFiniteSet(Chain), MaxCalls \in Nat, Query!Init
    PROVE  QueryInv
<1>1. DOMAIN calls = Chain /\ \A c \in Chain : calls[c] = <<>> BY DEF Query!Init
<1>2. PICK made, f : made = calls /\ AddsUp(made, Chain, f) /\ Query!Made = f[Chain] BY <1>1, MadeIs
<1>3. Query!Made = 0
  <2>1. \A c \in Chain : Len(made[c]) = 0 BY <1>1, <1>2
  <2> QED BY <1>2, <2>1, NoneMade
<1>4. \A c \in Chain : IsSeq(calls[c])
  <2>1. <<>> \in Seq({}) OBVIOUS
  <2> QED BY <1>1, <2>1 DEF IsSeq
<1>5. request = [c \in Chain |-> request[c]] /\ \A c \in Chain : request[c] = Query!Nothing BY DEF Query!Init
<1>6. "method" \in DOMAIN Query!Nothing /\ Query!Nothing.method \in Verbs BY DEF Query!Nothing, Verbs
<1>7. from \in [Chain -> Source \cup {Query!Unset}] BY DEF Query!Init
<1> QED BY <1>1, <1>3, <1>4, <1>5, <1>6, <1>7 DEF QueryInv

-----------------------------------------------------------------------------
\* What Picked does, member by member.
Picking(q, I, f) ==
    /\ f[0] = <<>>
    /\ \A i \in 1..Len(q) : f[i] = IF i \in I THEN Append(f[i - 1], q[i]) ELSE f[i - 1]

PicksUpTo(q, I, n, f) ==
    f = [i \in 0..n |-> IF i = 0 THEN <<>> ELSE IF i \in I THEN Append(f[i - 1], q[i]) ELSE f[i - 1]]

\* There is such a function for each length.
LEMMA PickedUpTo ==
    ASSUME NEW q, NEW I
    PROVE  \A n \in Nat : \E f : PicksUpTo(q, I, n, f)
<1> DEFINE Nxt(f, i) == IF i = 0 THEN <<>> ELSE IF i \in I THEN Append(f[i - 1], q[i]) ELSE f[i - 1]
           N == {n \in Nat : \E f : PicksUpTo(q, I, n, f)}
<1>1. 0 \in N
  <2>1. PICK f : f = [i \in 0..0 |-> <<>>] OBVIOUS
  <2>2. f = [i \in 0..0 |-> Nxt(f, i)] BY <2>1
  <2>3. PicksUpTo(q, I, 0, f) BY <2>2 DEF PicksUpTo
  <2> QED BY <2>3
<1>2. ASSUME NEW n \in Nat, n \in N PROVE n + 1 \in N
  <2>1. PICK f : PicksUpTo(q, I, n, f) BY <1>2
  <2>2. \A i \in 0..n : f[i] = Nxt(f, i) BY <2>1 DEF PicksUpTo
  <2>3. PICK g : g = [i \in 0..(n + 1) |-> IF i = n + 1 THEN Nxt(f, i) ELSE f[i]] OBVIOUS
  <2>4. \A i \in 0..n : g[i] = f[i] BY <2>3
  <2>5. ASSUME NEW i \in 0..(n + 1) PROVE g[i] = Nxt(g, i)
    <3>1. CASE i = n + 1
      <4>1. g[i] = Nxt(f, i) BY <2>3, <3>1
      <4>2. i - 1 = n /\ i # 0 BY <3>1
      <4>3. g[i - 1] = f[i - 1] BY <2>4, <4>2
      <4> QED BY <4>1, <4>2, <4>3
    <3>2. CASE i \in 0..n
      <4>1. g[i] = Nxt(f, i) BY <2>2, <2>4, <3>2
      <4>2. i # 0 => g[i - 1] = f[i - 1] BY <2>4, <3>2
      <4> QED BY <4>1, <4>2
    <3> QED BY <3>1, <3>2
  <2>6. g = [i \in 0..(n + 1) |-> Nxt(g, i)]
    <3> HIDE DEF Nxt
    <3> QED BY <2>3, <2>5
  <2>7. PicksUpTo(q, I, n + 1, g) BY <2>6 DEF PicksUpTo
  <2> QED BY <2>7
<1>3. Nat \subseteq N
  <2> HIDE DEF N
  <2> QED BY <1>1, <1>2, NatSetInduction
<1> QED BY <1>3

\* Picked is the last value of one.
LEMMA PickedPicks ==
    ASSUME NEW S, NEW q \in Seq(S), NEW I
    PROVE  \E f : Picking(q, I, f) /\ Query!Picked(q, I) = f[Len(q)]
<1>1. Len(q) \in Nat OBVIOUS
<1> DEFINE F == CHOOSE f : PicksUpTo(q, I, Len(q), f)
<1>2. Query!Picked(q, I) = F[Len(q)] BY DEF Query!Picked, PicksUpTo
<1>3. PicksUpTo(q, I, Len(q), F) BY <1>1, PickedUpTo
<1> HIDE DEF F
<1>4. \A i \in 0..Len(q) : F[i] = IF i = 0 THEN <<>> ELSE IF i \in I THEN Append(F[i - 1], q[i]) ELSE F[i - 1]
  BY <1>3, Zenon DEF PicksUpTo
<1>5. F[0] = <<>> BY <1>1, <1>4
<1>6. \A i \in 1..Len(q) : i \in 0..Len(q) /\ i # 0 BY <1>1
<1>7. Picking(q, I, F) BY <1>4, <1>5, <1>6 DEF Picking
<1> QED BY <1>2, <1>7

\* The members picked are a sequence of the same things.
LEMMA PickedSeq ==
    ASSUME NEW S, NEW q \in Seq(S), NEW I, NEW f, Picking(q, I, f)
    PROVE  \A n \in 0..Len(q) : f[n] \in Seq(S)
<1> DEFINE N == {n \in Nat : n <= Len(q) => f[n] \in Seq(S)}
<1>1. 0 \in N BY EmptySeq DEF Picking
<1>2. ASSUME NEW n \in Nat, n \in N PROVE n + 1 \in N
  <2>1. SUFFICES ASSUME n + 1 <= Len(q) PROVE f[n + 1] \in Seq(S) OBVIOUS
  <2>2. n + 1 \in 1..Len(q) /\ n + 1 - 1 = n BY <2>1
  <2>3. f[n] \in Seq(S) /\ q[n + 1] \in S BY <1>2, <2>1, <2>2
  <2>4. f[n + 1] = IF n + 1 \in I THEN Append(f[n], q[n + 1]) ELSE f[n] BY <2>2 DEF Picking
  <2>5. Append(f[n], q[n + 1]) \in Seq(S) BY <2>3
  <2> QED BY <2>3, <2>4, <2>5
<1>3. Nat \subseteq N
  <2> HIDE DEF N
  <2> QED BY <1>1, <1>2, NatSetInduction
<1> QED BY <1>3

\* One more member, picked or not.
LEMMA PickedAppend ==
    ASSUME NEW S, NEW q \in Seq(S), NEW x \in S, NEW I, NEW J, \A i \in 1..Len(q) : i \in J <=> i \in I
    PROVE  /\ Query!Picked(q, I) \in Seq(S)
           /\ Len(q) + 1 \in J => Query!Picked(Append(q, x), J) = Append(Query!Picked(q, I), x)
           /\ Len(q) + 1 \notin J => Query!Picked(Append(q, x), J) = Query!Picked(q, I)
<1>1. PICK f : Picking(q, I, f) /\ Query!Picked(q, I) = f[Len(q)] BY PickedPicks
<1>2. PICK r : r = Append(q, x) OBVIOUS
<1>3. r \in Seq(S) /\ Len(r) = Len(q) + 1 /\ r[Len(q) + 1] = x /\ \A i \in 1..Len(q) : r[i] = q[i] BY <1>2
<1>4. PICK g : Picking(r, J, g) /\ Query!Picked(r, J) = g[Len(r)] BY <1>3, PickedPicks
<1> DEFINE N == {n \in Nat : n <= Len(q) => g[n] = f[n]}
<1>5. 0 \in N BY <1>1, <1>4 DEF Picking
<1>6. ASSUME NEW n \in Nat, n \in N PROVE n + 1 \in N
  <2>1. SUFFICES ASSUME n + 1 <= Len(q) PROVE g[n + 1] = f[n + 1] OBVIOUS
  <2>2. n + 1 \in 1..Len(q) /\ n + 1 \in 1..Len(r) /\ n + 1 - 1 = n /\ n <= Len(q) BY <1>3, <2>1
  <2>3. g[n] = f[n] /\ r[n + 1] = q[n + 1] BY <1>3, <1>6, <2>2
  <2>4. f[n + 1] = IF n + 1 \in I THEN Append(f[n], q[n + 1]) ELSE f[n] BY <1>1, <2>2 DEF Picking
  <2>5. g[n + 1] = IF n + 1 \in J THEN Append(g[n], r[n + 1]) ELSE g[n] BY <1>4, <2>2 DEF Picking
  <2> QED BY <2>2, <2>3, <2>4, <2>5
<1>7. Nat \subseteq N
  <2> HIDE DEF N
  <2> QED BY <1>5, <1>6, NatSetInduction
<1>8. g[Len(q)] = f[Len(q)] BY <1>7
<1>9. g[Len(r)] = IF Len(q) + 1 \in J THEN Append(g[Len(q)], x) ELSE g[Len(q)]
  <2>1. Len(r) \in 1..Len(r) /\ Len(r) - 1 = Len(q) BY <1>3
  <2> QED BY <1>3, <1>4, <2>1 DEF Picking
<1>10. f[Len(q)] \in Seq(S) BY <1>1, PickedSeq
<1> QED BY <1>1, <1>2, <1>4, <1>8, <1>9, <1>10

\* The members of a key after one more.
LEMMA WithAppend ==
    ASSUME NEW S, NEW q \in Seq(S), NEW x \in S, NEW k
    PROVE  /\ Query!With(q, k) \subseteq 1..Len(q)
           /\ \A i \in 1..Len(q) : i \in Query!With(Append(q, x), k) <=> i \in Query!With(q, k)
           /\ Len(q) + 1 \in Query!With(Append(q, x), k) <=> x[1] = k
BY DEF Query!With

\* The first of a key.
FirstWith(q, k, i) == i \in 1..Len(q) /\ q[i][1] = k /\ \A j \in 1..Len(q) : j < i => q[j][1] # k
NoneWith(q, k) == \A i \in 1..Len(q) : q[i][1] # k

\* What get reads is the first of a key.
LEMMA GetFirst ==
    ASSUME NEW S, NEW q \in Seq(S), NEW k, NEW i, FirstWith(q, k, i)
    PROVE  Query!With(q, k) # {} /\ Query!Min(Query!With(q, k)) = i /\ Query!GetParam(q, k) = q[i][2]
<1>1. DOMAIN q = 1..Len(q) /\ Len(q) \in Nat OBVIOUS
<1>2. PICK has : has = Query!With(q, k) OBVIOUS
<1>3. has = {j \in 1..Len(q) : q[j][1] = k} BY <1>1, <1>2 DEF Query!With
<1>4. i \in has /\ \A j \in has : i <= j BY <1>1, <1>3 DEF FirstWith
<1>5. \A x \in has : (\A y \in has : x <= y) => x = i
  <2> SUFFICES ASSUME NEW x \in has, \A y \in has : x <= y PROVE x = i OBVIOUS
  <2>1. x \in Nat /\ i \in Nat BY <1>1, <1>3, <1>4
  <2>2. x <= i /\ i <= x BY <1>4
  <2> QED BY <2>1, <2>2
<1>6. Query!Min(has) = i
  <2>1. Query!Min(has) = CHOOSE x \in has : \A y \in has : x <= y BY DEF Query!Min
  <2> QED BY <1>4, <1>5, <2>1
<1> QED BY <1>2, <1>4, <1>6 DEF Query!GetParam

\* Or nothing, when there is none.
LEMMA GetNone ==
    ASSUME NEW S, NEW q \in Seq(S), NEW k, NoneWith(q, k)
    PROVE  Query!With(q, k) = {} /\ Query!GetParam(q, k) = <<>>
<1>1. DOMAIN q = 1..Len(q) OBVIOUS
<1>2. Query!With(q, k) = {} BY <1>1 DEF Query!With, NoneWith
<1> QED BY <1>2 DEF Query!GetParam

\* There is a first one, if there is one.
LEMMA FirstExists ==
    ASSUME NEW S, NEW q \in Seq(S), NEW k, ~NoneWith(q, k)
    PROVE  \E i : FirstWith(q, k, i)
<1>1. Len(q) \in Nat OBVIOUS
<1> DEFINE N == {n \in Nat : (\E j \in 1..Len(q) : j <= n /\ q[j][1] = k) => \E i : FirstWith(q, k, i)}
<1>2. 0 \in N OBVIOUS
<1>3. ASSUME NEW n \in Nat, n \in N PROVE n + 1 \in N
  <2>1. SUFFICES ASSUME NEW j \in 1..Len(q), j <= n + 1, q[j][1] = k PROVE \E i : FirstWith(q, k, i) OBVIOUS
  <2>2. CASE \E m \in 1..Len(q) : m <= n /\ q[m][1] = k BY <1>3, <2>2
  <2>3. CASE \A m \in 1..Len(q) : m <= n => q[m][1] # k
    <3>1. j = n + 1 BY <2>1, <2>3
    <3>2. \A m \in 1..Len(q) : m < j => m <= n BY <3>1
    <3>3. FirstWith(q, k, j) BY <2>1, <2>3, <3>2 DEF FirstWith
    <3> QED BY <3>3
  <2> QED BY <2>2, <2>3
<1>4. Nat \subseteq N
  <2> HIDE DEF N
  <2> QED BY <1>2, <1>3, NatSetInduction
<1>5. PICK j \in 1..Len(q) : q[j][1] = k BY DEF NoneWith
<1>6. j \in Nat /\ j <= j BY <1>1
<1> QED BY <1>4, <1>5, <1>6

\* The value of a key after one more pair.
LEMMA GetAppend ==
    ASSUME NEW S, NEW q \in Seq(S), NEW x \in S, NEW k
    PROVE  /\ NoneWith(Append(q, x), k) <=> NoneWith(q, k) /\ x[1] # k
           /\ ~NoneWith(q, k) => Query!GetParam(Append(q, x), k) = Query!GetParam(q, k)
           /\ NoneWith(q, k) /\ x[1] = k => Query!GetParam(Append(q, x), k) = x[2]
           /\ NoneWith(q, k) /\ x[1] # k => Query!GetParam(Append(q, x), k) = <<>>
<1>1. PICK r : r = Append(q, x) OBVIOUS
<1>2. r \in Seq(S) /\ Len(q) \in Nat /\ Len(r) = Len(q) + 1 /\ r[Len(q) + 1] = x /\ \A i \in 1..Len(q) : r[i] = q[i]
  BY <1>1
<1>3. 1..Len(r) = 1..Len(q) \cup {Len(q) + 1} BY <1>2
<1>4. NoneWith(r, k) <=> NoneWith(q, k) /\ x[1] # k BY <1>2, <1>3 DEF NoneWith
<1>5. ASSUME ~NoneWith(q, k) PROVE Query!GetParam(r, k) = Query!GetParam(q, k)
  <2>1. PICK i : FirstWith(q, k, i) BY <1>5, FirstExists
  <2>2. i \in 1..Len(q) /\ q[i][1] = k BY <2>1 DEF FirstWith
  <2>3. \A j \in 1..Len(r) : j < i => j \in 1..Len(q) BY <1>2, <2>2
  <2>4. FirstWith(r, k, i) BY <1>2, <1>3, <2>1, <2>2, <2>3 DEF FirstWith
  <2>5. Query!GetParam(q, k) = q[i][2] BY <2>1, GetFirst
  <2>6. Query!GetParam(r, k) = r[i][2] BY <1>2, <2>4, GetFirst
  <2> QED BY <1>2, <2>2, <2>5, <2>6
<1>6. ASSUME NoneWith(q, k), x[1] = k PROVE Query!GetParam(r, k) = x[2]
  <2>1. \A j \in 1..Len(r) : j < Len(q) + 1 => j \in 1..Len(q) BY <1>2
  <2>2. FirstWith(r, k, Len(q) + 1) BY <1>2, <1>3, <1>6, <2>1 DEF FirstWith, NoneWith
  <2>3. Query!GetParam(r, k) = r[Len(q) + 1][2] BY <1>2, <2>2, GetFirst
  <2> QED BY <1>2, <2>3
<1>7. ASSUME NoneWith(q, k), x[1] # k PROVE Query!GetParam(r, k) = <<>>
  BY <1>2, <1>4, <1>7, GetNone
<1> QED BY <1>1, <1>4, <1>5, <1>6, <1>7

\* The pairs that PostgREST reads as filters.
IsFilter(pair) == pair[1] \notin Query!Parameter /\ pair[2] # <<"rpc">>
FilterAt(q) == {i \in DOMAIN q : q[i][1] \notin Query!Parameter /\ q[i][2] # <<"rpc">>}
Filters(q) == Query!Picked(q, FilterAt(q))

\* The filters after one more pair.
LEMMA FiltersAppend ==
    ASSUME NEW S, NEW q \in Seq(S), NEW x \in S
    PROVE  /\ IsFilter(x) => Filters(Append(q, x)) = Append(Filters(q), x)
           /\ ~IsFilter(x) => Filters(Append(q, x)) = Filters(q)
<1>1. PICK r : r = Append(q, x) OBVIOUS
<1>2. r \in Seq(S) /\ Len(q) \in Nat /\ Len(r) = Len(q) + 1 /\ r[Len(q) + 1] = x /\ \A i \in 1..Len(q) : r[i] = q[i]
  BY <1>1
<1>3. DOMAIN r = 1..Len(r) /\ DOMAIN q = 1..Len(q) BY <1>2
<1>4. \A i \in 1..Len(q) : i \in FilterAt(r) <=> i \in FilterAt(q) BY <1>2, <1>3 DEF FilterAt
<1>5. Len(q) + 1 \in FilterAt(r) <=> IsFilter(x) BY <1>2, <1>3 DEF FilterAt, IsFilter
<1>6. PICK I, J : I = FilterAt(q) /\ J = FilterAt(r) OBVIOUS
<1>7. /\ Len(q) + 1 \in J => Query!Picked(Append(q, x), J) = Append(Query!Picked(q, I), x)
      /\ Len(q) + 1 \notin J => Query!Picked(Append(q, x), J) = Query!Picked(q, I)
  BY <1>4, <1>6, PickedAppend
<1> QED BY <1>1, <1>5, <1>6, <1>7 DEF Filters

\* What set leaves: the key has the value, the other keys have what they had, and the filters stay.
LEMMA SetParamSets ==
    ASSUME NEW S, NEW q \in Seq(S), NEW k, NEW v
    PROVE  /\ IsSeq(Query!SetParam(q, k, v))
           /\ k \in Query!Parameter => Filters(Query!SetParam(q, k, v)) = Filters(q)
           /\ Query!GetParam(Query!SetParam(q, k, v), k) = v
           /\ \A l : l # k => Query!GetParam(Query!SetParam(q, k, v), l) = Query!GetParam(q, l)
<1>1. PICK x : x = <<k, v>> OBVIOUS
<1>2. PICK T : T = S \cup {x} OBVIOUS
<1>3. q \in Seq(T) /\ x \in T /\ x[1] = k /\ x[2] = v BY <1>1, <1>2
<1>4. k \in Query!Parameter => ~IsFilter(x) BY <1>3 DEF IsFilter
<1>5. CASE NoneWith(q, k)
  <2>1. Query!SetParam(q, k, v) = Append(q, x)
    BY <1>1, <1>5, GetNone DEF Query!SetParam, Query!AppendParam
  <2>2. IsSeq(Append(q, x))
    <3>1. Append(q, x) \in Seq(T) BY <1>3
    <3> QED BY <3>1 DEF IsSeq
  <2>3. k \in Query!Parameter => Filters(Append(q, x)) = Filters(q) BY <1>3, <1>4, FiltersAppend
  <2>4. Query!GetParam(Append(q, x), k) = v BY <1>3, <1>5, GetAppend
  <2>5. ASSUME NEW l, l # k PROVE Query!GetParam(Append(q, x), l) = Query!GetParam(q, l)
    <3>1. CASE NoneWith(q, l) BY <1>3, <2>5, <3>1, GetAppend, GetNone
    <3>2. CASE ~NoneWith(q, l) BY <1>3, <3>2, GetAppend
    <3> QED BY <3>1, <3>2
  <2> QED BY <2>1, <2>2, <2>3, <2>4, <2>5
<1>6. CASE ~NoneWith(q, k)
  <2>1. PICK m : FirstWith(q, k, m) BY <1>6, FirstExists
  <2>2. m \in 1..Len(q) /\ q[m][1] = k /\ \A j \in 1..Len(q) : j < m => q[j][1] # k BY <2>1 DEF FirstWith
  <2>3. Query!With(q, k) # {} /\ Query!Min(Query!With(q, k)) = m BY <2>1, GetFirst
  <2>4. PICK I : I = {m} \cup (DOMAIN q \ Query!With(q, k)) OBVIOUS
  <2>5. PICK p : p = [q EXCEPT ![m] = x] OBVIOUS
  <2>6. Query!SetParam(q, k, v) = Query!Picked(p, I)
    BY <1>1, <2>3, <2>4, <2>5 DEF Query!SetParam
  <2>7. /\ p \in Seq(T) /\ Len(p) = Len(q) /\ Len(q) \in Nat
        /\ p[m] = x /\ \A j \in 1..Len(q) : j # m => p[j] = q[j]
    BY <1>3, <2>2, <2>5, ExceptSeq
  <2>8. \A j \in 1..Len(q) : j \in I <=> j = m \/ q[j][1] # k
    <3>1. DOMAIN q = 1..Len(q) OBVIOUS
    <3> QED BY <2>2, <2>4, <3>1 DEF Query!With
  <2>9. PICK g : Picking(p, I, g) /\ Query!Picked(p, I) = g[Len(q)] BY <2>7, PickedPicks
  <2>10. PICK f : Picking(q, FilterAt(q), f) /\ Filters(q) = f[Len(q)] BY PickedPicks DEF Filters
  <2>11. \A n \in 0..Len(q) : g[n] \in Seq(T) BY <2>7, <2>9, PickedSeq
  <2>12. \A n \in Nat : n + 1 <= Len(q) =>
            /\ n + 1 \in 1..Len(q) /\ n <= Len(q) /\ n \in 0..Len(q)
            /\ g[n + 1] = IF n + 1 = m \/ q[n + 1][1] # k THEN Append(g[n], p[n + 1]) ELSE g[n]
            /\ f[n + 1] = IF IsFilter(q[n + 1]) THEN Append(f[n], q[n + 1]) ELSE f[n]
            /\ p[n + 1] \in T
    <3> SUFFICES ASSUME NEW n \in Nat, n + 1 <= Len(q)
                 PROVE  /\ n + 1 \in 1..Len(q) /\ n <= Len(q) /\ n \in 0..Len(q)
                        /\ g[n + 1] = IF n + 1 = m \/ q[n + 1][1] # k THEN Append(g[n], p[n + 1]) ELSE g[n]
                        /\ f[n + 1] = IF IsFilter(q[n + 1]) THEN Append(f[n], q[n + 1]) ELSE f[n]
                        /\ p[n + 1] \in T
      OBVIOUS
    <3>1. n + 1 \in 1..Len(q) /\ n <= Len(q) /\ n \in 0..Len(q) /\ n + 1 - 1 = n BY <2>7
    <3>2. g[n + 1] = IF n + 1 \in I THEN Append(g[n], p[n + 1]) ELSE g[n] BY <2>7, <2>9, <3>1 DEF Picking
    <3>3. f[n + 1] = IF n + 1 \in FilterAt(q) THEN Append(f[n], q[n + 1]) ELSE f[n] BY <2>10, <3>1 DEF Picking
    <3>4. n + 1 \in FilterAt(q) <=> IsFilter(q[n + 1])
      <4>1. DOMAIN q = 1..Len(q) OBVIOUS
      <4> QED BY <3>1, <4>1 DEF FilterAt, IsFilter
    <3>5. p[n + 1] \in T BY <2>7, <3>1
    <3> QED BY <2>8, <3>1, <3>2, <3>3, <3>4, <3>5
  <2>13. g[0] = <<>> /\ f[0] = <<>> BY <2>9, <2>10 DEF Picking
  <2>14. \A l : NoneWith(<<>>, l) BY DEF NoneWith
  <2>15. k \in Query!Parameter => Filters(g[Len(q)]) = f[Len(q)]
    <3> SUFFICES ASSUME k \in Query!Parameter PROVE Filters(g[Len(q)]) = f[Len(q)] OBVIOUS
    <3> DEFINE N == {n \in Nat : n <= Len(q) => Filters(g[n]) = f[n]}
    <3>1. 0 \in N
      <4>1. PICK e : e = <<>> OBVIOUS
      <4>2. e \in Seq({}) /\ Len(e) = 0 BY <4>1
      <4>3. PICK h : Picking(e, FilterAt(e), h) /\ Filters(e) = h[Len(e)] BY <4>2, PickedPicks DEF Filters
      <4>4. Filters(e) = <<>> BY <4>2, <4>3 DEF Picking
      <4> QED BY <2>13, <4>1, <4>4
    <3>2. ASSUME NEW n \in Nat, n \in N PROVE n + 1 \in N
      <4>1. SUFFICES ASSUME n + 1 <= Len(q) PROVE Filters(g[n + 1]) = f[n + 1] OBVIOUS
      <4>2. Filters(g[n]) = f[n] /\ g[n] \in Seq(T) BY <2>11, <2>12, <3>2, <4>1
      <4>3. CASE n + 1 = m
        <5>1. ~IsFilter(p[n + 1]) /\ ~IsFilter(q[n + 1]) BY <1>4, <2>2, <2>7, <4>3 DEF IsFilter
        <5>2. g[n + 1] = Append(g[n], p[n + 1]) /\ f[n + 1] = f[n] BY <2>12, <4>1, <4>3, <5>1
        <5> QED BY <2>12, <4>1, <4>2, <5>1, <5>2, FiltersAppend
      <4>4. CASE n + 1 # m /\ q[n + 1][1] = k
        <5>1. ~IsFilter(q[n + 1]) BY <4>4 DEF IsFilter
        <5>2. g[n + 1] = g[n] /\ f[n + 1] = f[n] BY <2>12, <4>1, <4>4, <5>1
        <5> QED BY <4>2, <5>2
      <4>5. CASE n + 1 # m /\ q[n + 1][1] # k
        <5>1. p[n + 1] = q[n + 1] BY <2>7, <2>12, <4>1, <4>5
        <5>2. g[n + 1] = Append(g[n], q[n + 1]) BY <2>12, <4>1, <4>5, <5>1
        <5>3. q[n + 1] \in T BY <2>12, <4>1, <5>1
        <5>4. /\ IsFilter(q[n + 1]) => Filters(g[n + 1]) = Append(Filters(g[n]), q[n + 1])
              /\ ~IsFilter(q[n + 1]) => Filters(g[n + 1]) = Filters(g[n])
          BY <4>2, <5>2, <5>3, FiltersAppend
        <5>5. f[n + 1] = IF IsFilter(q[n + 1]) THEN Append(f[n], q[n + 1]) ELSE f[n] BY <2>12, <4>1
        <5> QED BY <4>2, <5>4, <5>5
      <4> QED BY <4>3, <4>4, <4>5
    <3>3. Nat \subseteq N
      <4> HIDE DEF N
      <4> QED BY <3>1, <3>2, NatSetInduction
    <3> QED BY <2>7, <3>3
  <2>16. Query!GetParam(g[Len(q)], k) = v
    <3> DEFINE N == {n \in Nat : n <= Len(q) =>
                      /\ n < m => NoneWith(g[n], k)
                      /\ n >= m => ~NoneWith(g[n], k) /\ Query!GetParam(g[n], k) = v}
    <3>1. 0 \in N BY <2>2, <2>13, <2>14
    <3>2. ASSUME NEW n \in Nat, n \in N PROVE n + 1 \in N
      <4>1. SUFFICES ASSUME n + 1 <= Len(q)
                     PROVE  /\ n + 1 < m => NoneWith(g[n + 1], k)
                            /\ n + 1 >= m => ~NoneWith(g[n + 1], k) /\ Query!GetParam(g[n + 1], k) = v
        OBVIOUS
      <4>2. /\ g[n] \in Seq(T) /\ p[n + 1] \in T
            /\ n < m => NoneWith(g[n], k)
            /\ n >= m => ~NoneWith(g[n], k) /\ Query!GetParam(g[n], k) = v
        BY <2>11, <2>12, <3>2, <4>1
      <4>3. m \in Nat BY <2>2
      <4>4. CASE n + 1 = m
        <5>1. g[n + 1] = Append(g[n], p[n + 1]) BY <2>12, <4>1, <4>4
        <5>2. p[n + 1] = x BY <2>2, <2>7, <4>4
        <5>3. n < m BY <4>4
        <5>4. NoneWith(g[n], k) BY <4>2, <5>3
        <5>5. ~NoneWith(g[n + 1], k) /\ Query!GetParam(g[n + 1], k) = v
          BY <1>3, <4>2, <5>1, <5>2, <5>4, GetAppend
        <5>6. ~(n + 1 < m) BY <4>3, <4>4
        <5> QED BY <5>5, <5>6
      <4>5. CASE n + 1 # m /\ q[n + 1][1] = k
        <5>1. g[n + 1] = g[n] BY <2>12, <4>1, <4>5
        <5>2. ~(n + 1 < m) BY <2>2, <2>12, <4>1, <4>5
        <5> QED BY <4>2, <4>3, <4>5, <5>1, <5>2
      <4>6. CASE n + 1 # m /\ q[n + 1][1] # k
        <5>1. p[n + 1] = q[n + 1] BY <2>7, <2>12, <4>1, <4>6
        <5>2. g[n + 1] = Append(g[n], p[n + 1]) /\ p[n + 1][1] # k BY <2>12, <4>1, <4>6, <5>1
        <5>3. n < m <=> n + 1 < m BY <4>3, <4>6
        <5>4. n >= m <=> n + 1 >= m BY <4>3, <4>6
        <5> QED BY <4>2, <5>2, <5>3, <5>4, GetAppend
      <4> QED BY <4>4, <4>5, <4>6
    <3>3. Nat \subseteq N
      <4> HIDE DEF N
      <4> QED BY <3>1, <3>2, NatSetInduction
    <3>4. Len(q) \in N /\ Len(q) >= m BY <2>2, <2>7, <3>3
    <3> QED BY <2>7, <3>4
  <2>17. ASSUME NEW l, l # k PROVE Query!GetParam(g[Len(q)], l) = Query!GetParam(q, l)
    <3> DEFINE Before(n) == \A j \in 1..Len(q) : j <= n => q[j][1] # l
               N == {n \in Nat : n <= Len(q) =>
                      /\ Before(n) => NoneWith(g[n], l)
                      /\ ~Before(n) => ~NoneWith(g[n], l) /\ Query!GetParam(g[n], l) = Query!GetParam(q, l)}
    <3>1. 0 \in N
      <4>1. Before(0) BY <2>7
      <4> QED BY <2>13, <2>14, <4>1
    <3>2. ASSUME NEW n \in Nat, n \in N PROVE n + 1 \in N
      <4>1. SUFFICES ASSUME n + 1 <= Len(q)
                     PROVE  /\ Before(n + 1) => NoneWith(g[n + 1], l)
                            /\ ~Before(n + 1) => ~NoneWith(g[n + 1], l) /\ Query!GetParam(g[n + 1], l) = Query!GetParam(q, l)
        OBVIOUS
      <4>2. /\ g[n] \in Seq(T) /\ p[n + 1] \in T
            /\ Before(n) => NoneWith(g[n], l)
            /\ ~Before(n) => ~NoneWith(g[n], l) /\ Query!GetParam(g[n], l) = Query!GetParam(q, l)
        BY <2>11, <2>12, <3>2, <4>1
      <4>3. Before(n + 1) <=> Before(n) /\ q[n + 1][1] # l
        <5>1. \A j \in 1..Len(q) : j <= n + 1 <=> j <= n \/ j = n + 1 BY <2>7
        <5> QED BY <2>12, <4>1, <5>1
      <4>4. CASE n + 1 = m
        <5>1. g[n + 1] = Append(g[n], x) /\ q[n + 1][1] # l BY <2>2, <2>7, <2>12, <2>17, <4>1, <4>4
        <5>2. x[1] # l BY <1>3, <2>17
        <5> HIDE DEF Before
        <5> QED BY <1>3, <4>2, <4>3, <5>1, <5>2, GetAppend
      <4>5. CASE n + 1 # m /\ q[n + 1][1] = k
        <5>1. g[n + 1] = g[n] /\ q[n + 1][1] # l BY <2>12, <2>17, <4>1, <4>5
        <5> HIDE DEF Before
        <5> QED BY <4>2, <4>3, <5>1
      <4>6. CASE n + 1 # m /\ q[n + 1][1] # k
        <5>1. p[n + 1] = q[n + 1] BY <2>7, <2>12, <4>1, <4>6
        <5>2. g[n + 1] = Append(g[n], p[n + 1]) BY <2>12, <4>1, <4>6, <5>1
        <5>3. CASE q[n + 1][1] = l /\ Before(n)
          <6>1. \A j \in 1..Len(q) : j < n + 1 => j <= n BY <2>7
          <6>2. FirstWith(q, l, n + 1) BY <2>12, <4>1, <5>3, <6>1 DEF FirstWith
          <6>3. Query!GetParam(q, l) = q[n + 1][2] BY <6>2, GetFirst
          <6> HIDE DEF Before
          <6> QED BY <4>2, <4>3, <5>1, <5>2, <5>3, <6>3, GetAppend
        <5>4. CASE q[n + 1][1] # l \/ ~Before(n)
          <6> HIDE DEF Before
          <6> QED BY <4>2, <4>3, <5>1, <5>2, <5>4, GetAppend
        <5> QED BY <5>3, <5>4
      <4> QED BY <4>4, <4>5, <4>6
    <3>3. Nat \subseteq N
      <4> HIDE DEF N
      <4> QED BY <3>1, <3>2, NatSetInduction
    <3>4. CASE NoneWith(q, l)
      <4>1. Before(Len(q)) BY <3>4 DEF NoneWith
      <4>2. NoneWith(g[Len(q)], l) BY <2>7, <3>3, <4>1
      <4>3. g[Len(q)] \in Seq(T) BY <2>7, <2>11
      <4> QED BY <3>4, <4>2, <4>3, GetNone
    <3>5. CASE ~NoneWith(q, l)
      <4>1. ~Before(Len(q)) BY <2>7, <3>5 DEF NoneWith
      <4> QED BY <2>7, <3>3, <4>1
    <3> QED BY <3>4, <3>5
  <2>18. IsSeq(g[Len(q)])
    <3>1. g[Len(q)] \in Seq(T) BY <2>7, <2>11
    <3> QED BY <3>1 DEF IsSeq
  <2> QED BY <2>6, <2>9, <2>10, <2>15, <2>16, <2>17, <2>18
<1> QED BY <1>5, <1>6

-----------------------------------------------------------------------------
\* What appending leaves.
LEMMA AppendReads ==
    ASSUME NEW q, IsSeq(q), NEW k, NEW v
    PROVE  /\ IsSeq(Query!AppendParam(q, k, v))
           /\ k \notin Query!Parameter /\ v # <<"rpc">>
                => Query!Reads(Query!AppendParam(q, k, v)) = [Query!Reads(q) EXCEPT !.filters = Append(@, <<k, v>>)]
           /\ k \notin Query!Parameter /\ v = <<"rpc">>
                => Query!Reads(Query!AppendParam(q, k, v)) = Query!Reads(q)
<1>1. PICK S : q \in Seq(S) BY DEF IsSeq
<1>2. PICK x : x = <<k, v>> OBVIOUS
<1>3. PICK T : T = S \cup {x} OBVIOUS
<1>4. q \in Seq(T) /\ x \in T /\ x[1] = k /\ x[2] = v BY <1>1, <1>2, <1>3
<1>5. PICK r : r = Query!AppendParam(q, k, v) OBVIOUS
<1>6. r = Append(q, x) BY <1>2, <1>5 DEF Query!AppendParam
<1>7. IsSeq(r)
  <2>1. r \in Seq(T) BY <1>4, <1>6
  <2> QED BY <2>1 DEF IsSeq
<1>8. \A l : l # k => Query!GetParam(r, l) = Query!GetParam(q, l)
  <2> SUFFICES ASSUME NEW l, l # k PROVE Query!GetParam(r, l) = Query!GetParam(q, l) OBVIOUS
  <2>1. CASE NoneWith(q, l) BY <1>4, <1>6, <2>1, GetAppend, GetNone
  <2>2. CASE ~NoneWith(q, l) BY <1>4, <1>6, <2>2, GetAppend
  <2> QED BY <2>1, <2>2
<1>9. k \notin Query!Parameter =>
        /\ Query!GetParam(r, "order") = Query!GetParam(q, "order")
        /\ Query!GetParam(r, "limit") = Query!GetParam(q, "limit")
        /\ Query!GetParam(r, "offset") = Query!GetParam(q, "offset")
  BY <1>8 DEF Query!Parameter
<1>10. /\ IsFilter(x) => Filters(r) = Append(Filters(q), x)
       /\ ~IsFilter(x) => Filters(r) = Filters(q)
  BY <1>4, <1>6, FiltersAppend
<1>11. IsFilter(x) <=> k \notin Query!Parameter /\ v # <<"rpc">> BY <1>4 DEF IsFilter
<1>12. \A p : Query!Reads(p) = [filters |-> Filters(p), order |-> Query!GetParam(p, "order"),
                               limit |-> Query!GetParam(p, "limit"), offset |-> Query!GetParam(p, "offset")]
  BY DEF Query!Reads, Filters, FilterAt
<1>13. ASSUME k \notin Query!Parameter, v # <<"rpc">>
       PROVE  Query!Reads(r) = [Query!Reads(q) EXCEPT !.filters = Append(@, <<k, v>>)]
  <2>1. Filters(r) = Append(Filters(q), x) BY <1>10, <1>11, <1>13
  <2> QED BY <1>2, <1>9, <1>12, <1>13, <2>1
<1>14. ASSUME k \notin Query!Parameter, v = <<"rpc">>
       PROVE  Query!Reads(r) = Query!Reads(q)
  <2>1. Filters(r) = Filters(q) BY <1>10, <1>11, <1>14
  <2> QED BY <1>9, <1>12, <1>14, <2>1
<1> QED BY <1>5, <1>7, <1>13, <1>14

\* What setting leaves: the key is read as the value, and nothing else is read otherwise.
LEMMA SetReads ==
    ASSUME NEW q, IsSeq(q), NEW k \in Query!Parameter, NEW v
    PROVE  /\ IsSeq(Query!SetParam(q, k, v))
           /\ Query!Reads(Query!SetParam(q, k, v)) =
                [filters |-> Query!Reads(q).filters,
                 order |-> IF k = "order" THEN v ELSE Query!Reads(q).order,
                 limit |-> IF k = "limit" THEN v ELSE Query!Reads(q).limit,
                 offset |-> IF k = "offset" THEN v ELSE Query!Reads(q).offset]
<1>1. PICK S : q \in Seq(S) BY DEF IsSeq
<1>2. PICK r : r = Query!SetParam(q, k, v) OBVIOUS
<1>3. IsSeq(r) /\ Filters(r) = Filters(q) /\ Query!GetParam(r, k) = v BY <1>1, <1>2, SetParamSets
<1>4. \A l : l # k => Query!GetParam(r, l) = Query!GetParam(q, l) BY <1>1, <1>2, SetParamSets
<1>5. \A l : Query!GetParam(r, l) = IF k = l THEN v ELSE Query!GetParam(q, l) BY <1>3, <1>4
<1>6. \A p : Query!Reads(p) = [filters |-> Filters(p), order |-> Query!GetParam(p, "order"),
                              limit |-> Query!GetParam(p, "limit"), offset |-> Query!GetParam(p, "offset")]
  BY DEF Query!Reads, Filters, FilterAt
<1> QED BY <1>2, <1>3, <1>5, <1>6

\* Several pairs set, none of which is read.
Unread == {"select", "columns", "on_conflict"}
SetsUpTo(q, added, n, f) ==
    f = [i \in 0..n |-> IF i = 0 THEN q ELSE Query!SetParam(f[i - 1], added[i][1], added[i][2])]

\* There is such a function for each number of pairs.
LEMMA SetUpTo ==
    ASSUME NEW q, NEW added
    PROVE  \A n \in Nat : \E f : SetsUpTo(q, added, n, f)
<1> DEFINE Nxt(f, i) == IF i = 0 THEN q ELSE Query!SetParam(f[i - 1], added[i][1], added[i][2])
           N == {n \in Nat : \E f : SetsUpTo(q, added, n, f)}
<1>1. 0 \in N
  <2>1. PICK f : f = [i \in 0..0 |-> q] OBVIOUS
  <2>2. f = [i \in 0..0 |-> Nxt(f, i)] BY <2>1
  <2>3. SetsUpTo(q, added, 0, f) BY <2>2 DEF SetsUpTo
  <2> QED BY <2>3
<1>2. ASSUME NEW n \in Nat, n \in N PROVE n + 1 \in N
  <2>1. PICK f : SetsUpTo(q, added, n, f) BY <1>2
  <2>2. \A i \in 0..n : f[i] = Nxt(f, i) BY <2>1, Zenon DEF SetsUpTo
  <2>3. PICK g : g = [i \in 0..(n + 1) |-> IF i = n + 1 THEN Nxt(f, i) ELSE f[i]] OBVIOUS
  <2>4. \A i \in 0..n : g[i] = f[i] BY <2>3
  <2>5. ASSUME NEW i \in 0..(n + 1) PROVE g[i] = Nxt(g, i)
    <3>1. CASE i = n + 1
      <4>1. g[i] = Nxt(f, i) BY <2>3, <3>1
      <4>2. i - 1 = n /\ i # 0 BY <3>1
      <4>3. g[i - 1] = f[i - 1] BY <2>4, <4>2
      <4> QED BY <4>1, <4>2, <4>3
    <3>2. CASE i \in 0..n
      <4>1. g[i] = Nxt(f, i) BY <2>2, <2>4, <3>2
      <4>2. i # 0 => g[i - 1] = f[i - 1] BY <2>4, <3>2
      <4> QED BY <4>1, <4>2
    <3> QED BY <3>1, <3>2
  <2>6. g = [i \in 0..(n + 1) |-> Nxt(g, i)]
    <3> HIDE DEF Nxt
    <3> QED BY <2>3, <2>5
  <2>7. SetsUpTo(q, added, n + 1, g) BY <2>6 DEF SetsUpTo
  <2> QED BY <2>7
<1>3. Nat \subseteq N
  <2> HIDE DEF N
  <2> QED BY <1>1, <1>2, NatSetInduction
<1> QED BY <1>3

\* What is set so is not read.
LEMMA SetParamsReads ==
    ASSUME NEW q, IsSeq(q), NEW added, IsSeq(added), \A i \in 1..Len(added) : added[i][1] \in Unread
    PROVE  IsSeq(Query!SetParams(q, added)) /\ Query!Reads(Query!SetParams(q, added)) = Query!Reads(q)
<1>1. Len(added) \in Nat BY DEF IsSeq
<1> DEFINE F == CHOOSE f : SetsUpTo(q, added, Len(added), f)
<1>2. Query!SetParams(q, added) = F[Len(added)] BY DEF Query!SetParams, SetsUpTo
<1>3. SetsUpTo(q, added, Len(added), F) BY <1>1, SetUpTo
<1> HIDE DEF F
<1>4. \A i \in 0..Len(added) : F[i] = IF i = 0 THEN q ELSE Query!SetParam(F[i - 1], added[i][1], added[i][2])
  BY <1>3, Zenon DEF SetsUpTo
<1> DEFINE N == {n \in Nat : n <= Len(added) => IsSeq(F[n]) /\ Query!Reads(F[n]) = Query!Reads(q)}
<1>5. 0 \in N
  <2>1. F[0] = q BY <1>1, <1>4
  <2> QED BY <2>1
<1>6. ASSUME NEW n \in Nat, n \in N PROVE n + 1 \in N
  <2>1. SUFFICES ASSUME n + 1 <= Len(added) PROVE IsSeq(F[n + 1]) /\ Query!Reads(F[n + 1]) = Query!Reads(q)
    OBVIOUS
  <2>2. n + 1 \in 1..Len(added) /\ n + 1 \in 0..Len(added) /\ n + 1 # 0 /\ n + 1 - 1 = n /\ n <= Len(added)
    BY <1>1, <2>1
  <2>3. IsSeq(F[n]) /\ Query!Reads(F[n]) = Query!Reads(q) BY <1>6, <2>2
  <2>4. PICK k, v : k = added[n + 1][1] /\ v = added[n + 1][2] OBVIOUS
  <2>5. F[n + 1] = Query!SetParam(F[n], k, v) BY <1>4, <2>2, <2>4
  <2>6. k \in Query!Parameter /\ k \notin {"order", "limit", "offset"} BY <2>2, <2>4 DEF Unread, Query!Parameter
  <2>7. Query!Reads(F[n + 1]) =
          [filters |-> Query!Reads(F[n]).filters, order |-> Query!Reads(F[n]).order,
           limit |-> Query!Reads(F[n]).limit, offset |-> Query!Reads(F[n]).offset]
    BY <2>3, <2>5, <2>6, SetReads
  <2>8. IsSeq(F[n + 1]) BY <2>3, <2>5, <2>6, SetReads
  <2>9. Query!Reads(F[n]) =
          [filters |-> Query!Reads(F[n]).filters, order |-> Query!Reads(F[n]).order,
           limit |-> Query!Reads(F[n]).limit, offset |-> Query!Reads(F[n]).offset]
    BY DEF Query!Reads
  <2> QED BY <2>3, <2>7, <2>8, <2>9
<1>7. Nat \subseteq N
  <2> HIDE DEF N
  <2> QED BY <1>5, <1>6, NatSetInduction
<1>8. Len(added) <= Len(added) BY <1>1
<1> QED BY <1>1, <1>2, <1>7, <1>8

-----------------------------------------------------------------------------
\* The calls of a method, and those that page.
Of(asked, called) == Query!Picked(asked, Query!With(asked, called))
Paging(asked) == Query!Picked(asked, Query!With(asked, "limit") \cup Query!With(asked, "range"))

\* Means, in their terms.
LEMMA MeansIs ==
    ASSUME NEW asked
    PROVE  Query!Means(asked) =
             [filters |-> [i \in DOMAIN Of(asked, "filter") |-> <<Of(asked, "filter")[i][2], <<Of(asked, "filter")[i][3]>>>>],
              order |-> [i \in DOMAIN Of(asked, "order") |-> Of(asked, "order")[i][2]],
              limit |-> IF Paging(asked) = <<>> THEN <<>>
                        ELSE IF Query!Last(Paging(asked))[1] = "limit" THEN <<Query!Last(Paging(asked))[2]>>
                        ELSE <<Query!Last(Paging(asked))[3] - Query!Last(Paging(asked))[2] + 1>>,
              offset |-> IF Of(asked, "range") = <<>> THEN <<>> ELSE <<Query!Last(Of(asked, "range"))[2]>>]
BY DEF Query!Means, Of, Paging

\* The calls after one more.
LEMMA OfAppend ==
    ASSUME NEW S, NEW asked \in Seq(S), NEW call \in S, NEW k
    PROVE  /\ Of(asked, k) \in Seq(S)
           /\ call[1] = k => Of(Append(asked, call), k) = Append(Of(asked, k), call)
           /\ call[1] # k => Of(Append(asked, call), k) = Of(asked, k)
<1>1. PICK I, J : I = Query!With(asked, k) /\ J = Query!With(Append(asked, call), k) OBVIOUS
<1>2. \A i \in 1..Len(asked) : i \in J <=> i \in I BY <1>1, WithAppend
<1>3. Len(asked) + 1 \in J <=> call[1] = k BY <1>1, WithAppend
<1>4. /\ Query!Picked(asked, I) \in Seq(S)
      /\ Len(asked) + 1 \in J => Query!Picked(Append(asked, call), J) = Append(Query!Picked(asked, I), call)
      /\ Len(asked) + 1 \notin J => Query!Picked(Append(asked, call), J) = Query!Picked(asked, I)
  BY <1>2, PickedAppend
<1> QED BY <1>1, <1>3, <1>4 DEF Of

LEMMA PagingAppend ==
    ASSUME NEW S, NEW asked \in Seq(S), NEW call \in S
    PROVE  /\ Paging(asked) \in Seq(S)
           /\ call[1] \in {"limit", "range"} => Paging(Append(asked, call)) = Append(Paging(asked), call)
           /\ call[1] \notin {"limit", "range"} => Paging(Append(asked, call)) = Paging(asked)
<1>1. PICK I, J : /\ I = Query!With(asked, "limit") \cup Query!With(asked, "range")
                  /\ J = Query!With(Append(asked, call), "limit") \cup Query!With(Append(asked, call), "range")
  OBVIOUS
<1>2. \A i \in 1..Len(asked) : i \in J <=> i \in I BY <1>1, WithAppend
<1>3. Len(asked) + 1 \in J <=> call[1] \in {"limit", "range"} BY <1>1, WithAppend
<1>4. /\ Query!Picked(asked, I) \in Seq(S)
      /\ Len(asked) + 1 \in J => Query!Picked(Append(asked, call), J) = Append(Query!Picked(asked, I), call)
      /\ Len(asked) + 1 \notin J => Query!Picked(Append(asked, call), J) = Query!Picked(asked, I)
  BY <1>2, PickedAppend
<1>5. Paging(asked) = Query!Picked(asked, I) /\ Paging(Append(asked, call)) = Query!Picked(Append(asked, call), J)
  BY <1>1 DEF Paging
<1> QED BY <1>3, <1>4, <1>5

\* The last member is the one appended.
LEMMA LastAppend ==
    ASSUME NEW S, NEW q \in Seq(S), NEW x
    PROVE  Append(q, x) # <<>> /\ Query!Last(Append(q, x)) = x
<1>1. q \in Seq(S \cup {x}) OBVIOUS
<1>2. Len(Append(q, x)) = Len(q) + 1 /\ Append(q, x)[Len(q) + 1] = x BY <1>1
<1>3. Len(Append(q, x)) # 0 BY <1>1, <1>2
<1> QED BY <1>2, <1>3 DEF Query!Last

\* What a call adds to what is asked for.
Asks(asked, call) ==
    [filters |-> IF call[1] = "filter" THEN Append(Query!Means(asked).filters, <<call[2], <<call[3]>>>>)
                 ELSE Query!Means(asked).filters,
     order |-> IF call[1] = "order" THEN Append(Query!Means(asked).order, call[2]) ELSE Query!Means(asked).order,
     limit |-> IF call[1] = "limit" THEN <<call[2]>>
               ELSE IF call[1] = "range" THEN <<call[3] - call[2] + 1>>
               ELSE Query!Means(asked).limit,
     offset |-> IF call[1] = "range" THEN <<call[2]>> ELSE Query!Means(asked).offset]

\* A call adds that, and nothing else.
LEMMA MeansAppend ==
    ASSUME NEW asked, IsSeq(asked), NEW call
    PROVE  Query!Means(Append(asked, call)) = Asks(asked, call)
<1>1. PICK S : asked \in Seq(S) BY DEF IsSeq
<1>2. PICK T : T = S \cup {call} OBVIOUS
<1>3. asked \in Seq(T) /\ call \in T BY <1>1, <1>2
<1>4. PICK more : more = Append(asked, call) OBVIOUS
<1>5. \A k : /\ Of(asked, k) \in Seq(T)
             /\ call[1] = k => Of(more, k) = Append(Of(asked, k), call)
             /\ call[1] # k => Of(more, k) = Of(asked, k)
  BY <1>3, <1>4, OfAppend
<1>6. /\ Paging(asked) \in Seq(T)
      /\ call[1] \in {"limit", "range"} => Paging(more) = Append(Paging(asked), call)
      /\ call[1] \notin {"limit", "range"} => Paging(more) = Paging(asked)
  BY <1>3, <1>4, PagingAppend
<1>7. Query!Means(more).filters = Asks(asked, call).filters
  <2>1. PICK o, p : o = Of(asked, "filter") /\ p = Of(more, "filter") OBVIOUS
  <2>2. /\ Query!Means(asked).filters = [i \in DOMAIN o |-> <<o[i][2], <<o[i][3]>>>>]
        /\ Query!Means(more).filters = [i \in DOMAIN p |-> <<p[i][2], <<p[i][3]>>>>]
    BY <2>1, MeansIs
  <2>3. CASE call[1] = "filter"
    <3>1. o \in Seq(T) /\ p = Append(o, call) BY <1>5, <2>1, <2>3
    <3>2. PICK h : h = [i \in DOMAIN o |-> <<o[i][2], <<o[i][3]>>>>] OBVIOUS
    <3>3. [i \in DOMAIN p |-> <<p[i][2], <<p[i][3]>>>>] = Append(h, <<call[2], <<call[3]>>>>)
      <4>1. PICK y : y = <<call[2], <<call[3]>>>> OBVIOUS
      <4>2. PICK V : V = {<<o[i][2], <<o[i][3]>>>> : i \in 1..Len(o)} \cup {y} OBVIOUS
      <4>3. DOMAIN o = 1..Len(o) /\ Len(o) \in Nat BY <3>1
      <4>4. h \in Seq(V) /\ Len(h) = Len(o) /\ y \in V BY <3>2, <4>2, <4>3
      <4>5. PICK a : a = Append(h, y) OBVIOUS
      <4>6. a \in Seq(V) /\ Len(a) = Len(o) + 1 /\ a[Len(o) + 1] = y /\ \A i \in 1..Len(o) : a[i] = h[i]
        BY <4>4, <4>5
      <4>7. p \in Seq(T) /\ Len(p) = Len(o) + 1 /\ p[Len(o) + 1] = call /\ \A i \in 1..Len(o) : p[i] = o[i]
        BY <1>3, <3>1
      <4>8. DOMAIN p = 1..(Len(o) + 1) /\ DOMAIN a = 1..(Len(o) + 1) BY <4>3, <4>6, <4>7
      <4>9. ASSUME NEW i \in 1..(Len(o) + 1) PROVE a[i] = <<p[i][2], <<p[i][3]>>>>
        <5>1. CASE i = Len(o) + 1 BY <4>1, <4>6, <4>7, <5>1
        <5>2. CASE i \in 1..Len(o)
          <6>1. a[i] = <<o[i][2], <<o[i][3]>>>> BY <3>2, <4>3, <4>6, <5>2
          <6> QED BY <4>7, <5>2, <6>1
        <5> QED BY <4>3, <5>1, <5>2
      <4>10. a = [i \in DOMAIN p |-> <<p[i][2], <<p[i][3]>>>>]
        <5>1. a = [i \in DOMAIN a |-> a[i]] BY <4>6
        <5> QED BY <4>8, <4>9, <5>1
      <4> QED BY <4>1, <4>5, <4>10
    <3> QED BY <2>2, <2>3, <3>2, <3>3 DEF Asks
  <2>4. CASE call[1] # "filter"
    <3>1. p = o BY <1>5, <2>1, <2>4
    <3> QED BY <2>2, <2>4, <3>1 DEF Asks
  <2> QED BY <2>3, <2>4
<1>8. Query!Means(more).order = Asks(asked, call).order
  <2>1. PICK o, p : o = Of(asked, "order") /\ p = Of(more, "order") OBVIOUS
  <2>2. /\ Query!Means(asked).order = [i \in DOMAIN o |-> o[i][2]]
        /\ Query!Means(more).order = [i \in DOMAIN p |-> p[i][2]]
    BY <2>1, MeansIs
  <2>3. CASE call[1] = "order"
    <3>1. o \in Seq(T) /\ p = Append(o, call) BY <1>5, <2>1, <2>3
    <3>2. PICK h : h = [i \in DOMAIN o |-> o[i][2]] OBVIOUS
    <3>3. [i \in DOMAIN p |-> p[i][2]] = Append(h, call[2])
      <4>1. PICK y : y = call[2] OBVIOUS
      <4>2. PICK V : V = {o[i][2] : i \in 1..Len(o)} \cup {y} OBVIOUS
      <4>3. DOMAIN o = 1..Len(o) /\ Len(o) \in Nat BY <3>1
      <4>4. h \in Seq(V) /\ Len(h) = Len(o) /\ y \in V BY <3>2, <4>2, <4>3
      <4>5. PICK a : a = Append(h, y) OBVIOUS
      <4>6. a \in Seq(V) /\ Len(a) = Len(o) + 1 /\ a[Len(o) + 1] = y /\ \A i \in 1..Len(o) : a[i] = h[i]
        BY <4>4, <4>5
      <4>7. p \in Seq(T) /\ Len(p) = Len(o) + 1 /\ p[Len(o) + 1] = call /\ \A i \in 1..Len(o) : p[i] = o[i]
        BY <1>3, <3>1
      <4>8. DOMAIN p = 1..(Len(o) + 1) /\ DOMAIN a = 1..(Len(o) + 1) BY <4>3, <4>6, <4>7
      <4>9. ASSUME NEW i \in 1..(Len(o) + 1) PROVE a[i] = p[i][2]
        <5>1. CASE i = Len(o) + 1 BY <4>1, <4>6, <4>7, <5>1
        <5>2. CASE i \in 1..Len(o)
          <6>1. a[i] = o[i][2] BY <3>2, <4>3, <4>6, <5>2
          <6> QED BY <4>7, <5>2, <6>1
        <5> QED BY <4>3, <5>1, <5>2
      <4>10. a = [i \in DOMAIN p |-> p[i][2]]
        <5>1. a = [i \in DOMAIN a |-> a[i]] BY <4>6
        <5> QED BY <4>8, <4>9, <5>1
      <4> QED BY <4>1, <4>5, <4>10
    <3> QED BY <2>2, <2>3, <3>2, <3>3 DEF Asks
  <2>4. CASE call[1] # "order"
    <3>1. p = o BY <1>5, <2>1, <2>4
    <3> QED BY <2>2, <2>4, <3>1 DEF Asks
  <2> QED BY <2>3, <2>4
<1>9. Query!Means(more).limit = Asks(asked, call).limit
  <2>1. PICK o, p : o = Paging(asked) /\ p = Paging(more) OBVIOUS
  <2>2. /\ Query!Means(asked).limit = IF o = <<>> THEN <<>>
                                      ELSE IF Query!Last(o)[1] = "limit" THEN <<Query!Last(o)[2]>>
                                      ELSE <<Query!Last(o)[3] - Query!Last(o)[2] + 1>>
        /\ Query!Means(more).limit = IF p = <<>> THEN <<>>
                                     ELSE IF Query!Last(p)[1] = "limit" THEN <<Query!Last(p)[2]>>
                                     ELSE <<Query!Last(p)[3] - Query!Last(p)[2] + 1>>
    BY <2>1, MeansIs
  <2>3. CASE call[1] \in {"limit", "range"}
    <3>1. o \in Seq(T) /\ p = Append(o, call) BY <1>6, <2>1, <2>3
    <3>2. p # <<>> /\ Query!Last(p) = call BY <3>1, LastAppend
    <3> QED BY <2>2, <2>3, <3>2 DEF Asks
  <2>4. CASE call[1] \notin {"limit", "range"}
    <3>1. p = o BY <1>6, <2>1, <2>4
    <3> QED BY <2>2, <2>4, <3>1 DEF Asks
  <2> QED BY <2>3, <2>4
<1>10. Query!Means(more).offset = Asks(asked, call).offset
  <2>1. PICK o, p : o = Of(asked, "range") /\ p = Of(more, "range") OBVIOUS
  <2>2. /\ Query!Means(asked).offset = IF o = <<>> THEN <<>> ELSE <<Query!Last(o)[2]>>
        /\ Query!Means(more).offset = IF p = <<>> THEN <<>> ELSE <<Query!Last(p)[2]>>
    BY <2>1, MeansIs
  <2>3. CASE call[1] = "range"
    <3>1. o \in Seq(T) /\ p = Append(o, call) BY <1>5, <2>1, <2>3
    <3>2. p # <<>> /\ Query!Last(p) = call BY <3>1, LastAppend
    <3> QED BY <2>2, <2>3, <3>2 DEF Asks
  <2>4. CASE call[1] # "range"
    <3>1. p = o BY <1>5, <2>1, <2>4
    <3> QED BY <2>2, <2>4, <3>1 DEF Asks
  <2> QED BY <2>3, <2>4
<1>11. Query!Means(more) = [filters |-> Query!Means(more).filters, order |-> Query!Means(more).order,
                            limit |-> Query!Means(more).limit, offset |-> Query!Means(more).offset]
  BY MeansIs
<1>12. Asks(asked, call) = [filters |-> Asks(asked, call).filters, order |-> Asks(asked, call).order,
                            limit |-> Asks(asked, call).limit, offset |-> Asks(asked, call).offset]
  BY DEF Asks
<1> QED BY <1>4, <1>7, <1>8, <1>9, <1>10, <1>11, <1>12

-----------------------------------------------------------------------------
\* A chain asks for what its calls say as long as it is alone on its source.  A source that no chain
\* has yet has no parameters, and a chain without a source no calls.
Alone(c) == \A d \in Chain \ {c} : from[d] # from[c]

ChainInv ==
    /\ QueryInv
    /\ DOMAIN params = Source /\ \A s \in Source : IsSeq(params[s])
    /\ \A c \in Chain : from[c] = Query!Unset => calls[c] = <<>>
    /\ \A c \in Chain : request[c] # Query!Nothing => from[c] \in Source
    /\ \A s \in Source : (\A c \in Chain : from[c] # s) => params[s] = <<>>
    /\ \A c \in Chain : from[c] # Query!Unset /\ Alone(c) /\ Query!PlainColumns(calls[c])
                          => Query!Reads(params[from[c]]) = Query!Means(calls[c])

\* No calls ask for what no parameters are read as.
LEMMA NothingAsked == Query!Reads(<<>>) = Query!Means(<<>>)
<1>1. PICK e : e = <<>> OBVIOUS
<1>2. e \in Seq({}) /\ Len(e) = 0 BY <1>1
<1>3. \A I : Query!Picked(e, I) = <<>>
  <2> SUFFICES ASSUME NEW I PROVE Query!Picked(e, I) = <<>> OBVIOUS
  <2>1. PICK f : Picking(e, I, f) /\ Query!Picked(e, I) = f[Len(e)] BY <1>2, PickedPicks
  <2> QED BY <1>2, <2>1 DEF Picking
<1>4. \A k : Query!GetParam(e, k) = <<>>
  <2> SUFFICES ASSUME NEW k PROVE Query!GetParam(e, k) = <<>> OBVIOUS
  <2>1. NoneWith(e, k) BY <1>2 DEF NoneWith
  <2> QED BY <1>2, <2>1, GetNone
<1>5. \A k : Of(e, k) = <<>> BY <1>3 DEF Of
<1>6. Paging(e) = <<>> BY <1>3 DEF Paging
<1>7. Query!Means(e) = [filters |-> <<>>, order |-> <<>>, limit |-> <<>>, offset |-> <<>>]
  <2>1. PICK o : o = Of(e, "filter") OBVIOUS
  <2>2. PICK p : p = Of(e, "order") OBVIOUS
  <2>3. [i \in DOMAIN o |-> <<o[i][2], <<o[i][3]>>>>] = <<>> BY <1>5, <2>1
  <2>4. [i \in DOMAIN p |-> p[i][2]] = <<>> BY <1>5, <2>2
  <2> QED BY <1>5, <1>6, <2>1, <2>2, <2>3, <2>4, MeansIs
<1>8. Query!Reads(e) = [filters |-> <<>>, order |-> <<>>, limit |-> <<>>, offset |-> <<>>]
  BY <1>3, <1>4 DEF Query!Reads
<1> QED BY <1>1, <1>7, <1>8

\* The calls before a call are plain if those with it are, and then so is the call.
LEMMA PlainAppend ==
    ASSUME NEW asked, IsSeq(asked), NEW call, Query!PlainColumns(Append(asked, call))
    PROVE  Query!PlainColumns(asked) /\ (call[1] \in {"filter", "rpc"} => call[2] \notin Query!Parameter)
<1>1. PICK S : asked \in Seq(S) BY DEF IsSeq
<1>2. PICK T : T = S \cup {call} OBVIOUS
<1>3. PICK more : more = Append(asked, call) OBVIOUS
<1>4. asked \in Seq(T) /\ call \in T BY <1>1, <1>2
<1>5. /\ DOMAIN asked = 1..Len(asked) /\ DOMAIN more = 1..(Len(asked) + 1) /\ Len(asked) \in Nat
      /\ more[Len(asked) + 1] = call /\ \A i \in 1..Len(asked) : more[i] = asked[i]
  BY <1>3, <1>4
<1>6. \A i \in DOMAIN more : more[i][1] \in {"filter", "rpc"} => more[i][2] \notin Query!Parameter
  BY <1>3 DEF Query!PlainColumns
<1>7. Len(asked) + 1 \in DOMAIN more /\ \A i \in DOMAIN asked : i \in DOMAIN more BY <1>5
<1>8. Query!PlainColumns(asked) BY <1>5, <1>6, <1>7 DEF Query!PlainColumns
<1> QED BY <1>5, <1>6, <1>7, <1>8

\* A call of a chain that edits the parameters of its source as it says.
LEMMA ChainStep ==
    ASSUME ChainInv, QueryInv', Query!Unset \notin Source,
           NEW c \in Chain, NEW s \in Source, from[c] \in {Query!Unset, s}, from' = [from EXCEPT ![c] = s],
           NEW b, request' = [request EXCEPT ![c] = b],
           NEW pairs, IsSeq(pairs), params' = [params EXCEPT ![s] = pairs],
           NEW call, calls' = [calls EXCEPT ![c] = Append(@, call)],
           Query!Reads(params[s]) = Query!Means(calls[c]) /\ Query!PlainColumns(Append(calls[c], call))
              => Query!Reads(pairs) = Query!Means(Append(calls[c], call))
    PROVE  ChainInv'
<1>1. /\ from \in [Chain -> Source \cup {Query!Unset}]
      /\ DOMAIN calls = Chain /\ \A d \in Chain : IsSeq(calls[d])
      /\ DOMAIN request = Chain
  BY Zenon DEF ChainInv, QueryInv
<1>2. /\ DOMAIN params = Source /\ \A r \in Source : IsSeq(params[r])
      /\ \A d \in Chain : from[d] = Query!Unset => calls[d] = <<>>
      /\ \A d \in Chain : request[d] # Query!Nothing => from[d] \in Source
      /\ \A r \in Source : (\A d \in Chain : from[d] # r) => params[r] = <<>>
      /\ \A d \in Chain : from[d] # Query!Unset /\ Alone(d) /\ Query!PlainColumns(calls[d])
                            => Query!Reads(params[from[d]]) = Query!Means(calls[d])
  BY DEF ChainInv
<1>3. PICK from1, calls1, params1, request1 :
        from1 = from' /\ calls1 = calls' /\ params1 = params' /\ request1 = request'
  OBVIOUS
<1>4. /\ from1[c] = s /\ calls1[c] = Append(calls[c], call) /\ params1[s] = pairs
      /\ \A d \in Chain : d # c => from1[d] = from[d] /\ calls1[d] = calls[d] /\ request1[d] = request[d]
      /\ DOMAIN params1 = Source /\ \A r \in Source : r # s => params1[r] = params[r]
  BY <1>1, <1>2, <1>3
<1>5. ASSUME NEW d \in Chain, from1[d] # Query!Unset, \A e \in Chain \ {d} : from1[e] # from1[d],
             Query!PlainColumns(calls1[d])
      PROVE  Query!Reads(params1[from1[d]]) = Query!Means(calls1[d])
  <2>1. CASE d = c
    <3>1. from1[d] = s /\ calls1[d] = Append(calls[c], call) BY <1>4, <2>1
    <3>2. Query!Reads(params[s]) = Query!Means(calls[c])
      <4>1. IsSeq(calls[c]) /\ Query!PlainColumns(Append(calls[c], call)) BY <1>1, <1>5, <3>1
      <4>2. Query!PlainColumns(calls[c]) BY <4>1, PlainAppend
      <4>3. CASE from[c] = s
        <5>1. \A e \in Chain \ {c} : from[e] # from[c] BY <1>4, <1>5, <2>1, <3>1, <4>3
        <5> QED BY <1>2, <4>2, <4>3, <5>1 DEF Alone
      <4>4. CASE from[c] = Query!Unset
        <5>1. \A e \in Chain : from[e] # s BY <1>4, <1>5, <2>1, <3>1, <4>4
        <5>2. calls[c] = <<>> /\ params[s] = <<>> BY <1>2, <4>4, <5>1
        <5> QED BY <5>2, NothingAsked
      <4> QED BY <4>3, <4>4
    <3> QED BY <1>4, <1>5, <3>1, <3>2
  <2>2. CASE d # c
    <3>1. from1[d] = from[d] /\ from[d] # s /\ calls1[d] = calls[d] BY <1>4, <1>5, <2>2
    <3>2. from[d] \in Source BY <1>1, <1>5, <3>1
    <3>3. params1[from[d]] = params[from[d]] BY <1>4, <3>1, <3>2
    <3>4. \A e \in Chain \ {d} : from[e] # from[d]
      <4> SUFFICES ASSUME NEW e \in Chain \ {d} PROVE from[e] # from[d] OBVIOUS
      <4>1. CASE e = c BY <1>5, <3>1, <4>1
      <4>2. CASE e # c BY <1>4, <1>5, <3>1, <4>2
      <4> QED BY <4>1, <4>2
    <3>5. Alone(d) BY <3>4 DEF Alone
    <3> QED BY <1>2, <1>5, <3>1, <3>3, <3>5
  <2> QED BY <2>1, <2>2
<1>6. \A r \in Source : IsSeq(params1[r]) BY <1>2, <1>4
<1>7. ASSUME NEW d \in Chain PROVE from1[d] = Query!Unset => calls1[d] = <<>> BY <1>2, <1>4
<1>8. ASSUME NEW d \in Chain PROVE request1[d] # Query!Nothing => from1[d] \in Source BY <1>2, <1>4
<1>9. ASSUME NEW r \in Source, \A d \in Chain : from1[d] # r PROVE params1[r] = <<>>
  <2>1. r # s BY <1>4, <1>9
  <2>2. \A d \in Chain : from[d] # r
    <3> SUFFICES ASSUME NEW d \in Chain PROVE from[d] # r OBVIOUS
    <3>1. CASE d = c BY <2>1, <3>1
    <3>2. CASE d # c BY <1>4, <1>9, <3>2
    <3> QED BY <3>1, <3>2
  <2> QED BY <1>2, <1>4, <2>1, <2>2
<1>10. \A d \in Chain : from1[d] # Query!Unset /\ (\A e \in Chain \ {d} : from1[e] # from1[d]) /\ Query!PlainColumns(calls1[d])
          => Query!Reads(params1[from1[d]]) = Query!Means(calls1[d])
  BY <1>5
<1>11. DOMAIN params1 = Source /\ \A r \in Source : (\A d \in Chain : from1[d] # r) => params1[r] = <<>>
  BY <1>4, <1>9
<1>12. \A d \in Chain : /\ from1[d] = Query!Unset => calls1[d] = <<>>
                        /\ request1[d] # Query!Nothing => from1[d] \in Source
  BY <1>7, <1>8
<1> QED
  <2>1. DOMAIN params' = Source /\ \A r \in Source : IsSeq(params'[r]) BY <1>3, <1>6, <1>11
  <2>2. \A d \in Chain : /\ from'[d] = Query!Unset => calls'[d] = <<>>
                         /\ request'[d] # Query!Nothing => from'[d] \in Source
    BY <1>3, <1>12
  <2>3. \A r \in Source : (\A d \in Chain : from'[d] # r) => params'[r] = <<>> BY <1>3, <1>11
  <2>4. \A d \in Chain : from'[d] # Query!Unset /\ Alone(d)' /\ Query!PlainColumns(calls'[d])
                           => Query!Reads(params'[from'[d]]) = Query!Means(calls'[d])
    BY <1>3, <1>10 DEF Alone
  <2> QED BY <2>1, <2>2, <2>3, <2>4 DEF ChainInv

\* A call that neither filters, orders nor pages asks for nothing more.
LEMMA MeansUnchanged ==
    ASSUME NEW asked, IsSeq(asked), NEW call, call[1] \notin {"filter", "order", "limit", "range"}
    PROVE  Query!Means(Append(asked, call)) = Query!Means(asked)
<1>1. Query!Means(Append(asked, call)) = Asks(asked, call) BY MeansAppend
<1>2. Query!Means(asked) = [filters |-> Query!Means(asked).filters, order |-> Query!Means(asked).order,
                            limit |-> Query!Means(asked).limit, offset |-> Query!Means(asked).offset]
  BY MeansIs
<1> QED BY <1>1, <1>2 DEF Asks

\* A method that makes a builder sets parameters that no filter method does.
LEMMA BuildsAsks ==
    ASSUME ChainInv, QueryInv', Query!Unset \notin Source, NEW c \in Chain,
           NEW verb \in {"GET", "HEAD", "POST", "PATCH", "DELETE"}, NEW prefers,
           NEW pairs, IsSeq(pairs), \A i \in 1..Len(pairs) : pairs[i][1] \in Unread,
           Query!Builds(c, verb, prefers, pairs)
    PROVE  ChainInv'
<1>1. /\ from \in [Chain -> Source \cup {Query!Unset}] /\ \A d \in Chain : IsSeq(calls[d])
      /\ \A r \in Source : IsSeq(params[r])
  BY DEF ChainInv, QueryInv
<1>2. PICK s : s = from[c] OBVIOUS
<1>3. s \in Source BY <1>1, <1>2 DEF Query!Builds
<1>4. PICK call : call = <<verb, prefers, pairs>> OBVIOUS
<1>5. calls' = [calls EXCEPT ![c] = Append(@, call)] BY <1>4 DEF Query!Builds, Query!Called
<1>6. PICK more : more = Query!SetParams(params[s], pairs) OBVIOUS
<1>7. params' = [params EXCEPT ![s] = more] BY <1>2, <1>6 DEF Query!Builds
<1>8. PICK b : request' = [request EXCEPT ![c] = b] BY DEF Query!Builds
<1>9. from' = [from EXCEPT ![c] = s] BY <1>1, <1>2 DEF Query!Builds
<1>10. IsSeq(more) /\ Query!Reads(more) = Query!Reads(params[s]) BY <1>1, <1>3, <1>6, SetParamsReads
<1>11. Query!Means(Append(calls[c], call)) = Query!Means(calls[c])
  <2>1. call[1] \notin {"filter", "order", "limit", "range"} BY <1>4
  <2> QED BY <1>1, <2>1, MeansUnchanged
<1> QED BY <1>2, <1>3, <1>5, <1>7, <1>8, <1>9, <1>10, <1>11, ChainStep

\* A method of a filter builder that edits the parameters as it says.
LEMMA EditsAsks ==
    ASSUME ChainInv, QueryInv', Query!Unset \notin Source, NEW c \in Chain,
           UNCHANGED request \/ \E b : request' = [request EXCEPT ![c] = b],
           NEW pairs, IsSeq(pairs), NEW call, Query!Edits(c, pairs, call),
           Query!Reads(params[from[c]]) = Query!Means(calls[c]) /\ Query!PlainColumns(Append(calls[c], call))
              => Query!Reads(pairs) = Query!Means(Append(calls[c], call))
    PROVE  ChainInv'
<1>1. from \in [Chain -> Source \cup {Query!Unset}] BY DEF ChainInv, QueryInv
<1>2. PICK s : s = from[c] OBVIOUS
<1>3. s \in Source BY <1>2 DEF ChainInv, Query!Edits
<1>4. calls' = [calls EXCEPT ![c] = Append(@, call)] BY DEF Query!Edits, Query!Called
<1>5. params' = [params EXCEPT ![s] = pairs] BY <1>2 DEF Query!Edits
<1>6. from' = [from EXCEPT ![c] = s] BY <1>1, <1>2 DEF Query!Edits
<1>7. request = [d \in Chain |-> request[d]] BY Zenon DEF ChainInv, QueryInv
<1>8. PICK b : request' = [request EXCEPT ![c] = b]
  <2>1. CASE UNCHANGED request
    <3>1. request' = [request EXCEPT ![c] = request[c]] BY <1>7, <2>1
    <3> QED BY <3>1
  <2> QED BY <2>1
<1> QED BY <1>2, <1>3, <1>4, <1>5, <1>6, <1>8, ChainStep

\* The parameters that the methods which make builders set.
LEMMA SelectPairs ==
    ASSUME NEW pairs, pairs = <<<<"select", <<"*">>>>>>
    PROVE  IsSeq(pairs) /\ \A i \in 1..Len(pairs) : pairs[i][1] \in Unread
<1>1. PICK x : x = <<"select", <<"*">>>> OBVIOUS
<1>2. pairs = <<x>> /\ x[1] = "select" BY <1>1
<1>3. pairs \in Seq({x}) /\ Len(pairs) = 1 /\ pairs[1] = x BY <1>2
<1>4. \A i \in 1..Len(pairs) : pairs[i] = x BY <1>3
<1>5. "select" \in Unread BY DEF Unread
<1> QED BY <1>2, <1>3, <1>4, <1>5 DEF IsSeq

LEMMA BulkPairs ==
    ASSUME NEW pairs \in Query!bulk
    PROVE  IsSeq(pairs) /\ \A i \in 1..Len(pairs) : pairs[i][1] \in Unread
<1>1. PICK x : x = <<"columns", <<"all">>>> OBVIOUS
<1>2. (pairs = <<>> \/ pairs = <<x>>) /\ x[1] = "columns" BY <1>1 DEF Query!bulk
<1>3. pairs \in Seq({x})
  <2>1. CASE pairs = <<>> BY <2>1
  <2>2. CASE pairs = <<x>> BY <2>2
  <2> QED BY <1>2, <2>1, <2>2
<1>4. \A i \in 1..Len(pairs) : pairs[i] = x BY <1>3
<1>5. "columns" \in Unread BY DEF Unread
<1> QED BY <1>2, <1>3, <1>4, <1>5 DEF IsSeq

LEMMA ConflictPairs ==
    ASSUME NEW pairs \in Query!bulk, NEW conflict \in {<<>>, <<<<"on_conflict", <<"id">>>>>>}
    PROVE  IsSeq(conflict \o pairs) /\ \A i \in 1..Len(conflict \o pairs) : (conflict \o pairs)[i][1] \in Unread
<1>1. PICK x, y : x = <<"columns", <<"all">>>> /\ y = <<"on_conflict", <<"id">>>> OBVIOUS
<1>2. x[1] \in Unread /\ y[1] \in Unread BY <1>1 DEF Unread
<1>3. pairs \in Seq({x, y}) /\ conflict \in Seq({x, y})
  <2>1. <<>> \in Seq({x, y}) /\ <<x>> \in Seq({x, y}) /\ <<y>> \in Seq({x, y}) OBVIOUS
  <2>2. pairs \in {<<>>, <<x>>} /\ conflict \in {<<>>, <<y>>} BY <1>1, Zenon DEF Query!bulk
  <2> QED BY <2>1, <2>2
<1>4. PICK both : both = conflict \o pairs OBVIOUS
<1>5. both \in Seq({x, y}) BY <1>3, <1>4
<1>6. \A i \in 1..Len(both) : both[i] \in {x, y} BY <1>5
<1> QED BY <1>2, <1>4, <1>5, <1>6 DEF IsSeq

\* The columns that the rows are ordered by are a sequence.
LEMMA OrderIsSeq ==
    ASSUME NEW asked, IsSeq(asked)
    PROVE  IsSeq(Query!Means(asked).order)
<1>1. PICK S : asked \in Seq(S) BY DEF IsSeq
<1>2. PICK o : o = Of(asked, "order") OBVIOUS
<1>3. PICK f : Picking(asked, Query!With(asked, "order"), f) /\ o = f[Len(asked)]
  BY <1>1, <1>2, PickedPicks DEF Of
<1>4. o \in Seq(S)
  <2>1. Len(asked) \in 0..Len(asked) BY <1>1
  <2> QED BY <1>1, <1>3, <2>1, PickedSeq
<1>5. PICK h : h = [i \in DOMAIN o |-> o[i][2]] OBVIOUS
<1>6. h = Query!Means(asked).order BY <1>2, <1>5, MeansIs
<1>7. PICK V : V = {o[i][2] : i \in 1..Len(o)} OBVIOUS
<1>8. DOMAIN o = 1..Len(o) /\ Len(o) \in Nat BY <1>4
<1>9. h \in Seq(V) BY <1>5, <1>7, <1>8
<1> QED BY <1>6, <1>9 DEF IsSeq

\* Each step of a chain.
LEMMA ChainKeeps ==
    ASSUME IsFiniteSet(Chain), MaxCalls \in Nat, Operator \subseteq Query!FilterOperator, Query!Unset \notin Source,
           ChainInv, [Query!Next]_(Query!vars)
    PROVE  ChainInv'
<1>1. QueryInv' BY QueryKeeps DEF ChainInv
<1>2. /\ from \in [Chain -> Source \cup {Query!Unset}] /\ \A d \in Chain : IsSeq(calls[d])
      /\ \A r \in Source : IsSeq(params[r])
  BY DEF ChainInv, QueryInv
<1>3. \A p : Query!Reads(p) = [filters |-> Query!Reads(p).filters, order |-> Query!Reads(p).order,
                              limit |-> Query!Reads(p).limit, offset |-> Query!Reads(p).offset]
  BY DEF Query!Reads
<1>4. CASE UNCHANGED Query!vars
  <2>1. UNCHANGED <<params, from, request, calls>> BY <1>4 DEF Query!vars
  <2> QED BY <1>1, <2>1 DEF ChainInv, Alone
<1>5. ASSUME NEW c \in Chain, NEW s \in Source, Query!From(c, s) PROVE ChainInv'
  <2>1. /\ from[c] = Query!Unset /\ from' = [from EXCEPT ![c] = s]
        /\ UNCHANGED <<params, request, calls>>
    BY <1>5 DEF Query!From
  <2>2. calls[c] = <<>> /\ request[c] = Query!Nothing BY <2>1 DEF ChainInv
  <2>3. PICK from1 : from1 = from' OBVIOUS
  <2>4. from1[c] = s /\ \A d \in Chain : d # c => from1[d] = from[d] BY <1>2, <2>1, <2>3
  <2>5. \A d \in Chain : from1[d] = Query!Unset => calls[d] = <<>> BY <2>4 DEF ChainInv
  <2>6. \A d \in Chain : request[d] # Query!Nothing => from1[d] \in Source BY <2>2, <2>4 DEF ChainInv
  <2>7. \A r \in Source : (\A d \in Chain : from1[d] # r) => params[r] = <<>>
    <3> SUFFICES ASSUME NEW r \in Source, \A d \in Chain : from1[d] # r PROVE params[r] = <<>> OBVIOUS
    <3>1. r # s BY <2>4
    <3>2. \A d \in Chain : from[d] # r BY <2>1, <2>4
    <3> QED BY <3>2 DEF ChainInv
  <2>8. ASSUME NEW d \in Chain, from1[d] # Query!Unset, \A e \in Chain \ {d} : from1[e] # from1[d],
               Query!PlainColumns(calls[d])
        PROVE  Query!Reads(params[from1[d]]) = Query!Means(calls[d])
    <3>1. CASE d = c
      <4>1. \A e \in Chain : from[e] # s BY <2>1, <2>4, <2>8, <3>1
      <4>2. params[s] = <<>> BY <4>1 DEF ChainInv
      <4> QED BY <2>2, <2>4, <3>1, <4>2, NothingAsked
    <3>2. CASE d # c
      <4>1. from1[d] = from[d] /\ from[d] # Query!Unset BY <2>4, <2>8, <3>2
      <4>2. Alone(d) BY <2>1, <2>4, <2>8, <4>1 DEF Alone
      <4> QED BY <2>8, <4>1, <4>2 DEF ChainInv
    <3> QED BY <3>1, <3>2
  <2>9. \A d \in Chain : from1[d] # Query!Unset /\ (\A e \in Chain \ {d} : from1[e] # from1[d]) /\ Query!PlainColumns(calls[d])
           => Query!Reads(params[from1[d]]) = Query!Means(calls[d])
    BY <2>8
  <2> QED
    <3>1. DOMAIN params' = Source /\ \A r \in Source : IsSeq(params'[r]) BY <2>1 DEF ChainInv
    <3>2. \A d \in Chain : /\ from'[d] = Query!Unset => calls'[d] = <<>>
                           /\ request'[d] # Query!Nothing => from'[d] \in Source
      BY <2>1, <2>3, <2>5, <2>6
    <3>3. \A r \in Source : (\A d \in Chain : from'[d] # r) => params'[r] = <<>> BY <2>1, <2>3, <2>7
    <3>4. \A d \in Chain : from'[d] # Query!Unset /\ Alone(d)' /\ Query!PlainColumns(calls'[d])
                             => Query!Reads(params'[from'[d]]) = Query!Means(calls'[d])
      BY <2>1, <2>3, <2>9 DEF Alone
    <3> QED BY <1>1, <3>1, <3>2, <3>3, <3>4 DEF ChainInv
<1>6. ASSUME NEW c \in Chain, NEW s \in Source, Query!rpc(c, s) PROVE ChainInv'
  <2>1. /\ from[c] = Query!Unset /\ from' = [from EXCEPT ![c] = s]
        /\ \A d \in Chain : from[d] # s
    BY <1>6 DEF Query!rpc
  <2>2. PICK verb \in {"GET", "HEAD", "POST"}, k \in Query!count, column \in Column :
          /\ Query!Called(c, <<"rpc", column>>)
          /\ request' = [request EXCEPT ![c] = [method |-> verb, prefer |-> k, accept |-> <<>>]]
          /\ params' = [params EXCEPT ![s] =
                          IF verb = "POST" THEN @ ELSE Query!AppendParam(@, column, <<"rpc">>)]
    BY <1>6 DEF Query!rpc
  <2>3. PICK call : call = <<"rpc", column>> OBVIOUS
  <2>4. calls' = [calls EXCEPT ![c] = Append(@, call)] BY <2>2, <2>3 DEF Query!Called
  <2>5. PICK pairs : pairs = IF verb = "POST" THEN params[s] ELSE Query!AppendParam(params[s], column, <<"rpc">>)
    OBVIOUS
  <2>6. params' = [params EXCEPT ![s] = pairs] BY <2>2, <2>5
  <2>7. PICK b : request' = [request EXCEPT ![c] = b] BY <2>2
  <2>8. IsSeq(pairs) BY <1>2, <2>5, AppendReads
  <2>9. ASSUME Query!Reads(params[s]) = Query!Means(calls[c]), Query!PlainColumns(Append(calls[c], call))
        PROVE  Query!Reads(pairs) = Query!Means(Append(calls[c], call))
    <3>1. call[1] = "rpc" /\ call[2] = column BY <2>3
    <3>2. column \notin Query!Parameter BY <1>2, <2>9, <3>1, PlainAppend
    <3>3. Query!Reads(pairs) = Query!Reads(params[s]) BY <1>2, <2>5, <3>2, AppendReads
    <3>4. Query!Means(Append(calls[c], call)) = Query!Means(calls[c])
      <4>1. call[1] \notin {"filter", "order", "limit", "range"} BY <3>1
      <4> QED BY <1>2, <4>1, MeansUnchanged
    <3> QED BY <2>9, <3>3, <3>4
  <2> QED BY <1>1, <2>1, <2>4, <2>6, <2>7, <2>8, <2>9, ChainStep
<1>7. ASSUME NEW c \in Chain,
             Query!select(c) \/ Query!insert(c) \/ Query!upsert(c) \/ Query!update(c) \/ Query!delete(c)
      PROVE  ChainInv'
  <2>1. PICK verb \in {"GET", "HEAD", "POST", "PATCH", "DELETE"} :
          \E prefers, pairs : /\ Query!Builds(c, verb, prefers, pairs)
                              /\ IsSeq(pairs) /\ \A i \in 1..Len(pairs) : pairs[i][1] \in Unread
    <3>1. CASE Query!select(c)
      <4>1. PICK verb \in {"GET", "HEAD"}, k \in Query!count : Query!Builds(c, verb, k, <<<<"select", <<"*">>>>>>)
        BY <3>1 DEF Query!select
      <4> QED BY <4>1, SelectPairs
    <3>2. CASE Query!insert(c)
      <4>1. PICK pairs \in Query!bulk : \E prefers : Query!Builds(c, "POST", prefers, pairs)
        BY <3>2 DEF Query!insert
      <4> QED BY <4>1, BulkPairs
    <3>3. CASE Query!upsert(c)
      <4>1. PICK pairs \in Query!bulk, conflict \in {<<>>, <<<<"on_conflict", <<"id">>>>>>} :
              \E prefers : Query!Builds(c, "POST", prefers, conflict \o pairs)
        BY <3>3 DEF Query!upsert
      <4> QED BY <4>1, ConflictPairs
    <3>4. CASE Query!update(c) \/ Query!delete(c)
      <4>1. PICK verb \in {"PATCH", "DELETE"} : \E prefers : Query!Builds(c, verb, prefers, <<>>)
        BY <3>4 DEF Query!update, Query!delete
      <4>2. PICK e : e = <<>> OBVIOUS
      <4>3. IsSeq(e) /\ \A i \in 1..Len(e) : e[i][1] \in Unread
        <5>1. e \in Seq({}) /\ Len(e) = 0 BY <4>2
        <5> QED BY <5>1 DEF IsSeq
      <4> QED BY <4>1, <4>2, <4>3
    <3> QED BY <1>7, <3>1, <3>2, <3>3, <3>4
  <2> QED BY <1>1, <2>1, BuildsAsks
<1>8. ASSUME NEW c \in Chain, NEW column \in Column, NEW operator \in Operator, Query!filter(c, column, operator)
      PROVE  ChainInv'
  <2>1. PICK q : q = params[from[c]] OBVIOUS
  <2>2. PICK call, pairs : call = <<"filter", column, operator>> /\ pairs = Query!AppendParam(q, column, <<operator>>)
    OBVIOUS
  <2>3. Query!Edits(c, pairs, call) /\ UNCHANGED request BY <1>8, <2>1, <2>2 DEF Query!filter, Query!Filtered
  <2>4. IsSeq(q) /\ IsSeq(calls[c]) BY <1>2, <2>1, <2>3 DEF ChainInv, Query!Edits
  <2>5. IsSeq(pairs) BY <2>2, <2>4, AppendReads
  <2>6. ASSUME Query!Reads(q) = Query!Means(calls[c]), Query!PlainColumns(Append(calls[c], call))
        PROVE  Query!Reads(pairs) = Query!Means(Append(calls[c], call))
    <3>1. call[1] = "filter" /\ call[2] = column /\ call[3] = operator BY <2>2
    <3>2. column \notin Query!Parameter BY <2>4, <2>6, <3>1, PlainAppend
    <3>3. <<operator>> # <<"rpc">>
      <4>1. operator # "rpc"
        BY DEF Query!FilterOperator, Query!comparisons, Query!patterns, Query!containments, Query!ranges, Query!others, Query!negation
      <4> QED BY <4>1
    <3>4. PICK v, added : v = <<operator>> /\ added = Append(Query!Reads(q).filters, <<column, v>>) OBVIOUS
    <3>5. pairs = Query!AppendParam(q, column, v) /\ v # <<"rpc">> BY <2>2, <3>3, <3>4
    <3>6. Query!Reads(pairs) = [Query!Reads(q) EXCEPT !.filters = Append(Query!Reads(q).filters, <<column, v>>)]
      BY <2>4, <3>2, <3>5, AppendReads
    <3>7. Query!Reads(pairs) = [filters |-> added, order |-> Query!Reads(q).order,
                                limit |-> Query!Reads(q).limit, offset |-> Query!Reads(q).offset]
      BY <1>3, <3>4, <3>6
    <3>8. Query!Means(Append(calls[c], call)) = Asks(calls[c], call) BY <2>4, MeansAppend
    <3>9. <<call[2], <<call[3]>>>> = <<column, v>> BY <3>1, <3>4
    <3>10. Query!Means(calls[c]).filters = Query!Reads(q).filters BY <2>6
    <3> QED BY <2>6, <3>1, <3>4, <3>7, <3>8, <3>9, <3>10 DEF Asks
  <2> QED BY <1>1, <2>1, <2>3, <2>5, <2>6, EditsAsks
<1>9. ASSUME NEW c \in Chain, NEW column \in Column, Query!order(c, column)
      PROVE  ChainInv'
  <2>1. PICK q : q = params[from[c]] OBVIOUS
  <2>2. PICK call, pairs : /\ call = <<"order", column>>
                           /\ pairs = Query!SetParam(q, "order", Query!GetParam(q, "order") \o <<column>>)
    OBVIOUS
  <2>3. Query!Edits(c, pairs, call) /\ UNCHANGED request BY <1>9, <2>1, <2>2 DEF Query!order
  <2>4. IsSeq(q) /\ IsSeq(calls[c]) BY <1>2, <2>1, <2>3 DEF ChainInv, Query!Edits
  <2>5. "order" \in Query!Parameter BY DEF Query!Parameter
  <2>6. IsSeq(pairs) BY <2>2, <2>4, <2>5, SetReads
  <2>7. ASSUME Query!Reads(q) = Query!Means(calls[c]), Query!PlainColumns(Append(calls[c], call))
        PROVE  Query!Reads(pairs) = Query!Means(Append(calls[c], call))
    <3>1. call[1] = "order" /\ call[2] = column BY <2>2
    <3>2. PICK given : given = Query!GetParam(q, "order") OBVIOUS
    <3>3. given = Query!Reads(q).order BY <3>2 DEF Query!Reads
    <3>4. given \o <<column>> = Append(given, column)
      <4>1. given = Query!Means(calls[c]).order BY <2>7, <3>3
      <4>2. IsSeq(given) BY <2>4, <4>1, OrderIsSeq
      <4>3. PICK S : given \in Seq(S) BY <4>2 DEF IsSeq
      <4> QED BY <4>3, AppendIsConcat
    <3>5. Query!Reads(pairs) = [filters |-> Query!Reads(q).filters, order |-> Append(given, column),
                                limit |-> Query!Reads(q).limit, offset |-> Query!Reads(q).offset]
      BY <2>2, <2>4, <2>5, <3>2, <3>4, SetReads
    <3>6. Query!Means(Append(calls[c], call)) = Asks(calls[c], call) BY <2>4, MeansAppend
    <3> QED BY <2>7, <3>1, <3>3, <3>5, <3>6 DEF Asks
  <2> QED BY <1>1, <2>1, <2>3, <2>6, <2>7, EditsAsks
<1>10. ASSUME NEW c \in Chain, NEW n, Query!limit(c, n)
       PROVE  ChainInv'
  <2>1. PICK q : q = params[from[c]] OBVIOUS
  <2>2. PICK call, pairs : call = <<"limit", n>> /\ pairs = Query!SetParam(q, "limit", <<n>>) OBVIOUS
  <2>3. Query!Edits(c, pairs, call) /\ UNCHANGED request BY <1>10, <2>1, <2>2 DEF Query!limit
  <2>4. IsSeq(q) /\ IsSeq(calls[c]) BY <1>2, <2>1, <2>3 DEF ChainInv, Query!Edits
  <2>5. "limit" \in Query!Parameter BY DEF Query!Parameter
  <2>6. IsSeq(pairs) BY <2>2, <2>4, <2>5, SetReads
  <2>7. ASSUME Query!Reads(q) = Query!Means(calls[c])
        PROVE  Query!Reads(pairs) = Query!Means(Append(calls[c], call))
    <3>1. call[1] = "limit" /\ call[2] = n BY <2>2
    <3>2. Query!Reads(pairs) = [filters |-> Query!Reads(q).filters, order |-> Query!Reads(q).order,
                                limit |-> <<n>>, offset |-> Query!Reads(q).offset]
      BY <2>2, <2>4, <2>5, SetReads
    <3>3. Query!Means(Append(calls[c], call)) = Asks(calls[c], call) BY <2>4, MeansAppend
    <3> QED BY <2>7, <3>1, <3>2, <3>3 DEF Asks
  <2> QED BY <1>1, <2>1, <2>3, <2>6, <2>7, EditsAsks
<1>11. ASSUME NEW c \in Chain, NEW first, NEW last, Query!range(c, first, last)
       PROVE  ChainInv'
  <2>1. PICK q : q = params[from[c]] OBVIOUS
  <2>2. PICK call, half, pairs :
          /\ call = <<"range", first, last>> /\ half = Query!SetParam(q, "offset", <<first>>)
          /\ pairs = Query!SetParam(half, "limit", <<last - first + 1>>)
    OBVIOUS
  <2>3. Query!Edits(c, pairs, call) /\ UNCHANGED request BY <1>11, <2>1, <2>2 DEF Query!range
  <2>4. IsSeq(q) /\ IsSeq(calls[c]) BY <1>2, <2>1, <2>3 DEF ChainInv, Query!Edits
  <2>5. "limit" \in Query!Parameter /\ "offset" \in Query!Parameter BY DEF Query!Parameter
  <2>6. IsSeq(half) /\ Query!Reads(half) = [filters |-> Query!Reads(q).filters, order |-> Query!Reads(q).order,
                                            limit |-> Query!Reads(q).limit, offset |-> <<first>>]
    BY <2>2, <2>4, <2>5, SetReads
  <2>7. PICK n : n = last - first + 1 OBVIOUS
  <2>8. IsSeq(pairs) /\ Query!Reads(pairs) = [filters |-> Query!Reads(q).filters, order |-> Query!Reads(q).order,
                                              limit |-> <<n>>, offset |-> <<first>>]
    BY <2>2, <2>5, <2>6, <2>7, SetReads
  <2>9. ASSUME Query!Reads(q) = Query!Means(calls[c])
        PROVE  Query!Reads(pairs) = Query!Means(Append(calls[c], call))
    <3>1. call[1] = "range" /\ call[2] = first /\ call[3] - call[2] + 1 = n BY <2>2, <2>7
    <3>2. Query!Means(Append(calls[c], call)) = Asks(calls[c], call) BY <2>4, MeansAppend
    <3> QED BY <2>8, <2>9, <3>1, <3>2 DEF Asks
  <2> QED BY <1>1, <2>1, <2>3, <2>8, <2>9, EditsAsks
<1>12. ASSUME NEW c \in Chain, Query!returning(c) PROVE ChainInv'
  <2>1. PICK q : q = params[from[c]] OBVIOUS
  <2>2. PICK call, pairs : call = <<"returning">> /\ pairs = Query!SetParam(q, "select", <<"*">>) OBVIOUS
  <2>3. Query!Edits(c, pairs, call) /\ \E b : request' = [request EXCEPT ![c] = b]
    BY <1>12, <2>1, <2>2 DEF Query!returning
  <2>4. IsSeq(q) /\ IsSeq(calls[c]) BY <1>2, <2>1, <2>3 DEF ChainInv, Query!Edits
  <2>5. "select" \in Query!Parameter BY DEF Query!Parameter
  <2>6. IsSeq(pairs) /\ Query!Reads(pairs) = Query!Reads(q) BY <1>3, <2>2, <2>4, <2>5, SetReads
  <2>7. Query!Means(Append(calls[c], call)) = Query!Means(calls[c])
    <3>1. call[1] \notin {"filter", "order", "limit", "range"} BY <2>2
    <3> QED BY <2>4, <3>1, MeansUnchanged
  <2> QED BY <1>1, <2>1, <2>3, <2>6, <2>7, EditsAsks
<1>13. ASSUME NEW c \in Chain,
              \/ Query!single(c) \/ Query!maybeSingle(c) \/ Query!csv(c) \/ Query!geojson(c) \/ Query!explain(c)
              \/ Query!rollback(c) \/ Query!maxAffected(c)
       PROVE  ChainInv'
  <2>1. PICK q : q = params[from[c]] OBVIOUS
  <2>2. PICK what \in {"single", "maybeSingle", "csv", "geojson", "explain", "rollback", "maxAffected"} :
          Query!Edits(c, q, <<what>>) /\ \E b : request' = [request EXCEPT ![c] = b]
    BY <1>13, <2>1 DEF Query!single, Query!maybeSingle, Query!csv, Query!geojson, Query!explain, Query!rollback,
       Query!maxAffected, Query!Formatted, Query!Preferring
  <2>3. PICK call : call = <<what>> OBVIOUS
  <2>4. IsSeq(q) /\ IsSeq(calls[c]) BY <1>2, <2>1, <2>2 DEF ChainInv, Query!Edits
  <2>5. Query!Means(Append(calls[c], call)) = Query!Means(calls[c])
    <3>1. call[1] \notin {"filter", "order", "limit", "range"} BY <2>2, <2>3
    <3> QED BY <2>4, <3>1, MeansUnchanged
  <2> QED BY <1>1, <2>1, <2>2, <2>3, <2>4, <2>5, EditsAsks
<1> QED BY <1>4, <1>5, <1>6, <1>7, <1>8, <1>9, <1>10, <1>11, <1>12, <1>13 DEF Query!Next

\* Whenever it is awaited, a chain alone on its source asks for all that its calls say, whatever their
\* order, and nothing else.
THEOREM RequestsAreTheirChains == MCSpec => []RequestIsItsChain
<1>1. Query!Init => ChainInv
  <2> SUFFICES ASSUME Query!Init PROVE ChainInv OBVIOUS
  <2>1. QueryInv BY ProofsApply, QueryBegins
  <2>2. /\ DOMAIN params = Source /\ \A s \in Source : params[s] = <<>>
        /\ \A c \in Chain : from[c] = Query!Unset /\ request[c] = Query!Nothing /\ calls[c] = <<>>
    BY DEF Query!Init
  <2>3. \A s \in Source : IsSeq(params[s])
    <3>1. <<>> \in Seq({}) OBVIOUS
    <3> QED BY <2>2, <3>1 DEF IsSeq
  <2> QED BY <2>1, <2>2, <2>3 DEF ChainInv
<1>2. ChainInv /\ [Query!Next]_(Query!vars) => ChainInv' BY ProofsApply, ChainKeeps
<1>3. ChainInv => Query!RequestIsItsChain
  <2> SUFFICES ASSUME ChainInv, NEW c \in Chain, request[c] # Query!Nothing, ~Query!Reused(c),
                      Query!PlainColumns(calls[c])
               PROVE  Query!Reads(Query!then(c).params) = Query!Means(calls[c])
    BY DEF Query!RequestIsItsChain
  <2>1. from[c] \in Source BY DEF ChainInv
  <2>2. from[c] # Query!Unset BY <2>1, ProofsApply
  <2>3. Alone(c) BY DEF Alone, Query!Reused
  <2>4. Query!then(c).params = params[from[c]] BY DEF Query!then
  <2> QED BY <2>2, <2>3, <2>4 DEF ChainInv
<1>4. Query!Spec => []ChainInv BY <1>1, <1>2, PTL DEF Query!Spec
<1>5. Query!RequestIsItsChain => RequestIsItsChain BY DEF RequestIsItsChain
<1> QED BY <1>3, <1>4, <1>5, Composition, PTL
-----------------------------------------------------------------------------
\* Whoever registers names the factor.
PasskeysTyped ==
    /\ kind \in [Ceremony -> {"register", "authenticate"}]
    /\ name \in [Ceremony -> Name \cup {None}]
    /\ verified \subseteq Name
    /\ \A c \in Ceremony : kind[c] = "register" => name[c] \in Name

\* Ceremonies keep their kinds and their names.
LEMMA PasskeysTypesKeep ==
    ASSUME PasskeysTyped, [Passkeys!Next]_(Passkeys!vars)
    PROVE  PasskeysTyped'
<1>1. ASSUME NEW c \in Ceremony, NEW n \in Name, Passkeys!register(c, n) \/ Passkeys!authenticate(c, n)
      PROVE  PasskeysTyped'
  <2>1. PICK what \in {"register", "authenticate"} :
          /\ kind' = [kind EXCEPT ![c] = what] /\ name' = [name EXCEPT ![c] = n]
          /\ UNCHANGED verified
    BY <1>1 DEF Passkeys!register, Passkeys!authenticate, Passkeys!Begins
  <2> QED BY <2>1 DEF PasskeysTyped
<1>2. ASSUME UNCHANGED <<kind, name>>, verified' \subseteq Name PROVE PasskeysTyped'
  BY <1>2 DEF PasskeysTyped
<1>3. ASSUME NEW c \in Ceremony,
             \/ Passkeys!Enroll(c) \/ Passkeys!UnenrollOfThatName(c) \/ Passkeys!Challenge(c)
             \/ Passkeys!Credential(c) \/ Passkeys!CeremonyFails(c)
      PROVE  PasskeysTyped'
  <2>1. UNCHANGED <<kind, name>> /\ verified' \in {verified, verified \ {name[c]}}
    BY <1>3 DEF Passkeys!Enroll, Passkeys!UnenrollOfThatName, Passkeys!Challenge, Passkeys!Credential, Passkeys!CeremonyFails
  <2> QED BY <1>2, <2>1 DEF PasskeysTyped
<1>4. ASSUME NEW c \in Ceremony, Passkeys!Verify(c) PROVE PasskeysTyped'
  <2>1. /\ UNCHANGED <<kind, name>>
        /\ verified' = verified \/ verified' = (IF kind[c] = "register" THEN verified \cup {name[c]} ELSE verified)
    BY <1>4 DEF Passkeys!Verify
  <2>2. verified' \subseteq Name BY <2>1 DEF PasskeysTyped
  <2> QED BY <1>2, <2>1, <2>2
<1>5. CASE Passkeys!CancelCeremony
  BY <1>2, <1>5 DEF Passkeys!CancelCeremony, PasskeysTyped
<1>6. CASE UNCHANGED Passkeys!vars
  BY <1>2, <1>6 DEF Passkeys!vars, PasskeysTyped
<1> QED BY <1>1, <1>3, <1>4, <1>5, <1>6 DEF Passkeys!Next

\* The variables of the parts keep their types, whichever runs.
THEOREM TypesHold == MCSpec => []TypesOK
<1>1. Spec => []TypeOK BY ApiTyped
<1>2. Jwks!Spec => []JwksInv
  <2>1. Jwks!Init => JwksInv BY ProofsApply, JwksInitInv
  <2>2. JwksInv /\ [Jwks!Next]_(Jwks!vars) => JwksInv' BY ProofsApply, JwksNextInv
  <2> QED BY <2>1, <2>2, PTL DEF Jwks!Spec
<1>3. Passkeys!Spec => [](PasskeysInv /\ PasskeysTyped)
  <2>1. Passkeys!Init => PasskeysInv /\ PasskeysTyped
    <3>1. Passkeys!Init => PasskeysInv
      BY SMT DEF Passkeys!Init, PasskeysInv, Served, Passkeys!OneCeremony, CeremonyStep
    <3>2. Passkeys!Init => PasskeysTyped BY DEF Passkeys!Init, PasskeysTyped
    <3> QED BY <3>1, <3>2
  <2>2. PasskeysInv /\ [Passkeys!Next]_(Passkeys!vars) => PasskeysInv' BY ProofsApply, PasskeysNextInv
  <2>3. PasskeysTyped /\ [Passkeys!Next]_(Passkeys!vars) => PasskeysTyped' BY PasskeysTypesKeep
  <2> QED BY <2>1, <2>2, <2>3, PTL DEF Passkeys!Spec
<1>4. Query!Spec => []QueryInv
  <2>1. Query!Init => QueryInv BY ProofsApply, QueryBegins
  <2>2. QueryInv /\ [Query!Next]_(Query!vars) => QueryInv' BY ProofsApply, QueryKeeps
  <2> QED BY <2>1, <2>2, PTL DEF Query!Spec
<1>5. Presence!Spec => []PresenceInv
  BY PresenceBegins, PresenceKeeps, PTL DEF Presence!Spec
<1>6. Calls!Spec => []CallsInv
  <2>1. Calls!Init => CallsInv BY ProofsApply, CallsInitInv
  <2> QED BY <2>1, CallsNextInv, PTL DEF Calls!Spec
<1>7. MCSpec => [](part \in Part)
  <2>1. MCInit => part \in Part BY DEF MCInit
  <2>2. part \in Part /\ [MCNext]_mcVars => (part \in Part)' BY DEF MCNext, mcVars
  <2> QED BY <2>1, <2>2, PTL DEF MCSpec, mcVars
<1>8. TypeOK /\ JwksInv /\ PasskeysInv /\ PasskeysTyped /\ QueryInv /\ PresenceInv /\ CallsInv /\ part \in Part => TypesOK
  <2>1. JwksInv => Jwks!TypeOK BY DEF JwksInv
  <2>2. PasskeysInv /\ PasskeysTyped => Passkeys!TypeOK
    BY DEF PasskeysInv, Served, PasskeysTyped, Passkeys!TypeOK, CeremonyStep
  <2>3. QueryInv => Query!TypeOK
    BY ProofsApply DEF QueryInv, Query!TypeOK, Verbs
  <2>4. PresenceInv => Presence!TypeOK BY DEF PresenceInv, PresenceTyped
  <2>5. CallsInv => Calls!TypeOK BY DEF CallsInv
  <2> QED BY <2>1, <2>2, <2>3, <2>4, <2>5, ProofsApply DEF TypesOK
<1> QED BY <1>1, <1>2, <1>3, <1>4, <1>5, <1>6, <1>7, <1>8, Composition, PTL
=============================================================================
