------------------------- MODULE AuthSessionProofs -------------------------
(***************************************************************************)
(* Proofs about AuthSession, for any calls, clients and users: one refresh *)
(* is in flight per client, storage and the calls that have the lock work  *)
(* with the newest refresh token, and a sign-out is final, unless an       *)
(* answer was lost, the token was refreshed outside the lock or setSession *)
(* saved one that had been redeemed.                                       *)
(***************************************************************************)
EXTENDS AuthSession, TLAPS

(* The stages in which a call works with a session. *)
Working == FlightStage \cup {"signIn", "logout"}

(* The stages that a call can be in once it has settled its deferred. *)
Late == {"logout", "leave", "left"} \cup Over

HasSession ==
    \A c \in Calls :
        /\ pc[c] \in Working => session[c] \in Session
        /\ pc[c] = "answered" => session[c].gen > 0

SettledLate ==
    \A c \in Calls :
        /\ settled[c] # "pending" => pc[c] \in Late
        /\ settled[c] = "session" => session[c] \in Session
        /\ pc[c] = "joined" => joined[c] \in Calls

TypeInv == TypeOK /\ HasSession /\ SettledLate /\ SingleFlight
-----------------------------------------------------------------------------
(* A call's token is current: the newest of its user or revoked, unless an
   answer was lost, a call without the lock refreshed that user's token, or
   setSession took the token as it was. *)
Current(s) ==
    \/ newest[s.user] \in {0, s.gen} \/ s.user \in lost \cup loose
    \/ <<s.user, s.gen>> \in spent

(* The calls that have the lock run one at a time. *)
Exclusive == \A c, d \in Locked : InProgress(c) /\ InProgress(d) => c = d

(* A refresh led by a call without the lock is on record. *)
LooseFlight ==
    \A c \in Calls \ Locked :
        pc[c] \in {"request", "answered", "refused"} => session[c].user \in loose

(* What a call is about to save is current. *)
HeldIsCurrent == \A c \in Calls : pc[c] \in {"answered", "signIn"} => Current(session[c])

(* So is what a call that has the lock has read, and presents. *)
ReadIsCurrent ==
    \A c \in Locked :
        /\ KindOf[c] # "set" /\ pc[c] \in {"read", "request", "refused"}
        /\ session[c] # None
        => Current(session[c])

(* A sign-in is over at once, and nobody knows its session before. *)
SignInIsNew ==
    \A c \in Calls :
        /\ pc[c] = "signIn" => KindOf[c] \in {"set", "signIn"} /\ session[c].user = UserOf[c]
        /\ KindOf[c] = "signIn" =>
            /\ pc[c] \in {"idle", "signIn", "done", "gone"}
            /\ pc[c] \in {"idle", "signIn"} =>
                  /\ stored # None => stored.user # UserOf[c]
                  /\ \A d \in Calls \ {c} :
                        session[d] # None => session[d].user # UserOf[c]

(* After a sign-out no call that has the lock has a session in hand. *)
SignedOutForAll ==
    signedOut =>
        \A c \in Locked :
            /\ KindOf[c] # "set" /\ pc[c] \in {"read", "request", "answered", "refused"}
            /\ session[c] # None
            => session[c].user \in loose

TokenInv ==
    /\ Exclusive /\ LooseFlight
    /\ HeldIsCurrent /\ ReadIsCurrent /\ StoredIsCurrent
    /\ SignInIsNew
    /\ SignedOutForAll /\ SignedOutStays

IInv == TypeInv /\ TokenInv
-----------------------------------------------------------------------------
(* What the constants are, as the leaves below need it. *)
LEMMA NoneIsNoCall == None \notin Calls
BY AuthSessionAssumption DEF AuthSessionAssumption

(* None stands for the absence of a session, too. *)
LEMMA NoneIsNoSession == None \notin Session
BY AuthSessionAssumption DEF AuthSessionAssumption

(* A session with another token is one of the same user. *)
LEMMA SessionWithToken ==
    ASSUME NEW s \in Session, NEW n \in Nat, NEW b \in BOOLEAN
    PROVE  LET r == [s EXCEPT !.gen = n, !.fresh = b] IN
           r \in Session /\ r.gen = n /\ r.user = s.user
BY DEF Session

(* _callRefreshToken keeps the types and the record of who refreshes: the call
   leads, and refreshingDeferred is its own, or it waits for the one that does. *)
LEMMA CallRefreshTokenTypes ==
    ASSUME TypeInv, NEW c \in Calls, NEW s \in Session,
           pc[c] \in {"idle", "read"}, CallRefreshToken(c, s)
    PROVE  TypeInv'
<1> DEFINE k == ClientOf[c]
<1>1. k \in Clients /\ deferred[k] \in Calls \cup {None} /\ settled[c] = "pending"
  BY AuthSessionAssumption
     DEF AuthSessionAssumption, TypeInv, TypeOK, SettledLate, Late, Over
<1>2. /\ session' = [session EXCEPT ![c] = s]
      /\ newest' = newest /\ stored' = stored /\ settled' = settled
      /\ lost' = lost /\ spent' = spent /\ signedOut' = signedOut /\ faults' = faults
  BY DEF CallRefreshToken, authVars
<1>3. CASE deferred[k] # None
  <2>1. /\ pc' = [pc EXCEPT ![c] = "joined"]
        /\ joined' = [joined EXCEPT ![c] = deferred[k]]
        /\ deferred' = deferred /\ loose' = loose
    BY <1>3 DEF CallRefreshToken, Go
  <2>2. TypeOK'
    BY <1>1, <1>2, <1>3, <2>1 DEF TypeInv, TypeOK, Stage, FlightStage, Over
  <2>3. HasSession' /\ SettledLate'
    BY <1>1, <1>2, <1>3, <2>1
       DEF TypeInv, TypeOK, HasSession, SettledLate, Working, FlightStage, Late, Over
  <2>4. SingleFlight'
    BY <1>1, <1>2, <1>3, <2>1 DEF TypeInv, TypeOK, SingleFlight, FlightStage
  <2> QED BY <2>2, <2>3, <2>4 DEF TypeInv
<1>4. CASE deferred[k] = None
  <2>1. /\ pc' = [pc EXCEPT ![c] = "request"]
        /\ deferred' = [deferred EXCEPT ![k] = c]
        /\ loose' \in {loose, loose \cup {s.user}}
        /\ joined' = joined
    BY <1>4 DEF CallRefreshToken, Go
  <2>2. TypeOK'
    BY <1>1, <1>2, <2>1 DEF TypeInv, TypeOK, Stage, FlightStage, Session
  <2>3. HasSession' /\ SettledLate'
    BY <1>1, <1>2, <2>1
       DEF TypeInv, TypeOK, HasSession, SettledLate, Working, FlightStage, Late, Over
  <2>4. SingleFlight'
    BY <1>1, <1>2, <1>4, <2>1, NoneIsNoCall, AuthSessionAssumption
       DEF AuthSessionAssumption, TypeInv, TypeOK, SingleFlight, FlightStage
  <2> QED BY <2>2, <2>3, <2>4 DEF TypeInv
<1> QED BY <1>3, <1>4

(* The end of a flight keeps the types: refreshingDeferred is dropped, settled
   or not. *)
LEMMA FlightEndTypes ==
    ASSUME TypeInv, NEW c \in Calls, pc[c] \in FlightStage,
           NEW outcome \in Outcome, NEW stage \in {"logout", "leave", "done", "failed"},
           settled' \in {settled, [settled EXCEPT ![c] = outcome]},
           deferred' = [deferred EXCEPT ![ClientOf[c]] = None],
           Go(c, stage), UNCHANGED <<joined, newest, session, loose, spent, signedOut>>,
           stored' = stored, lost' \subseteq Users, faults' \in 0..MaxFaults
    PROVE  TypeInv'
<1>1. ClientOf[c] \in Clients /\ session[c] \in Session /\ deferred[ClientOf[c]] = c
  BY AuthSessionAssumption DEF AuthSessionAssumption, TypeInv, HasSession, Working, SingleFlight
<1>2. pc' = [pc EXCEPT ![c] = stage] /\ settled' \in [Calls -> Outcome \cup {"pending"}]
  BY DEF Go, TypeInv, TypeOK
<1>3. TypeOK'
  BY <1>1, <1>2 DEF TypeInv, TypeOK, Stage, Over
<1>4. HasSession' /\ SettledLate'
  BY <1>1, <1>2 DEF TypeInv, TypeOK, HasSession, SettledLate, Working, FlightStage, Late, Over
<1>5. SingleFlight'
  BY <1>1, <1>2, NoneIsNoCall, AuthSessionAssumption
     DEF AuthSessionAssumption, TypeInv, TypeOK, SingleFlight, FlightStage
<1> QED BY <1>3, <1>4, <1>5 DEF TypeInv

(* Settle is such an end. *)
LEMMA SettleTypes ==
    ASSUME TypeInv, NEW c \in Calls, pc[c] \in FlightStage,
           NEW outcome \in Outcome, NEW stage \in {"logout", "leave", "done"},
           Settle(c, outcome, stage), UNCHANGED <<newest, session, loose, spent, signedOut>>,
           stored' = stored, lost' \subseteq Users, faults' \in 0..MaxFaults
    PROVE  TypeInv'
BY FlightEndTypes DEF Settle

(* A step within the flight of a call, or outside of any. *)
LEMMA MoveTypes ==
    ASSUME TypeInv, NEW c \in Calls, NEW stage \in Stage,
           Go(c, stage), UNCHANGED flightVars,
           pc[c] \in FlightStage <=> stage \in FlightStage,
           stage # "joined",
           settled[c] # "pending" => stage \in Late,
           newest' \in [Users -> Nat], stored' \in Session \cup {None},
           NEW s \in Session \cup {None}, session' = [session EXCEPT ![c] = s],
           stage \in Working => s \in Session,
           stage = "answered" => s.gen > 0,
           settled[c] = "session" => s \in Session,
           lost' \subseteq Users, loose' = loose, spent' \subseteq Users \X Nat, signedOut' \in BOOLEAN,
           faults' \in 0..MaxFaults
    PROVE  TypeInv'
<1>1. /\ deferred' = deferred /\ joined' = joined /\ settled' = settled
      /\ pc' = [pc EXCEPT ![c] = stage]
  BY DEF flightVars, Go
<1>2. TypeOK'
  BY <1>1 DEF TypeInv, TypeOK
<1>3. HasSession' /\ SettledLate'
  BY <1>1 DEF TypeInv, TypeOK, HasSession, SettledLate
<1>4. SingleFlight'
  BY <1>1 DEF TypeInv, TypeOK, SingleFlight
<1> QED BY <1>2, <1>3, <1>4 DEF TypeInv

(* The same for a step that leaves every call the session it works with. *)
LEMMA StageTypes ==
    ASSUME TypeInv, NEW c \in Calls, NEW stage \in Stage,
           Go(c, stage), UNCHANGED flightVars, session' = session,
           pc[c] \in FlightStage <=> stage \in FlightStage,
           stage \notin {"joined", "answered"},
           settled[c] # "pending" => stage \in Late,
           newest' \in [Users -> Nat], stored' \in Session \cup {None},
           stage \in Working => session[c] \in Session,
           lost' \subseteq Users, loose' = loose, spent' \subseteq Users \X Nat, signedOut' \in BOOLEAN,
           faults' \in 0..MaxFaults
    PROVE  TypeInv'
<1>1. session[c] \in Session \cup {None} /\ session' = [session EXCEPT ![c] = session[c]]
  BY DEF TypeInv, TypeOK
<1>2. settled[c] = "session" => session[c] \in Session
  BY DEF TypeInv, SettledLate
<1> QED BY <1>1, <1>2, MoveTypes

(* A failure is counted within its bound. *)
LEMMA FaultTypes == TypeInv /\ Fault => faults' \in 0..MaxFaults
BY AuthSessionAssumption DEF AuthSessionAssumption, TypeInv, TypeOK, Fault

(* What a call does after its refresh: it is over, or works with a new session. *)
LEMMA AfterRefreshStages ==
    ASSUME NEW c \in Calls, NEW outcome
    PROVE  /\ AfterRefresh(c, outcome) \in {"logout", "leave", "done"}
           /\ AfterRefresh(c, outcome) = "logout" => outcome = "session"
BY DEF AfterRefresh

(* Nobody has called yet. *)
LEMMA InitTypes == Init => TypeInv
<1> SUFFICES ASSUME Init PROVE TypeInv
  OBVIOUS
<1>1. TypeOK
  <2>1. stored \in Session \cup {None}
    <3>1. SUFFICES ASSUME stored # None PROVE stored \in Session
      OBVIOUS
    <3>2. stored \in [user : Users \ NewUsers, gen : {1}, fresh : BOOLEAN]
      BY <3>1 DEF Init
    <3> QED BY <3>2 DEF Session
  <2>2. newest \in [Users -> Nat] /\ faults \in 0..MaxFaults
    BY AuthSessionAssumption DEF AuthSessionAssumption, Init
  <2> QED BY <2>1, <2>2 DEF Init, TypeOK, Stage
<1>2. HasSession /\ SettledLate
  BY DEF Init, HasSession, SettledLate, Working, FlightStage
<1>3. SingleFlight
  BY NoneIsNoCall, AuthSessionAssumption
     DEF AuthSessionAssumption, Init, SingleFlight, FlightStage
<1> QED BY <1>1, <1>2, <1>3 DEF TypeInv

(* What a call brings is a session. *)
LEMMA BroughtIsSession ==
    ASSUME TypeInv, NEW c \in Calls, NEW gen \in Brought(c), NEW b \in BOOLEAN
    PROVE  gen \in Nat /\ [user |-> UserOf[c], gen |-> gen, fresh |-> b] \in Session
<1>1. UserOf[c] \in Users
  BY AuthSessionAssumption DEF AuthSessionAssumption
<1>2. newest[UserOf[c]] \in Nat
  BY <1>1 DEF TypeInv, TypeOK
<1>3. gen \in Nat
  BY <1>2 DEF Brought
<1> QED BY <1>1, <1>3 DEF Session

(* The steps by which a call starts. *)
LEMMA StartTypes ==
    ASSUME TypeInv, NEW c \in Calls, Begin(c) \/ SetExpired(c) \/ SignIn(c) \/ SetFails(c)
    PROVE  TypeInv'
<1>1. UserOf[c] \in Users /\ faults \in 0..MaxFaults /\ spent \subseteq Users \X Nat
  BY AuthSessionAssumption DEF AuthSessionAssumption, TypeInv, TypeOK
<1>2. pc[c] = "idle" /\ settled[c] = "pending"
  BY DEF Begin, SetExpired, SignIn, SetFails, TypeInv, TypeOK, SettledLate, Late, Over
<1>3. CASE Begin(c)
  <2>1. /\ Go(c, "read") /\ session' = [session EXCEPT ![c] = stored]
        /\ UNCHANGED flightVars /\ UNCHANGED <<newest, stored, history, faults>>
    BY <1>3 DEF Begin, authVars
  <2>2. stored \in Session \cup {None} /\ "read" \in Stage
    BY DEF TypeInv, TypeOK, Stage
  <2> QED BY <1>1, <1>2, <2>1, <2>2, MoveTypes
        DEF TypeInv, TypeOK, Working, FlightStage, history
<1>4. CASE SetExpired(c)
  <2>1. PICK gen \in Brought(c) :
           CallRefreshToken(c, [user |-> UserOf[c], gen |-> gen, fresh |-> FALSE])
    BY <1>4 DEF SetExpired
  <2>2. [user |-> UserOf[c], gen |-> gen, fresh |-> FALSE] \in Session
    BY BroughtIsSession
  <2> QED BY <1>2, <2>1, <2>2, CallRefreshTokenTypes
<1>5. CASE SignIn(c)
  <2>1. PICK gen \in Brought(c) :
           /\ session' = [session EXCEPT ![c] = [user |-> UserOf[c], gen |-> gen, fresh |-> TRUE]]
           /\ spent' \in {spent, spent \cup {<<UserOf[c], gen>>}}
    BY <1>5 DEF SignIn
  <2> DEFINE s == [user |-> UserOf[c], gen |-> gen, fresh |-> TRUE]
  <2>2. /\ Go(c, "signIn") /\ session' = [session EXCEPT ![c] = s]
        /\ UNCHANGED flightVars /\ UNCHANGED <<newest, stored, lost, loose, signedOut, faults>>
    BY <1>5, <2>1 DEF SignIn, authVars
  <2>3. s \in Session /\ "signIn" \in Stage /\ gen \in Nat
    BY BroughtIsSession DEF Stage
  <2>4. spent' \subseteq Users \X Nat
    BY <1>1, <2>1, <2>3
  <2> HIDE DEF s
  <2> QED BY <1>1, <1>2, <2>2, <2>3, <2>4, MoveTypes DEF TypeInv, TypeOK, FlightStage
<1>6. CASE SetFails(c)
  <2>1. PICK stage \in {"leave", "done"} : Go(c, stage) /\ (faults' = faults \/ Fault)
    BY <1>6 DEF SetFails
  <2>2. /\ UNCHANGED flightVars
        /\ UNCHANGED <<newest, stored, session, lost, loose, spent, signedOut>>
    BY <1>6 DEF SetFails, authVars, history
  <2>3. stage \in Stage /\ stage \in Late /\ stage \notin FlightStage \cup Working
    BY DEF Stage, Late, Over, FlightStage, Working
  <2>4. faults' \in 0..MaxFaults
    BY <1>1, <2>1, FaultTypes
  <2> QED BY <1>1, <1>2, <2>1, <2>2, <2>3, <2>4, StageTypes DEF TypeInv, TypeOK, FlightStage
<1> QED BY <1>3, <1>4, <1>5, <1>6

(* The steps of a call outside of the flight of a refresh. *)
LEMMA CallTypes ==
    ASSUME TypeInv, NEW c \in Calls,
           \/ SaveSignIn(c) \/ UseStored(c) \/ RefreshStored(c)
           \/ Logout(c) \/ Leave(c) \/ NotifyLeft(c)
    PROVE  TypeInv'
<1>1. /\ newest \in [Users -> Nat] /\ stored \in Session \cup {None}
      /\ session[c] \in Session \cup {None} /\ lost \subseteq Users /\ spent \subseteq Users \X Nat
      /\ signedOut \in BOOLEAN /\ faults \in 0..MaxFaults
  BY DEF TypeInv, TypeOK
<1>2. CASE SaveSignIn(c)
  <2>1. /\ pc[c] = "signIn" /\ Go(c, "done") /\ stored' = session[c]
        /\ UNCHANGED flightVars /\ signedOut' = FALSE
        /\ UNCHANGED <<newest, session, lost, loose, spent, faults>>
    BY <1>2 DEF SaveSignIn
  <2>2. "done" \in Stage /\ "done" \in Late
    BY DEF Stage, Late, Over
  <2> QED BY <1>1, <2>1, <2>2, StageTypes DEF FlightStage, Working
<1>3. CASE UseStored(c)
  <2>1. PICK stage \in {"done", "leave", "logout"} :
           Go(c, stage) /\ (stage = "logout" => session[c] # None)
    BY <1>3 DEF UseStored
  <2>2. /\ pc[c] = "read" /\ UNCHANGED flightVars
        /\ UNCHANGED <<newest, stored, session, lost, loose, spent, signedOut, faults>>
    BY <1>3 DEF UseStored, authVars, history
  <2>3. stage \in Stage /\ stage \in Late
    BY DEF Stage, Late, Over
  <2> QED BY <1>1, <2>1, <2>2, <2>3, StageTypes DEF FlightStage, Working
<1>4. CASE RefreshStored(c)
  <2>1. pc[c] = "read" /\ session[c] \in Session /\ CallRefreshToken(c, session[c])
    BY <1>1, <1>4 DEF RefreshStored
  <2> QED BY <2>1, CallRefreshTokenTypes
<1>5. CASE Logout(c)
  <2>1. PICK stage \in {"leave", "done"} : Go(c, stage) /\ (faults' = faults \/ Fault)
    BY <1>5 DEF Logout
  <2>2. /\ pc[c] = "logout" /\ UNCHANGED flightVars
        /\ newest' \in {newest, [newest EXCEPT ![session[c].user] = 0]}
        /\ UNCHANGED <<stored, session, lost, loose, spent, signedOut>>
    BY <1>5 DEF Logout, history
  <2>3. stage \in Stage /\ stage \in Late /\ stage \notin FlightStage \cup Working
    BY DEF Stage, Late, Over, FlightStage, Working
  <2>4. newest' \in [Users -> Nat] /\ faults' \in 0..MaxFaults
    BY <1>1, <2>1, <2>2, FaultTypes
  <2> QED BY <1>1, <2>1, <2>2, <2>3, <2>4, StageTypes DEF FlightStage
<1>6. CASE Leave(c)
  <2>1. PICK stage \in {"left", "done"} : Go(c, stage) /\ (faults' = faults \/ Fault)
    BY <1>6 DEF Leave
  <2>2. /\ pc[c] = "leave" /\ UNCHANGED flightVars
        /\ stored' \in {stored, None} /\ signedOut' \in BOOLEAN
        /\ UNCHANGED <<newest, session, lost, loose, spent>>
    BY <1>1, <1>6 DEF Leave
  <2>3. stage \in Stage /\ stage \in Late /\ stage \notin FlightStage \cup Working
    BY DEF Stage, Late, Over, FlightStage, Working
  <2>4. faults' \in 0..MaxFaults
    BY <1>1, <2>1, FaultTypes
  <2> QED BY <1>1, <2>1, <2>2, <2>3, <2>4, StageTypes DEF FlightStage
<1>7. CASE NotifyLeft(c)
  <2>1. /\ pc[c] = "left" /\ Go(c, "done") /\ UNCHANGED flightVars
        /\ UNCHANGED <<newest, stored, session, lost, loose, spent, signedOut, faults>>
    BY <1>7 DEF NotifyLeft, authVars, history
  <2>2. "done" \in Stage /\ "done" \in Late
    BY DEF Stage, Late, Over
  <2> QED BY <1>1, <2>1, <2>2, StageTypes DEF FlightStage, Working
<1> QED BY <1>2, <1>3, <1>4, <1>5, <1>6, <1>7

(* The steps of the call that leads a refresh, and of one that joined it. *)
LEMMA RefreshTypes ==
    ASSUME TypeInv, NEW c \in Calls,
           \/ Redeem(c) \/ Retry(c) \/ GiveUp(c)
           \/ SaveRefreshed(c) \/ SaveFails(c) \/ NotifyRefreshed(c)
           \/ Remove(c) \/ NotifyRemoved(c) \/ RemoveFails(c) \/ Resume(c)
    PROVE  TypeInv'
<1>1. /\ newest \in [Users -> Nat] /\ stored \in Session \cup {None}
      /\ session \in [Calls -> Session \cup {None}] /\ lost \subseteq Users /\ spent \subseteq Users \X Nat
      /\ signedOut \in BOOLEAN /\ faults \in 0..MaxFaults
  BY DEF TypeInv, TypeOK
<1>2. pc[c] \in FlightStage => session[c] \in Session /\ settled[c] = "pending"
  BY DEF TypeInv, HasSession, SettledLate, Working, FlightStage, Late, Over
<1>3. {"request", "answered", "refused", "refreshed", "remove", "removed"} \subseteq FlightStage
      /\ FlightStage \subseteq Stage
  BY DEF FlightStage, Stage
<1>4. CASE Redeem(c)
  <2> DEFINE s == session[c]
  <2>1. pc[c] = "request" /\ s \in Session /\ s.gen \in Nat /\ s.user \in Users
    BY <1>2, <1>3, <1>4 DEF Redeem, Session
  <2>2. UNCHANGED <<stored, lost, loose, spent, signedOut, faults>> /\ UNCHANGED flightVars
    BY <1>4 DEF Redeem, history
  <2>3. CASE s.gen = newest[s.user]
    <3> DEFINE r == [s EXCEPT !.gen = @ + 1, !.fresh = TRUE]
    <3>1. /\ Go(c, "answered") /\ session' = [session EXCEPT ![c] = r]
          /\ newest' = [newest EXCEPT ![s.user] = @ + 1]
      BY <1>4, <2>3 DEF Redeem
    <3>2. r \in Session /\ r.gen > 0
      <4>1. s.gen + 1 \in Nat /\ s.gen + 1 > 0
        BY <2>1
      <4> QED BY <2>1, <4>1, SessionWithToken
    <3>3. newest' \in [Users -> Nat]
      BY <1>1, <2>1, <3>1
    <3> HIDE DEF r, s
    <3> QED BY <1>1, <1>2, <1>3, <2>1, <2>2, <3>1, <3>2, <3>3, MoveTypes
  <2>4. CASE s.gen # newest[s.user]
    <3>1. Go(c, "refused") /\ session' = session /\ newest' = newest
      BY <1>4, <2>4 DEF Redeem
    <3> QED BY <1>1, <1>2, <1>3, <2>1, <2>2, <3>1, StageTypes
  <2> QED BY <2>3, <2>4
<1>5. CASE Retry(c)
  <2>1. /\ Go(c, "request") /\ Fault /\ UNCHANGED flightVars
        /\ UNCHANGED <<newest, stored, loose, spent, signedOut>>
        /\ pc[c] \in FlightStage /\ session[c] \in Session
    BY <1>2, <1>3, <1>5 DEF Retry, authVars
  <2>2. CASE pc[c] \in {"request", "refused"}
    <3>1. session' = session /\ lost' = lost
      BY <1>5, <2>2 DEF Retry
    <3> QED BY <1>1, <1>2, <1>3, <2>1, <3>1, FaultTypes, StageTypes
  <2>3. CASE pc[c] = "answered"
    <3> DEFINE r == [session[c] EXCEPT !.gen = @ - 1, !.fresh = FALSE]
    <3>1. session' = [session EXCEPT ![c] = r] /\ lost' = lost \cup {session[c].user}
      BY <1>5, <2>3 DEF Retry
    <3>2. session[c].gen > 0
      BY <2>3 DEF TypeInv, HasSession
    <3>3. r \in Session
      <4>1. session[c].gen - 1 \in Nat
        BY <2>1, <3>2 DEF Session
      <4> QED BY <2>1, <4>1, SessionWithToken
    <3>4. lost' \subseteq Users
      BY <1>1, <2>1, <3>1 DEF Session
    <3> HIDE DEF r
    <3> QED BY <1>1, <1>2, <1>3, <2>1, <3>1, <3>3, <3>4, FaultTypes, MoveTypes
  <2> QED BY <1>5, <2>2, <2>3 DEF Retry
<1>6. CASE GiveUp(c)
  <2>1. /\ \E outcome \in {"retry", "thrown"} : Settle(c, outcome, AfterRefresh(c, outcome))
        /\ Fault
        /\ pc[c] \in FlightStage /\ lost' \subseteq lost \cup {session[c].user}
        /\ UNCHANGED <<newest, stored, session, loose, spent, signedOut>>
    BY <1>3, <1>6 DEF GiveUp, authVars
  <2>2. lost' \subseteq Users
    BY <1>1, <1>2, <2>1 DEF Session
  <2>3. {"retry", "thrown"} \subseteq Outcome
    BY DEF Outcome
  <2> QED BY <2>1, <2>2, <2>3, FaultTypes, AfterRefreshStages, SettleTypes
<1>7. CASE SaveRefreshed(c)
  <2>1. /\ pc[c] \in FlightStage /\ Go(c, "refreshed") /\ stored' = session[c]
        /\ UNCHANGED flightVars /\ signedOut' \in BOOLEAN
        /\ UNCHANGED <<newest, session, lost, loose, spent, faults>>
    BY <1>3, <1>7 DEF SaveRefreshed
  <2> QED BY <1>1, <1>2, <1>3, <2>1, StageTypes
<1>8. CASE SaveFails(c)
  <2>1. /\ Settle(c, "thrown", "done") /\ Fault /\ pc[c] \in FlightStage
        /\ lost' = lost \cup {session[c].user}
        /\ UNCHANGED <<newest, stored, session, loose, spent, signedOut>>
    BY <1>3, <1>8 DEF SaveFails, authVars
  <2>2. lost' \subseteq Users
    BY <1>1, <1>2, <2>1 DEF Session
  <2>3. "thrown" \in Outcome
    BY DEF Outcome
  <2> QED BY <2>1, <2>2, <2>3, FaultTypes, SettleTypes
<1>9. CASE NotifyRefreshed(c)
  <2>1. /\ pc[c] \in FlightStage /\ {"session", "retry", "thrown"} \subseteq Outcome
        /\ UNCHANGED <<newest, stored, session, lost, loose, spent, signedOut>>
    BY <1>3, <1>9 DEF NotifyRefreshed, authVars, history, Outcome
  <2>2. CASE Settle(c, "session", AfterRefresh(c, "session")) /\ UNCHANGED faults
    BY <1>1, <2>1, <2>2, AfterRefreshStages, SettleTypes
  <2>3. CASE \E outcome \in {"retry", "thrown"} : Settle(c, outcome, "done") /\ Fault
    BY <1>1, <2>1, <2>3, FaultTypes, SettleTypes
  <2>4. CASE Go(c, "remove") /\ Fault /\ UNCHANGED flightVars
    BY <1>1, <1>2, <1>3, <2>1, <2>4, FaultTypes, StageTypes
  <2> QED BY <1>9, <2>2, <2>3, <2>4 DEF NotifyRefreshed
<1>10. CASE Remove(c)
  <2>1. /\ pc[c] \in FlightStage /\ Go(c, "removed") /\ stored' = None
        /\ UNCHANGED flightVars
        /\ UNCHANGED <<newest, session, lost, loose, spent, signedOut, faults>>
    BY <1>3, <1>10 DEF Remove, history
  <2> QED BY <1>1, <1>2, <1>3, <2>1, StageTypes
<1>11. CASE NotifyRemoved(c)
  <2>1. /\ Settle(c, "error", AfterRefresh(c, "error")) /\ pc[c] \in FlightStage
        /\ UNCHANGED <<newest, stored, session, lost, loose, spent, signedOut, faults>>
    BY <1>3, <1>11 DEF NotifyRemoved, authVars, history
  <2>2. "error" \in Outcome
    BY DEF Outcome
  <2> QED BY <1>1, <2>1, <2>2, AfterRefreshStages, SettleTypes
<1>12. CASE RemoveFails(c)
  <2>1. /\ pc[c] \in FlightStage /\ Fault /\ Go(c, "failed")
        /\ deferred' = [deferred EXCEPT ![ClientOf[c]] = None]
        /\ UNCHANGED <<newest, stored, session, joined, settled, lost, loose, spent, signedOut>>
    BY <1>3, <1>12 DEF RemoveFails, authVars, history
  <2>2. "error" \in Outcome
    BY DEF Outcome
  <2> QED BY <1>1, <2>1, <2>2, FaultTypes, FlightEndTypes
<1>13. CASE Resume(c)
  <2> DEFINE leader == joined[c]
             stage == AfterRefresh(c, settled[leader])
  <2>1. /\ pc[c] = "joined" /\ Go(c, stage) /\ UNCHANGED flightVars
        /\ session' = [session EXCEPT ![c] = session[leader]]
        /\ UNCHANGED <<newest, stored, lost, loose, spent, signedOut, faults>>
    BY <1>13 DEF Resume, authVars, history
  <2>2. leader \in Calls /\ settled[c] = "pending"
    BY <2>1 DEF TypeInv, SettledLate, Late, Over
  <2>3. stage \in {"logout", "leave", "done"}
        /\ (stage = "logout" => settled[leader] = "session")
    BY <2>2, AfterRefreshStages
  <2>4. /\ stage \in Stage /\ stage \notin {"joined", "answered"} /\ stage \notin FlightStage
        /\ pc[c] \notin FlightStage
        /\ stage \in Working => settled[leader] = "session"
    BY <2>1, <2>3 DEF Stage, FlightStage, Working, Over
  <2>5. session[leader] \in Session \cup {None}
        /\ (stage \in Working => session[leader] \in Session)
    BY <1>1, <2>2, <2>4 DEF TypeInv, SettledLate
  <2> HIDE DEF leader, stage
  <2> QED BY <1>1, <2>1, <2>2, <2>4, <2>5, MoveTypes
<1> QED BY <1>4, <1>5, <1>6, <1>7, <1>8, <1>9, <1>10, <1>11, <1>12, <1>13

(* A page that closes ends its calls and drops its deferred. *)
LEMMA PageGoneTypes ==
    ASSUME TypeInv, NEW k \in Clients, PageGone(k)
    PROVE  TypeInv'
<1> DEFINE here == {c \in Calls : ClientOf[c] = k /\ InProgress(c)}
<1>1. /\ pc' = [c \in Calls |-> IF c \in here THEN "gone" ELSE pc[c]]
      /\ deferred' = [deferred EXCEPT ![k] = None]
      /\ UNCHANGED <<newest, stored, session, joined, settled, loose, spent, signedOut>>
      /\ faults' \in 0..MaxFaults
  BY FaultTypes DEF PageGone, authVars
<1>2. lost' \subseteq Users
  <2>1. lost' = lost \cup
          {session[c].user : c \in {d \in here : pc[d] \in {"answered", "signIn"}}}
    BY DEF PageGone
  <2>2. \A c \in Calls : pc[c] \in {"answered", "signIn"} => session[c].user \in Users
    BY DEF TypeInv, HasSession, Working, FlightStage, Session
  <2> QED BY <2>1, <2>2 DEF TypeInv, TypeOK
<1>3. TypeOK'
  BY <1>1, <1>2 DEF TypeInv, TypeOK, Stage, Over
<1>4. HasSession' /\ SettledLate'
  BY <1>1 DEF TypeInv, TypeOK, HasSession, SettledLate, Working, FlightStage, Late, Over
<1>5. SingleFlight'
  <2> SUFFICES ASSUME NEW c \in Calls
               PROVE  pc'[c] \in FlightStage <=> deferred'[ClientOf[c]] = c
    BY DEF SingleFlight
  <2>1. pc[c] \in FlightStage <=> deferred[ClientOf[c]] = c
    BY DEF TypeInv, SingleFlight
  <2>2. pc[c] \in FlightStage => InProgress(c)
    BY DEF FlightStage, InProgress, Over
  <2>3. ClientOf[c] \in Clients
    BY AuthSessionAssumption DEF AuthSessionAssumption
  <2>4. deferred'[ClientOf[c]] = IF ClientOf[c] = k THEN None ELSE deferred[ClientOf[c]]
    BY <1>1, <2>3 DEF TypeInv, TypeOK
  <2>5. pc'[c] \in FlightStage <=> c \notin here /\ pc[c] \in FlightStage
    BY <1>1 DEF FlightStage
  <2> QED BY <2>1, <2>2, <2>4, <2>5, NoneIsNoCall
<1> QED BY <1>3, <1>4, <1>5 DEF TypeInv

(* The types, and the one refresh in flight for each client, hold throughout. *)
LEMMA NextTypes == TypeInv /\ [Next]_vars => TypeInv'
<1> SUFFICES ASSUME TypeInv, [Next]_vars PROVE TypeInv'
  OBVIOUS
<1>1. ASSUME NEW c \in Calls, Begin(c) \/ SetExpired(c) \/ SignIn(c) \/ SetFails(c) PROVE TypeInv'
  BY <1>1, StartTypes
<1>2. ASSUME NEW c \in Calls, Step(c) PROVE TypeInv'
  BY <1>2, CallTypes, RefreshTypes DEF Step
<1>3. ASSUME NEW k \in Clients, PageGone(k) PROVE TypeInv'
  BY <1>3, PageGoneTypes
<1>4. CASE Expire
  <2>1. stored \in Session /\ stored' = [stored EXCEPT !.fresh = FALSE]
    BY <1>4 DEF Expire, TypeInv, TypeOK
  <2>2. stored' \in Session
    BY <2>1 DEF Session
  <2>3. UNCHANGED <<newest, pc, session, deferred, joined, settled, history, faults>>
    BY <1>4 DEF Expire, callVars, flightVars
  <2> QED BY <2>2, <2>3 DEF TypeInv, TypeOK, HasSession, SettledLate, SingleFlight, history
<1>5. CASE UNCHANGED vars
  BY <1>5 DEF vars, authVars, callVars, flightVars, history, TypeInv, TypeOK, HasSession,
     SettledLate, SingleFlight
<1> QED BY <1>1, <1>2, <1>3, <1>4, <1>5 DEF Next

(* The variables keep their types. *)
THEOREM TypeCorrect == Spec => []TypeOK
<1>1. TypeInv => TypeOK
  BY DEF TypeInv
<1> QED BY <1>1, InitTypes, NextTypes, PTL DEF Spec

(* A client has one refresh in flight, whatever fails and whoever joins. *)
THEOREM OneRefreshPerClient == Spec => []SingleFlight
<1>1. TypeInv => SingleFlight
  BY DEF TypeInv
<1> QED BY <1>1, InitTypes, NextTypes, PTL DEF Spec
-----------------------------------------------------------------------------
(* The stages in which a call no longer counts for the tokens. *)
Calm == {"refreshed", "remove", "removed", "logout", "leave", "left"} \cup Over

(* A token stays current as long as nobody redeems another one of its user
   with the lock. *)
LEMMA CurrentStays ==
    ASSUME NEW s \in Session, Current(s), lost \subseteq lost', loose \subseteq loose', spent' = spent,
           newest'[s.user] \in {newest[s.user], 0} \/ s.user \in lost' \cup loose'
    PROVE  \/ newest'[s.user] \in {0, s.gen} \/ s.user \in lost' \cup loose'
           \/ <<s.user, s.gen>> \in spent'
BY DEF Current

(* Calls that move to calm stages leave the tokens as they are, and none of
   them drops an answer unrecorded. *)
LEMMA CalmSteps ==
    ASSUME IInv, session' = session, stored' \in {stored, None},
           lost \subseteq lost', loose' = loose, spent' = spent,
           \A u \in Users : newest'[u] \in {newest[u], 0},
           \A c \in Calls :
               \/ pc'[c] = pc[c]
               \/ /\ InProgress(c) /\ pc'[c] \in Calm
                  /\ pc[c] = "answered" => session[c].user \in lost'
                  /\ pc[c] = "signIn" => pc'[c] \in {"done", "gone"},
           signedOut' =>
               signedOut \/ (stored' = None /\ \E c \in Locked : pc[c] = "leave")
    PROVE  TokenInv'
<1>1. \A c \in Calls :
          /\ pc'[c] \notin Calm => pc'[c] = pc[c]
          /\ pc'[c] \notin {"idle"} \cup Over => InProgress(c)
  BY DEF Calm, InProgress
<1>2. \A s \in Session :
          Current(s) => \/ newest'[s.user] \in {0, s.gen} \/ s.user \in lost' \cup loose'
                        \/ <<s.user, s.gen>> \in spent'
  BY CurrentStays DEF Session
<1>3. Locked \subseteq Calls
  BY DEF Locked
<1>4. Exclusive'
  BY <1>1, <1>3 DEF IInv, TokenInv, Exclusive, InProgress, Locked
<1>5. LooseFlight'
  BY <1>1 DEF IInv, TokenInv, LooseFlight, Calm, Over, Locked
<1>6. HeldIsCurrent'
  <2> SUFFICES ASSUME NEW c \in Calls, pc'[c] \in {"answered", "signIn"}
               PROVE  \/ newest'[session'[c].user] \in {0, session'[c].gen}
                      \/ session'[c].user \in lost' \cup loose'
                      \/ <<session'[c].user, session'[c].gen>> \in spent'
    BY DEF HeldIsCurrent, Current
  <2>1. pc'[c] = pc[c]
    BY <1>1 DEF Calm, Over
  <2>2. session[c] \in Session /\ Current(session[c])
    BY <2>1 DEF IInv, TokenInv, HeldIsCurrent, TypeInv, HasSession, Working, FlightStage
  <2> QED BY <1>2, <2>2
<1>7. ReadIsCurrent'
  <2> SUFFICES ASSUME NEW c \in Locked, KindOf[c] # "set",
                      pc'[c] \in {"read", "request", "refused"}, session'[c] # None
               PROVE  \/ newest'[session'[c].user] \in {0, session'[c].gen}
                      \/ session'[c].user \in lost' \cup loose'
                      \/ <<session'[c].user, session'[c].gen>> \in spent'
    BY DEF ReadIsCurrent, Current, Locked
  <2>1. pc'[c] = pc[c]
    BY <1>1, <1>3 DEF Calm, Over
  <2>2. session[c] \in Session /\ Current(session[c])
    BY <1>3, <2>1 DEF IInv, TokenInv, ReadIsCurrent, TypeInv, TypeOK
  <2> QED BY <1>2, <2>2
<1>8. StoredIsCurrent'
  <2> SUFFICES ASSUME stored' # None
               PROVE  \/ newest'[stored'.user] \in {0, stored'.gen}
                      \/ stored'.user \in lost' \cup loose'
                      \/ <<stored'.user, stored'.gen>> \in spent'
                      \/ \E c \in Calls :
                            /\ pc'[c] = "answered" /\ session'[c].user = stored'.user
                            /\ session'[c].gen = newest'[stored'.user]
    BY DEF StoredIsCurrent
  <2>1. stored' = stored /\ stored \in Session
    BY DEF IInv, TypeInv, TypeOK
  <2>2. CASE Current(stored)
    BY <1>2, <2>1, <2>2
  <2>3. CASE ~Current(stored)
    <3>1. PICK c \in Calls :
              /\ pc[c] = "answered" /\ session[c].user = stored.user
              /\ session[c].gen = newest[stored.user]
      BY <2>1, <2>3 DEF IInv, TokenInv, StoredIsCurrent, Current
    <3>2. newest'[stored.user] \in {newest[stored.user], 0}
      BY <2>1 DEF Session
    <3> QED BY <2>1, <3>1, <3>2
  <2> QED BY <2>2, <2>3
<1>9. SignInIsNew'
  BY <1>1 DEF IInv, TokenInv, SignInIsNew, Calm, Over, InProgress
<1>10. SignedOutForAll' /\ SignedOutStays'
  <2>1. CASE signedOut
    BY <1>1, <1>3, <2>1
       DEF IInv, TokenInv, SignedOutForAll, SignedOutStays, Calm, Over, Locked
  <2>2. CASE ~signedOut
    <3> SUFFICES ASSUME signedOut' PROVE SignedOutForAll' /\ SignedOutStays'
      BY DEF SignedOutForAll, SignedOutStays
    <3>1. stored' = None
      BY <2>2
    <3>2. PICK c \in Locked : pc[c] = "leave"
      BY <2>2
    <3> QED BY <1>1, <1>3, <3>1, <3>2
          DEF IInv, TokenInv, Exclusive, InProgress, SignedOutForAll, SignedOutStays, Calm, Over, Locked
  <2> QED BY <2>1, <2>2
<1> QED BY <1>4, <1>5, <1>6, <1>7, <1>8, <1>9, <1>10 DEF TokenInv

(* Every call but a sign-in takes the session it starts with from storage, from
   its argument or from a leader; none of these is a session yet to be made. *)
LEMMA StartTokens ==
    ASSUME IInv, NEW c \in Calls, Begin(c) \/ SetExpired(c) \/ SignIn(c)
    PROVE  TokenInv'
<1> USE DEF IInv
<1> DEFINE s == session'[c]
<1>1. /\ pc[c] = "idle" /\ pc' = [pc EXCEPT ![c] = pc'[c]]
      /\ session' = [session EXCEPT ![c] = s]
      /\ pc'[c] \in {"read", "joined", "request", "signIn"}
      /\ pc'[c] = "read" => KindOf[c] \notin {"set", "signIn"} /\ s = stored
      /\ pc'[c] \in {"joined", "request"} => KindOf[c] = "set" /\ s.user = UserOf[c]
      /\ pc'[c] = "signIn" =>
            /\ KindOf[c] \in {"set", "signIn"}
            /\ s.user = UserOf[c]
            /\ s.gen = newest[UserOf[c]] \/ <<UserOf[c], s.gen>> \in spent'
      /\ c \in Locked => LockFree
  BY DEF Begin, SetExpired, SignIn, CallRefreshToken, Go, TypeInv, TypeOK
<1>2. UNCHANGED <<newest, stored, lost, loose, signedOut>> /\ spent \subseteq spent'
  BY DEF Begin, SetExpired, SignIn, CallRefreshToken, authVars, history, Locked
<1>3. \A d \in Calls \ {c} : pc'[d] = pc[d] /\ session'[d] = session[d]
  BY <1>1 DEF TypeInv, TypeOK
<1>4. Exclusive'
  BY <1>1, <1>3 DEF TokenInv, Exclusive, LockFree, InProgress, Locked
<1>5. LooseFlight'
  BY <1>1, <1>2, <1>3 DEF TokenInv, LooseFlight, Locked
<1>6. HeldIsCurrent'
  BY <1>1, <1>2, <1>3 DEF TokenInv, HeldIsCurrent, Current
<1>7. ReadIsCurrent'
  <2>1. c \in Locked /\ pc'[c] = "read" /\ stored # None => Current(stored)
    BY <1>1 DEF TokenInv, StoredIsCurrent, Current, LooseFlight, LockFree, InProgress, Over
  <2> QED BY <1>1, <1>2, <1>3, <2>1 DEF TokenInv, ReadIsCurrent, Current, Locked
<1>8. StoredIsCurrent'
  BY <1>1, <1>2, <1>3 DEF TokenInv, StoredIsCurrent
<1>9. SignInIsNew'
  <2> SUFFICES ASSUME NEW d \in Calls
               PROVE  /\ pc'[d] = "signIn" =>
                            KindOf[d] \in {"set", "signIn"} /\ session'[d].user = UserOf[d]
                      /\ KindOf[d] = "signIn" =>
                            /\ pc'[d] \in {"idle", "signIn", "done", "gone"}
                            /\ pc'[d] \in {"idle", "signIn"} =>
                                  /\ stored' # None => stored'.user # UserOf[d]
                                  /\ \A e \in Calls \ {d} :
                                        session'[e] # None => session'[e].user # UserOf[d]
    BY DEF SignInIsNew
  <2>1. CASE d = c
    BY <1>1, <1>2, <1>3, <2>1 DEF TokenInv, SignInIsNew
  <2>2. CASE d # c
    <3>1. KindOf[d] = "signIn" /\ KindOf[c] \in {"set", "signIn"} => UserOf[c] # UserOf[d]
      BY <2>2, AuthSessionAssumption DEF AuthSessionAssumption
    <3> QED BY <1>1, <1>2, <1>3, <2>2, <3>1 DEF TokenInv, SignInIsNew
  <2> QED BY <2>1, <2>2
<1>10. SignedOutForAll' /\ SignedOutStays'
  BY <1>1, <1>2, <1>3 DEF TokenInv, SignedOutForAll, SignedOutStays, Locked
<1> QED BY <1>4, <1>5, <1>6, <1>7, <1>8, <1>9, <1>10 DEF TokenInv

(* A setSession that the server does not answer with a user has nothing in hand. *)
LEMMA SetFailsTokens ==
    ASSUME IInv, NEW c \in Calls, SetFails(c)
    PROVE  TokenInv'
<1> USE DEF IInv
<1>1. /\ pc[c] = "idle" /\ pc' = [pc EXCEPT ![c] = pc'[c]] /\ pc'[c] \in {"leave", "done"}
      /\ KindOf[c] = "set" /\ LockFree
      /\ UNCHANGED <<newest, stored, session, lost, loose, spent, signedOut>>
  BY DEF SetFails, Go, authVars, history, TypeInv, TypeOK
<1>2. \A d \in Calls \ {c} : pc'[d] = pc[d]
  BY <1>1 DEF TypeInv, TypeOK
<1>3. Exclusive'
  BY <1>1, <1>2 DEF TokenInv, Exclusive, LockFree, InProgress, Locked
<1>4. LooseFlight' /\ HeldIsCurrent' /\ ReadIsCurrent' /\ StoredIsCurrent'
  BY <1>1, <1>2
     DEF TokenInv, LooseFlight, HeldIsCurrent, ReadIsCurrent, StoredIsCurrent, Current, Locked
<1>5. SignInIsNew'
  BY <1>1, <1>2 DEF TokenInv, SignInIsNew
<1>6. SignedOutForAll' /\ SignedOutStays'
  BY <1>1, <1>2 DEF TokenInv, SignedOutForAll, SignedOutStays, Locked
<1> QED BY <1>3, <1>4, <1>5, <1>6 DEF TokenInv

(* Leading or joining a refresh of what was read: without the lock it is on record. *)
LEMMA RefreshStoredTokens ==
    ASSUME IInv, NEW c \in Calls, RefreshStored(c)
    PROVE  TokenInv'
<1> USE DEF IInv
<1>1. /\ pc[c] = "read" /\ session[c] \in Session
      /\ pc' = [pc EXCEPT ![c] = pc'[c]] /\ pc'[c] \in {"joined", "request"}
      /\ pc'[c] = "request" /\ c \notin Locked => session[c].user \in loose'
      /\ loose \subseteq loose'
      /\ UNCHANGED <<newest, stored, lost, spent, signedOut>>
  BY DEF RefreshStored, CallRefreshToken, Go, authVars, TypeInv, TypeOK
<1>2. session' = session
  BY DEF RefreshStored, CallRefreshToken, TypeInv, TypeOK
<1>3. InProgress(c)
  BY <1>1 DEF InProgress, Over
<1>4. \A d \in Calls \ {c} : pc'[d] = pc[d]
  BY <1>1 DEF TypeInv, TypeOK
<1>5. Exclusive'
  BY <1>1, <1>3, <1>4 DEF TokenInv, Exclusive, InProgress, Locked
<1>6. LooseFlight'
  BY <1>1, <1>2, <1>4 DEF TokenInv, LooseFlight, Locked
<1>7. HeldIsCurrent' /\ ReadIsCurrent' /\ StoredIsCurrent'
  BY <1>1, <1>2, <1>4
     DEF TokenInv, HeldIsCurrent, ReadIsCurrent, StoredIsCurrent, Current, Locked
<1>8. SignInIsNew'
  BY <1>1, <1>2, <1>4 DEF TokenInv, SignInIsNew
<1>9. SignedOutForAll' /\ SignedOutStays'
  BY <1>1, <1>2, <1>4 DEF TokenInv, SignedOutForAll, SignedOutStays, Locked
<1> QED BY <1>5, <1>6, <1>7, <1>8, <1>9 DEF TokenInv

(* A redeemed token: the call that redeemed it has the lock to itself, or its
   refresh is on record. *)
LEMMA RedeemTokens ==
    ASSUME IInv, NEW c \in Calls, Redeem(c)
    PROVE  TokenInv'
<1> USE DEF IInv
<1> DEFINE u == session[c].user
           s == session'[c]
<1>1. /\ pc[c] = "request" /\ session[c] \in Session /\ u \in Users /\ InProgress(c)
      /\ UNCHANGED <<stored, lost, loose, spent, signedOut>>
  BY DEF Redeem, history, TypeInv, HasSession, Working, FlightStage, InProgress, Over, Session
<1>2. CASE session[c].gen = newest[u]
  <2>1. /\ pc' = [pc EXCEPT ![c] = "answered"]
        /\ session' = [session EXCEPT ![c] = s]
        /\ s.user = u /\ s.gen = newest[u] + 1
        /\ newest' = [newest EXCEPT ![u] = @ + 1]
    <3> DEFINE r == [session[c] EXCEPT !.gen = @ + 1, !.fresh = TRUE]
    <3>1. /\ Go(c, "answered") /\ session' = [session EXCEPT ![c] = r]
          /\ newest' = [newest EXCEPT ![u] = @ + 1]
      BY <1>2 DEF Redeem
    <3>2. session[c].gen + 1 \in Nat
      BY <1>1 DEF Session
    <3>3. r.user = session[c].user /\ r.gen = session[c].gen + 1
      BY <1>1, <3>2, SessionWithToken
    <3>4. session'[c] = r /\ pc' = [pc EXCEPT ![c] = "answered"]
      BY <3>1 DEF Go, TypeInv, TypeOK
    <3> HIDE DEF r
    <3> QED BY <1>2, <3>1, <3>3, <3>4
  <2>2. \A d \in Calls \ {c} : pc'[d] = pc[d] /\ session'[d] = session[d]
    BY <2>1 DEF TypeInv, TypeOK
  <2>3. newest'[u] = newest[u] + 1 /\ \A v \in Users \ {u} : newest'[v] = newest[v]
    BY <1>1, <2>1 DEF TypeInv, TypeOK
  <2>4. \A d \in Locked \ {c} : InProgress(d) => u \in loose
    BY <1>1 DEF TokenInv, Exclusive, LooseFlight, Locked
  <2>5. Exclusive'
    BY <1>1, <2>1, <2>2 DEF TokenInv, Exclusive, InProgress, Locked
  <2>6. LooseFlight'
    BY <1>1, <2>1, <2>2 DEF TokenInv, LooseFlight, Locked
  <2>7. HeldIsCurrent'
    <3> SUFFICES ASSUME NEW d \in Calls, pc'[d] \in {"answered", "signIn"}
                 PROVE  \/ newest'[session'[d].user] \in {0, session'[d].gen}
                        \/ session'[d].user \in lost' \cup loose'
                        \/ <<session'[d].user, session'[d].gen>> \in spent'
      BY DEF HeldIsCurrent, Current
    <3>1. CASE d = c
      BY <2>1, <2>3, <3>1
    <3>2. CASE d # c
      <4>1. pc[d] \in {"answered", "signIn"} /\ session'[d] = session[d] /\ InProgress(d)
        BY <2>2, <3>2 DEF InProgress, Over
      <4>2. session[d] \in Session /\ session[d].user \in Users /\ Current(session[d])
        BY <4>1 DEF TokenInv, HeldIsCurrent, TypeInv, HasSession, Working, FlightStage, Session
      <4>3. session[d].user = u => u \in loose
        <5>1. CASE d \in Locked
          BY <2>4, <3>2, <4>1, <5>1
        <5>2. CASE d \notin Locked /\ pc[d] = "answered"
          BY <5>2 DEF TokenInv, LooseFlight
        <5>3. CASE d \notin Locked /\ pc[d] = "signIn"
          BY <1>1, <3>2, <5>3, NoneIsNoSession DEF TokenInv, SignInIsNew, Locked
        <5> QED BY <4>1, <5>1, <5>2, <5>3
      <4> QED BY <1>1, <2>3, <4>1, <4>2, <4>3 DEF Current
    <3> QED BY <3>1, <3>2
  <2>8. ReadIsCurrent'
    <3> SUFFICES ASSUME NEW d \in Locked, KindOf[d] # "set",
                        pc'[d] \in {"read", "request", "refused"}, session'[d] # None
                 PROVE  \/ newest'[session'[d].user] \in {0, session'[d].gen}
                        \/ session'[d].user \in lost' \cup loose'
                        \/ <<session'[d].user, session'[d].gen>> \in spent'
      BY DEF ReadIsCurrent, Current, Locked
    <3>1. d \in Calls \ {c}
      BY <1>1, <2>1 DEF Locked, TypeInv, TypeOK
    <3>2. /\ pc[d] \in {"read", "request", "refused"} /\ session'[d] = session[d]
          /\ InProgress(d) /\ session[d] \in Session
      BY <2>2, <3>1 DEF InProgress, Over, TypeInv, TypeOK
    <3>3. session[d].user \in Users /\ Current(session[d]) /\ u \in loose
      BY <2>4, <3>1, <3>2 DEF TokenInv, ReadIsCurrent, Session
    <3> QED BY <1>1, <2>3, <3>2, <3>3 DEF Current
  <2>9. StoredIsCurrent'
    <3> SUFFICES ASSUME stored # None, stored.user # u
                 PROVE  \/ newest'[stored.user] \in {0, stored.gen}
                        \/ stored.user \in lost \cup loose
                        \/ <<stored.user, stored.gen>> \in spent
                        \/ \E d \in Calls :
                              /\ pc'[d] = "answered" /\ session'[d].user = stored.user
                              /\ session'[d].gen = newest'[stored.user]
      BY <1>1, <2>1, <2>3 DEF StoredIsCurrent, TypeInv, TypeOK
    <3>1. stored.user \in Users
      BY DEF TypeInv, TypeOK, Session
    <3> QED BY <1>1, <2>2, <2>3, <3>1 DEF TokenInv, StoredIsCurrent
  <2>10. SignInIsNew'
    BY <1>1, <2>1, <2>2, NoneIsNoSession DEF TokenInv, SignInIsNew
  <2>11. SignedOutForAll' /\ SignedOutStays'
    BY <1>1, <2>1, <2>2, NoneIsNoSession DEF TokenInv, SignedOutForAll, SignedOutStays, Locked
  <2> QED BY <2>5, <2>6, <2>7, <2>8, <2>9, <2>10, <2>11 DEF TokenInv
<1>3. CASE session[c].gen # newest[u]
  <2>1. pc' = [pc EXCEPT ![c] = "refused"] /\ session' = session /\ newest' = newest
    BY <1>3 DEF Redeem, Go
  <2>2. \A d \in Calls \ {c} : pc'[d] = pc[d]
    BY <2>1 DEF TypeInv, TypeOK
  <2>3. Exclusive'
    BY <1>1, <2>1, <2>2 DEF TokenInv, Exclusive, InProgress, Locked
  <2>4. LooseFlight' /\ HeldIsCurrent' /\ ReadIsCurrent'
    BY <1>1, <2>1, <2>2 DEF TokenInv, LooseFlight, HeldIsCurrent, ReadIsCurrent, Current, Locked
  <2>5. StoredIsCurrent' /\ SignInIsNew'
    BY <1>1, <2>1, <2>2 DEF TokenInv, StoredIsCurrent, SignInIsNew
  <2>6. SignedOutForAll' /\ SignedOutStays'
    BY <1>1, <2>1, <2>2 DEF TokenInv, SignedOutForAll, SignedOutStays, Locked
  <2> QED BY <2>3, <2>4, <2>5, <2>6 DEF TokenInv
<1> QED BY <1>2, <1>3

(* Another attempt, after a failure or a lost answer, which is on record. *)
LEMMA RetryTokens ==
    ASSUME IInv, NEW c \in Calls, Retry(c)
    PROVE  TokenInv'
<1> USE DEF IInv
<1> DEFINE u == session[c].user
<1>1. /\ pc[c] \in {"request", "refused", "answered"} /\ session[c] \in Session
      /\ pc' = [pc EXCEPT ![c] = "request"] /\ InProgress(c)
      /\ session' = [session EXCEPT ![c] = session'[c]] /\ session'[c].user = u
      /\ UNCHANGED <<newest, stored, loose, spent, signedOut>>
  <2>1. pc[c] \in {"request", "refused", "answered"} /\ pc' = [pc EXCEPT ![c] = "request"]
        /\ UNCHANGED <<newest, stored, loose, spent, signedOut>>
    BY DEF Retry, Go, authVars
  <2>2. session[c] \in Session /\ InProgress(c)
    BY <2>1 DEF TypeInv, HasSession, Working, FlightStage, InProgress, Over
  <2>3. CASE session' = session
    BY <2>1, <2>2, <2>3 DEF TypeInv, TypeOK
  <2>4. CASE /\ pc[c] = "answered"
             /\ session' = [session EXCEPT ![c] = [session[c] EXCEPT !.gen = @ - 1, !.fresh = FALSE]]
    <3>1. session[c].gen - 1 \in Nat
      BY <2>2, <2>4 DEF TypeInv, HasSession, Session
    <3> DEFINE r == [session[c] EXCEPT !.gen = @ - 1, !.fresh = FALSE]
    <3>2. session'[c] = r
      BY <2>4 DEF TypeInv, TypeOK
    <3>3. r.user = session[c].user
      BY <2>2, <3>1, SessionWithToken
    <3>4. session' = [session EXCEPT ![c] = r]
      BY <2>4
    <3> HIDE DEF r
    <3> QED BY <2>1, <2>2, <3>2, <3>3, <3>4
  <2> QED BY <2>1, <2>3, <2>4 DEF Retry
<1>2. \A d \in Calls \ {c} : pc'[d] = pc[d] /\ session'[d] = session[d]
  BY <1>1 DEF TypeInv, TypeOK
<1>3. /\ lost \subseteq lost'
      /\ \/ pc[c] # "answered" /\ session' = session
         \/ u \in lost'
  BY DEF Retry
<1>4. Exclusive'
  BY <1>1, <1>2 DEF TokenInv, Exclusive, InProgress, Locked
<1>5. LooseFlight'
  BY <1>1, <1>2 DEF TokenInv, LooseFlight, Locked, TypeInv, TypeOK
<1>6. HeldIsCurrent'
  BY <1>1, <1>2, <1>3 DEF TokenInv, HeldIsCurrent, Current, TypeInv, TypeOK
<1>7. ReadIsCurrent'
  BY <1>1, <1>2, <1>3, NoneIsNoSession
     DEF TokenInv, ReadIsCurrent, Current, Locked, TypeInv, TypeOK
<1>8. StoredIsCurrent'
  BY <1>1, <1>2, <1>3 DEF TokenInv, StoredIsCurrent, TypeInv, TypeOK
<1>9. SignInIsNew'
  BY <1>1, <1>2, NoneIsNoSession DEF TokenInv, SignInIsNew, TypeInv, TypeOK
<1>10. SignedOutForAll' /\ SignedOutStays'
  BY <1>1, <1>2, NoneIsNoSession
     DEF TokenInv, SignedOutForAll, SignedOutStays, Locked, TypeInv, TypeOK
<1> QED BY <1>4, <1>5, <1>6, <1>7, <1>8, <1>9, <1>10 DEF TokenInv

(* What is saved is current, whoever saves it, and after a sign-out only a refresh
   on record saves anything. *)
LEMMA SaveTokens ==
    ASSUME IInv, NEW c \in Calls, SaveSignIn(c) \/ SaveRefreshed(c)
    PROVE  TokenInv'
<1> USE DEF IInv
<1>1. /\ pc[c] \in {"signIn", "answered"} /\ session[c] \in Session
      /\ InProgress(c) /\ Current(session[c])
  BY DEF SaveSignIn, SaveRefreshed, TypeInv, HasSession, Working, FlightStage, InProgress, Over,
     TokenInv, HeldIsCurrent
<1>2. /\ pc' = [pc EXCEPT ![c] = pc'[c]]
      /\ pc'[c] = IF pc[c] = "signIn" THEN "done" ELSE "refreshed"
      /\ stored' = session[c]
      /\ signedOut' = (signedOut /\ pc[c] = "answered" /\ KindOf[c] # "set")
      /\ UNCHANGED <<newest, session, lost, loose, spent>>
  BY DEF SaveSignIn, SaveRefreshed, Go, TypeInv, TypeOK
<1>3. \A d \in Calls \ {c} : pc'[d] = pc[d]
  BY <1>2 DEF TypeInv, TypeOK
<1>4. Exclusive' /\ LooseFlight'
  BY <1>1, <1>2, <1>3 DEF TokenInv, Exclusive, LooseFlight, InProgress, Locked
<1>5. HeldIsCurrent' /\ ReadIsCurrent'
  BY <1>1, <1>2, <1>3 DEF TokenInv, HeldIsCurrent, ReadIsCurrent, Current, Locked
<1>6. StoredIsCurrent'
  BY <1>1, <1>2 DEF StoredIsCurrent, Current
<1>7. SignInIsNew'
  BY <1>1, <1>2, <1>3, NoneIsNoSession DEF TokenInv, SignInIsNew
<1>8. SignedOutForAll'
  BY <1>1, <1>2, <1>3 DEF TokenInv, SignedOutForAll, Locked
<1>9. SignedOutStays'
  <2> SUFFICES ASSUME signedOut' PROVE session[c].user \in loose
    BY <1>2 DEF SignedOutStays
  <2>1. signedOut /\ pc[c] = "answered" /\ KindOf[c] # "set"
    BY <1>2
  <2> QED BY <1>1, <2>1, NoneIsNoSession DEF TokenInv, SignedOutForAll, LooseFlight
<1> QED BY <1>4, <1>5, <1>6, <1>7, <1>8, <1>9 DEF TokenInv

(* A call that joined takes the leader's session, and is done with tokens. *)
LEMMA ResumeTokens ==
    ASSUME IInv, NEW c \in Calls, Resume(c)
    PROVE  TokenInv'
<1> USE DEF IInv
<1> DEFINE leader == joined[c]
<1>1. /\ pc[c] = "joined" /\ settled[leader] # "pending" /\ leader \in Calls
      /\ pc' = [pc EXCEPT ![c] = pc'[c]]
      /\ pc'[c] \in {"logout", "leave", "done"}
      /\ session' = [session EXCEPT ![c] = session[leader]]
      /\ UNCHANGED <<newest, stored, lost, loose, spent, signedOut>>
  BY AfterRefreshStages
     DEF Resume, Go, authVars, history, TypeInv, TypeOK, SettledLate
<1>2. \A d \in Calls \ {c} : pc'[d] = pc[d] /\ session'[d] = session[d]
  BY <1>1 DEF TypeInv, TypeOK
<1>3. InProgress(c) /\ pc[leader] \notin {"idle", "signIn"}
  BY <1>1 DEF InProgress, Over, TypeInv, SettledLate, Late
<1>4. session'[c] = session[leader]
  BY <1>1 DEF TypeInv, TypeOK
<1>5. Exclusive'
  BY <1>1, <1>2, <1>3 DEF TokenInv, Exclusive, InProgress, Locked
<1>6. LooseFlight' /\ HeldIsCurrent' /\ ReadIsCurrent'
  BY <1>1, <1>2
     DEF TokenInv, LooseFlight, HeldIsCurrent, ReadIsCurrent, Current, Locked
<1>7. StoredIsCurrent'
  BY <1>1, <1>2 DEF TokenInv, StoredIsCurrent
<1>8. SignInIsNew'
  BY <1>1, <1>2, <1>3, <1>4 DEF TokenInv, SignInIsNew
<1>9. SignedOutForAll' /\ SignedOutStays'
  BY <1>1, <1>2 DEF TokenInv, SignedOutForAll, SignedOutStays, Locked
<1> QED BY <1>5, <1>6, <1>7, <1>8, <1>9 DEF TokenInv

(* The other steps of a call move it to a calm stage. *)
LEMMA CalmTokens ==
    ASSUME IInv, NEW c \in Calls,
           \/ UseStored(c) \/ GiveUp(c) \/ SaveFails(c) \/ NotifyRefreshed(c)
           \/ Remove(c) \/ NotifyRemoved(c) \/ RemoveFails(c)
           \/ Logout(c) \/ Leave(c) \/ NotifyLeft(c)
    PROVE  TokenInv'
<1> DEFINE stage == pc'[c]
<1>1. /\ session' = session /\ stored' \in {stored, None}
      /\ lost \subseteq lost' /\ loose' = loose /\ spent' = spent
  BY DEF UseStored, GiveUp, SaveFails, NotifyRefreshed, Remove, NotifyRemoved, RemoveFails,
     Logout, Leave, NotifyLeft, authVars, history
<1>2. pc[c] \in {"read", "request", "answered", "refused", "refreshed", "remove", "removed",
                 "logout", "leave", "left"}
  BY DEF UseStored, GiveUp, SaveFails, NotifyRefreshed, Remove, NotifyRemoved, RemoveFails,
     Logout, Leave, NotifyLeft
<1>3. \A u \in Users : newest'[u] \in {newest[u], 0}
  <2>1. CASE Logout(c)
    BY <2>1 DEF Logout, IInv, TypeInv, TypeOK
  <2>2. CASE ~Logout(c)
    BY <2>2 DEF UseStored, GiveUp, SaveFails, NotifyRefreshed, Remove, NotifyRemoved,
       RemoveFails, Leave, NotifyLeft, authVars
  <2> QED BY <2>1, <2>2
<1>4. pc' = [pc EXCEPT ![c] = stage] /\ stage \in Calm
  <2>1. \E s \in {"done", "leave", "logout", "remove", "removed", "failed", "left"} : Go(c, s)
    BY AfterRefreshStages
       DEF UseStored, GiveUp, SaveFails, NotifyRefreshed, Remove, NotifyRemoved, RemoveFails,
           Logout, Leave, NotifyLeft, Settle
  <2> QED BY <2>1 DEF Go, Calm, Over, IInv, TypeInv, TypeOK
<1>5. pc[c] = "answered" => session[c].user \in lost'
  BY DEF UseStored, GiveUp, SaveFails, NotifyRefreshed, Remove, NotifyRemoved, RemoveFails,
     Logout, Leave, NotifyLeft
<1>6. signedOut' => signedOut \/ (stored' = None /\ \E d \in Locked : pc[d] = "leave")
  <2>1. CASE Leave(c)
    BY <2>1 DEF Leave, Locked
  <2>2. CASE ~Leave(c)
    BY <2>2 DEF UseStored, GiveUp, SaveFails, NotifyRefreshed, Remove, NotifyRemoved,
       RemoveFails, Logout, NotifyLeft, history
  <2> QED BY <2>1, <2>2
<1>7. \A d \in Calls :
          \/ pc'[d] = pc[d]
          \/ /\ InProgress(d) /\ pc'[d] \in Calm
             /\ pc[d] = "answered" => session[d].user \in lost'
             /\ pc[d] = "signIn" => pc'[d] \in {"done", "gone"}
  <2> HIDE DEF stage
  <2> QED BY <1>2, <1>4, <1>5 DEF InProgress, Over, IInv, TypeInv, TypeOK
<1> QED BY <1>1, <1>3, <1>6, <1>7, CalmSteps

(* So do those of a page that closes. *)
LEMMA PageGoneTokens ==
    ASSUME IInv, NEW k \in Clients, PageGone(k)
    PROVE  TokenInv'
<1> DEFINE here == {c \in Calls : ClientOf[c] = k /\ InProgress(c)}
<1>1. /\ pc' = [c \in Calls |-> IF c \in here THEN "gone" ELSE pc[c]]
      /\ lost' = lost \cup
           {session[c].user : c \in {d \in here : pc[d] \in {"answered", "signIn"}}}
      /\ UNCHANGED <<newest, stored, session, loose, spent, signedOut>>
  BY DEF PageGone, authVars
<1>2. \A c \in Calls :
          \/ pc'[c] = pc[c]
          \/ /\ InProgress(c) /\ pc'[c] \in Calm
             /\ pc[c] = "answered" => session[c].user \in lost'
             /\ pc[c] = "signIn" => pc'[c] \in {"done", "gone"}
  BY <1>1 DEF Calm, Over
<1> QED BY <1>1, <1>2, CalmSteps

(* The tokens of all users are accounted for in every reachable state. *)
LEMMA NextInv == IInv /\ [Next]_vars => IInv'
<1> SUFFICES ASSUME IInv, [Next]_vars PROVE TokenInv'
  BY NextTypes DEF IInv
<1>1. ASSUME NEW c \in Calls, Begin(c) \/ SetExpired(c) \/ SignIn(c) \/ SetFails(c) PROVE TokenInv'
  BY <1>1, StartTokens, SetFailsTokens
<1>2. ASSUME NEW c \in Calls, Step(c) PROVE TokenInv'
  BY <1>2, CalmTokens, RefreshStoredTokens, RedeemTokens, RetryTokens, SaveTokens, ResumeTokens
     DEF Step
<1>3. ASSUME NEW k \in Clients, PageGone(k) PROVE TokenInv'
  BY <1>3, PageGoneTokens
<1>4. CASE Expire
  <2>1. stored \in Session /\ stored # None /\ stored' = [stored EXCEPT !.fresh = FALSE]
    BY <1>4 DEF Expire, IInv, TypeInv, TypeOK
  <2>2. stored'.user = stored.user /\ stored'.gen = stored.gen
    BY <2>1 DEF Session
  <2>3. UNCHANGED <<newest, pc, session, lost, loose, spent, signedOut>>
    BY <1>4 DEF Expire, callVars, history
  <2> QED BY <2>1, <2>2, <2>3
        DEF IInv, TokenInv, Exclusive, InProgress, LooseFlight, HeldIsCurrent, ReadIsCurrent,
            StoredIsCurrent, Current, SignInIsNew, SignedOutForAll, SignedOutStays
<1>5. CASE UNCHANGED vars
  BY <1>5 DEF vars, authVars, callVars, history, IInv, TokenInv, Exclusive, InProgress,
     LooseFlight, HeldIsCurrent, ReadIsCurrent, StoredIsCurrent, Current, SignInIsNew,
     SignedOutForAll, SignedOutStays
<1> QED BY <1>1, <1>2, <1>3, <1>4, <1>5 DEF Next

(* Nobody works with a session at the start, and storage holds first tokens. *)
LEMMA InitInv == Init => IInv
<1> SUFFICES ASSUME Init PROVE TokenInv
  BY InitTypes DEF IInv
<1>1. Exclusive /\ LooseFlight /\ HeldIsCurrent /\ ReadIsCurrent
  BY DEF Init, Exclusive, InProgress, LooseFlight, HeldIsCurrent, ReadIsCurrent, Locked
<1>2. stored # None => /\ stored.user \in Users \ NewUsers
                       /\ stored.gen = 1 /\ newest[stored.user] = 1
  BY DEF Init
<1>3. StoredIsCurrent
  BY <1>2 DEF StoredIsCurrent
<1>4. SignInIsNew
  BY <1>2 DEF Init, SignInIsNew, NewUsers
<1>5. SignedOutForAll /\ SignedOutStays
  BY DEF Init, SignedOutForAll, SignedOutStays
<1> QED BY <1>1, <1>3, <1>4, <1>5 DEF TokenInv

(* The inductive invariant holds throughout. *)
LEMMA Invariance == Spec => []IInv
BY InitInv, NextInv, PTL DEF Spec

(* Rotation loses no session but by a lost answer, by a refresh outside the lock, or by a token that
   had been redeemed when setSession saved it beside a good access token. *)
THEOREM StorageIsCurrent == Spec => []StoredIsCurrent
<1>1. IInv => StoredIsCurrent
  BY DEF IInv, TokenInv
<1> QED BY <1>1, Invariance, PTL

(* A call that has the lock presents no token that was redeemed before, but for
   the same three causes, of which the last is the presented token's own. *)
THEOREM NoReuseUnderTheLock == Spec => []ReuseHasCause
<1>1. IInv => ReuseHasCause
  <2> SUFFICES ASSUME IInv, NEW c \in Locked, pc[c] = "request", KindOf[c] # "set"
               PROVE  \/ newest[session[c].user] \in {0, session[c].gen}
                      \/ session[c].user \in lost \cup loose
                      \/ <<session[c].user, session[c].gen>> \in spent
    BY DEF ReuseHasCause
  <2>1. session[c] # None
    BY NoneIsNoSession DEF IInv, TypeInv, HasSession, Working, FlightStage, Locked
  <2> QED BY <2>1 DEF IInv, TokenInv, ReadIsCurrent, Current
<1> QED BY <1>1, Invariance, PTL

(* No call that has the lock brings back a session after a sign-out. *)
THEOREM SignOutIsFinal == Spec => []SignedOutStays
<1>1. IInv => SignedOutStays
  BY DEF IInv, TokenInv
<1> QED BY <1>1, Invariance, PTL
=============================================================================
