---------------------------- MODULE AuthApiProofs ----------------------------
(***************************************************************************)
(* Proofs about AuthApi, for any number of calls: its types, what the      *)
(* subscribers know of the storage at the end of a call, and which code    *)
(* can be redeemed.  A caller's steps are read from the end: what is still *)
(* to do determines what has been done.                                    *)
(***************************************************************************)
EXTENDS AuthApi, SequenceTheorems, FiniteSetTheorems, TLAPS

\* Events that tell of the caller's session; SIGNED_OUT tells of none.
Arrival == Event \ {"SIGNED_OUT"}
Change == {"save", "remove", "recover"}

\* What comes before and after what, in the steps that a caller has left.
Ordered(steps) ==
    /\ \A i \in 1..Len(steps) :
          /\ steps[i] = "remove" => i + 1 \in 1..Len(steps) /\ steps[i + 1] = "SIGNED_OUT"
          /\ steps[i] = "recover" => i + 1 \in 1..Len(steps) /\ steps[i + 1] \in Arrival
          /\ steps[i] = "save" =>
                \/ i + 1 \in 1..Len(steps) /\ steps[i + 1] \in Arrival
                \/ i + 2 \in 1..Len(steps) /\ steps[i + 1] = "unlock" /\ steps[i + 2] \in Arrival
    /\ \A i \in 1..Len(steps) : i - 1 \in 1..Len(steps) =>
          /\ steps[i] = "forget" => steps[i - 1] \in {"exchange", "SIGNED_OUT"}
          /\ steps[i] = "exchange" => steps[i - 1] = "take"
          /\ steps[i] = "SIGNED_OUT" => steps[i - 1] = "remove"
          /\ steps[i] \in Arrival =>
                \/ steps[i - 1] \in {"save", "recover"}
                \/ steps[i - 1] = "unlock" /\ (i - 2 \in 1..Len(steps) => steps[i - 2] = "save")
    /\ \A i, j \in 1..Len(steps) :
          steps[i] \in Change /\ steps[j] \in Change /\ i < j =>
              steps[i] = "save" /\ steps[j] = "save" /\ j = i + 2
    /\ \A i, j \in 1..Len(steps) :
          steps[i] \in Event /\ steps[j] \in Change /\ i < j => steps[j] = "save" /\ j = i + 1

\* Steps as they begin: nothing is told or forgotten before it has changed, nor exchanged before the
\* verifier is taken.
WellBegun(steps) ==
    /\ Ordered(steps)
    /\ 1 \in 1..Len(steps) => steps[1] \notin Event \cup {"forget", "exchange"}
    /\ 2 \in 1..Len(steps) => ~(steps[1] = "unlock" /\ steps[2] \in Event)

\* The steps that neither change nor tell nor forget anything.
Plain == {"detect", "init", "lock", "unlock", "invalid", "fail", "failKept", "load", "need", "needUser",
          "wallet", "ask", "askUser", "askSession", "askMaybe", "askRefresh", "askLogout", "verifier",
          "take", "exchange", "check"}
StepName == Plain \cup Change \cup Event \cup {"forget"}

Without(steps, one) == \A i \in 1..Len(steps) : steps[i] # one

\* Steps that tell of a change made already; that are about to save, at once or once they have told of
\* what was saved before; that forget the verifier at once, or once they have told.
Tells(steps) ==
    /\ \E i \in 1..Len(steps) : steps[i] \in Event
    /\ \A i \in 1..Len(steps) : steps[i] \notin Change
Saves(steps) ==
    \/ 1 \in 1..Len(steps) /\ steps[1] = "save"
    \/ 2 \in 1..Len(steps) /\ steps[1] \in Event /\ steps[2] = "save"
Forgets(steps) ==
    /\ 1 \in 1..Len(steps) /\ steps[1] \in {"forget", "SIGNED_OUT"}
    /\ \E i \in 1..Len(steps) : steps[i] = "forget"
SignsOut(steps) == \E i \in 1..Len(steps) : steps[i] = "SIGNED_OUT"

\* What a caller that tells is going to tell: with an arrival its own session.
Announced(c) == IF SignsOut(todo[c]) THEN None ELSE held[c]

StepsOrdered == todo \in [Caller -> Seq(StepName)] /\ \A c \in Caller : Ordered(todo[c])
OneHolder == holders \subseteq Caller /\ \A c, d \in holders : c = d

\* A flow that began has its verifier, or is rightly without it.
VerifierKept ==
    /\ Earlier \in begun /\ \A f \in begun : f = verifier \/ f \in spoiled
    /\ \A c \in Caller : Forgets(todo[c]) => begun \subseteq spoiled

\* So has one whose code a caller exchanges.
CodeKept ==
    /\ \A c \in Call : taken[c] = code[c] \/ code[c] \in spoiled
    /\ \/ taken[Page] = code[Page] \/ code[Page] \in spoiled
       \/ At(Page, "take") \/ Without(todo[Page], "exchange")
    /\ lost \subseteq spoiled

\* Subscribers have been told of the session in storage, or somebody is going to tell them.
WillBeTold ==
    ~crossed =>
        /\ \A c \in Caller : Tells(todo[c]) => Announced(c) = stored
        /\ told = stored \/ \E c \in Caller : Tells(todo[c]) \/ Saves(todo[c])

\* Every variable but the steps and the holders of the lock.
Kept ==
    /\ flowType \in {"pkce", "implicit"}
    /\ stored \in Session \cup {None} /\ told \in Session \cup {None}
    /\ verifier \in Flow \cup {None}
    /\ held \in [Caller -> Session \cup {None}]
    /\ taken \in [Caller -> Flow \cup {None}] /\ code \in [Caller -> Flow \cup {None}]
    /\ result \in [Caller -> {"none", "ok", "error", "thrown"}]
    /\ begun \in SUBSET Flow /\ used \in SUBSET Flow /\ spoiled \in SUBSET Flow
    /\ lost \in SUBSET Flow /\ crossed \in BOOLEAN

\* The constructor's call begins no flow; who is at an exchange has a code.
Equipped ==
    /\ Without(todo[Page], "verifier")
    /\ \A c \in Caller : At(c, "exchange") => code[c] \in Flow

ApiInv == Equipped /\ StepsOrdered /\ OneHolder /\ VerifierKept /\ CodeKept /\ WillBeTold /\ Kept
-----------------------------------------------------------------------------
LEMMA TellsOf == ASSUME NEW e \in Arrival PROVE WellBegun(<<"save", e>>) /\ <<"save", e>> \in Seq(StepName)
BY DEF Arrival, Event, Change, Ordered, WellBegun, StepName

LEMMA Gone == WellBegun(SessionGone) /\ SessionGone \in Seq(StepName)
BY DEF SessionGone, Arrival, Event, Change, Ordered, WellBegun, StepName

LEMMA Exchanging ==
    LET p == <<"take", "exchange", "forget", "check">> IN WellBegun(p) /\ p \in Seq(Plain \cup {"forget"})
BY DEF Arrival, Event, Change, Ordered, WellBegun, Plain

LEMMA Twice ==
    ASSUME NEW s, s = SignedIn \o <<"save", "unlock", "SIGNED_IN">>
    PROVE  WellBegun(s) /\ s \in Seq(StepName)
<1> DEFINE p == <<"save", "SIGNED_IN">>
           q == <<"save", "unlock", "SIGNED_IN">>
           t == <<"save", "SIGNED_IN", "save", "unlock", "SIGNED_IN">>
<1>1. p \in Seq(StepName) /\ q \in Seq(StepName) /\ t \in Seq(StepName)
  BY DEF StepName, Change, Event, Plain
<1>2. /\ s \in Seq(StepName) /\ Len(s) = Len(p) + Len(q)
      /\ \A i \in 1..(Len(p) + Len(q)) : s[i] = IF i <= Len(p) THEN p[i] ELSE q[i - Len(p)]
  BY <1>1, ConcatProperties DEF SignedIn
<1>3. Len(p) = 2 /\ Len(q) = 3 /\ Len(t) = 5
  OBVIOUS
<1>4. p[1] = "save" /\ p[2] = "SIGNED_IN" /\ q[1] = "save" /\ q[2] = "unlock" /\ q[3] = "SIGNED_IN"
  OBVIOUS
<1>5. /\ t[1] = "save" /\ t[2] = "SIGNED_IN" /\ t[3] = "save" /\ t[4] = "unlock" /\ t[5] = "SIGNED_IN"
  OBVIOUS
<1>6. WellBegun(t)
  BY DEF Arrival, Event, Change, Ordered, WellBegun
<1> HIDE DEF p, q, t
<1>7. Len(s) = 5
  BY <1>2, <1>3
<1>8. \A i \in 1..5 : s[i] = t[i]
  BY <1>2, <1>3, <1>4, <1>5
<1>9. s = t
  BY <1>1, <1>2, <1>3, <1>7, <1>8, SeqEqual
<1> QED BY <1>2, <1>6, <1>9

\* What neither changes nor tells anything may come before.
LEMMA QuietBefore ==
    ASSUME NEW p \in Seq(Plain \cup {"forget"}), WellBegun(p), NEW s \in Seq(StepName), WellBegun(s),
           NEW w, w = p \o s
    PROVE  w \in Seq(StepName) /\ WellBegun(w)
<1> DEFINE a == Len(p)
           b == Len(s)
<1>1. p \in Seq(StepName) /\ \A i \in 1..a : p[i] \notin Change \cup Event
  <2>1. Plain \cup {"forget"} \subseteq StepName /\ (Plain \cup {"forget"}) \cap (Change \cup Event) = {}
    BY DEF StepName, Plain, Change, Event
  <2>2. \A i \in 1..Len(p) : p[i] \in Plain \cup {"forget"}
    BY ElementOfSeq
  <2>3. p \in Seq(StepName)
    BY <2>1, SeqMonotonic
  <2> QED BY <2>1, <2>2, <2>3
<1>2. a \in Nat /\ b \in Nat
  BY LenProperties
<1>3. /\ w \in Seq(StepName) /\ Len(w) = a + b
      /\ \A i \in 1..(a + b) : w[i] = IF i <= a THEN p[i] ELSE s[i - a]
  BY <1>1, ConcatProperties
<1> HIDE DEF a, b
<1>4. \A i \in 1..a : w[i] = p[i] /\ i \in 1..Len(w)
  BY <1>2, <1>3
<1>5. \A i \in 1..Len(w) : i \notin 1..a => i - a \in 1..b /\ w[i] = s[i - a] /\ i > a
  BY <1>2, <1>3
<1>6. \A i \in 1..Len(w), j \in 1..b : i - a = j => w[i] = s[j]
  BY <1>2, <1>3
<1>7. ASSUME NEW i \in 1..Len(w)
      PROVE  /\ w[i] = "remove" => i + 1 \in 1..Len(w) /\ w[i + 1] = "SIGNED_OUT"
             /\ w[i] = "recover" => i + 1 \in 1..Len(w) /\ w[i + 1] \in Arrival
             /\ w[i] = "save" =>
                   \/ i + 1 \in 1..Len(w) /\ w[i + 1] \in Arrival
                   \/ i + 2 \in 1..Len(w) /\ w[i + 1] = "unlock" /\ w[i + 2] \in Arrival
  <2>1. CASE i \in 1..a
    BY <1>1, <1>4, <2>1 DEF Change
  <2>2. CASE i \notin 1..a
    <3> DEFINE j == i - a
    <3>1. j \in 1..b /\ w[i] = s[j]
      BY <1>5, <2>2
    <3>2. j + 1 \in 1..b => i + 1 \in 1..Len(w) /\ w[i + 1] = s[j + 1]
      <4> SUFFICES ASSUME j + 1 \in 1..b PROVE i + 1 \in 1..Len(w) /\ w[i + 1] = s[j + 1]
        OBVIOUS
      <4>1. i + 1 \in 1..Len(w) /\ i + 1 \notin 1..a /\ i + 1 - a = j + 1
        BY <1>2, <1>3, <2>2
      <4> HIDE DEF j
      <4> DEFINE m == i + 1
                 n == j + 1
      <4>2. m \in 1..Len(w) /\ n \in 1..b /\ m - a = n
        BY <1>2, <3>1, <4>1
      <4> HIDE DEF m, n
      <4>3. w[m] = s[n]
        BY <1>6, <4>2
      <4> QED BY <4>2, <4>3 DEF m, n
    <3>3. j + 2 \in 1..b => i + 2 \in 1..Len(w) /\ w[i + 2] = s[j + 2]
      <4> SUFFICES ASSUME j + 2 \in 1..b PROVE i + 2 \in 1..Len(w) /\ w[i + 2] = s[j + 2]
        OBVIOUS
      <4>1. i + 2 \in 1..Len(w) /\ i + 2 \notin 1..a /\ i + 2 - a = j + 2
        BY <1>2, <1>3, <2>2
      <4> HIDE DEF j
      <4> DEFINE m == i + 2
                 n == j + 2
      <4>2. m \in 1..Len(w) /\ n \in 1..b /\ m - a = n
        BY <1>2, <3>1, <4>1
      <4> HIDE DEF m, n
      <4>3. w[m] = s[n]
        BY <1>6, <4>2
      <4> QED BY <4>2, <4>3 DEF m, n
    <3>4. j + 2 \in 1..b => j + 1 \in 1..b
      BY <1>2, <3>1
    <3>5. /\ s[j] = "remove" => j + 1 \in 1..b /\ s[j + 1] = "SIGNED_OUT"
          /\ s[j] = "recover" => j + 1 \in 1..b /\ s[j + 1] \in Arrival
          /\ s[j] = "save" =>
                \/ j + 1 \in 1..b /\ s[j + 1] \in Arrival
                \/ j + 2 \in 1..b /\ s[j + 1] = "unlock" /\ s[j + 2] \in Arrival
      <4> HIDE DEF j
      <4> QED BY <3>1 DEF WellBegun, Ordered, b
    <3> DEFINE i1 == i + 1
               i2 == i + 2
               j1 == j + 1
               j2 == j + 2
    <3> HIDE DEF i1, i2, j1, j2, j
    <3>6. /\ s[j] = "remove" => j1 \in 1..b /\ s[j1] = "SIGNED_OUT"
          /\ s[j] = "recover" => j1 \in 1..b /\ s[j1] \in Arrival
          /\ s[j] = "save" =>
                \/ j1 \in 1..b /\ s[j1] \in Arrival
                \/ j2 \in 1..b /\ s[j1] = "unlock" /\ s[j2] \in Arrival
      BY <3>5 DEF j1, j2
    <3>7. /\ j1 \in 1..b => i1 \in 1..Len(w) /\ w[i1] = s[j1]
          /\ j2 \in 1..b => i2 \in 1..Len(w) /\ w[i2] = s[j2]
          /\ j2 \in 1..b => j1 \in 1..b
      BY <3>2, <3>3, <3>4 DEF j1, j2, i1, i2
    <3>8. /\ w[i] = "remove" => i1 \in 1..Len(w) /\ w[i1] = "SIGNED_OUT"
          /\ w[i] = "recover" => i1 \in 1..Len(w) /\ w[i1] \in Arrival
          /\ w[i] = "save" =>
                \/ i1 \in 1..Len(w) /\ w[i1] \in Arrival
                \/ i2 \in 1..Len(w) /\ w[i1] = "unlock" /\ w[i2] \in Arrival
      BY <3>1, <3>6, <3>7
    <3> QED BY <3>8 DEF i1, i2
  <2> QED BY <2>1, <2>2
<1>8. ASSUME NEW i \in 1..Len(w), i - 1 \in 1..Len(w)
      PROVE  /\ w[i] = "forget" => w[i - 1] \in {"exchange", "SIGNED_OUT"}
             /\ w[i] = "exchange" => w[i - 1] = "take"
             /\ w[i] = "SIGNED_OUT" => w[i - 1] = "remove"
             /\ w[i] \in Arrival =>
                   \/ w[i - 1] \in {"save", "recover"}
                   \/ w[i - 1] = "unlock" /\ (i - 2 \in 1..Len(w) => w[i - 2] = "save")
  <2>1. CASE i \in 1..a
    <3>1. i - 1 \in 1..a
      BY <1>2, <1>8, <2>1
    <3>2. w[i] = p[i] /\ w[i - 1] = p[i - 1]
      BY <1>4, <2>1, <3>1
    <3>3. w[i] \notin Event
      BY <1>1, <2>1, <3>2
    <3>4. (w[i] = "forget" => w[i - 1] \in {"exchange", "SIGNED_OUT"}) /\ (w[i] = "exchange" => w[i - 1] = "take")
      BY <2>1, <3>1, <3>2 DEF WellBegun, Ordered, a
    <3> QED BY <3>3, <3>4 DEF Arrival, Event
  <2>2. CASE i \notin 1..a
    <3> DEFINE j == i - a
    <3>1. j \in 1..b /\ w[i] = s[j] /\ j \in Nat
      BY <1>2, <1>5, <2>2
    <3>2. CASE j = 1
      <4>1. w[i] \notin Event \cup {"forget", "exchange"}
        BY <3>1, <3>2 DEF WellBegun, b
      <4> QED BY <4>1 DEF Arrival, Event
    <3>3. CASE j = 2
      <4>1. i - 1 \notin 1..a /\ i - 1 - a = j - 1 /\ j - 1 \in 1..b
        BY <1>2, <1>8, <3>1, <3>3
      <4>2. w[i - 1] = s[j - 1]
        BY <1>5, <1>8, <4>1
      <4>3. ~(s[1] = "unlock" /\ s[2] \in Event) /\ j - 1 = 1
        BY <3>1, <3>3 DEF WellBegun, b
      <4>4. s[j] \in Arrival => s[j - 1] \in {"save", "recover"}
        BY <3>1, <3>3, <4>1, <4>3 DEF WellBegun, Ordered, b, Arrival
      <4> HIDE DEF j
      <4> QED BY <3>1, <4>1, <4>2, <4>4 DEF WellBegun, Ordered, b
    <3>4. CASE j > 2
      <4>1. i - 1 \notin 1..a /\ i - 1 - a = j - 1 /\ j - 1 \in 1..b
        BY <1>2, <1>8, <3>1, <3>4
      <4>2. i - 2 \notin 1..a /\ i - 2 - a = j - 2 /\ j - 2 \in 1..b /\ i - 2 \in 1..Len(w)
        BY <1>2, <1>3, <1>8, <3>1, <3>4
      <4>3. w[i - 1] = s[j - 1] /\ w[i - 2] = s[j - 2]
        <5>1. w[i - 1] = s[i - 1 - a] /\ w[i - 2] = s[i - 2 - a]
          BY <1>5, <1>8, <4>1, <4>2
        <5> QED BY <4>1, <4>2, <5>1
      <4> HIDE DEF j
      <4> QED BY <3>1, <4>1, <4>2, <4>3 DEF WellBegun, Ordered, b
    <3>5. j = 1 \/ j = 2 \/ j > 2
      BY <3>1
    <3> HIDE DEF j
    <3> QED BY <3>2, <3>3, <3>4, <3>5
  <2> QED BY <2>1, <2>2
<1>9. ASSUME NEW i \in 1..Len(w), NEW j \in 1..Len(w), w[i] \in Change, w[j] \in Change, i < j
      PROVE  w[i] = "save" /\ w[j] = "save" /\ j = i + 2
  <2>1. i \notin 1..a /\ j \notin 1..a
    BY <1>1, <1>4, <1>9
  <2> DEFINE m == i - a
             n == j - a
  <2>2. m \in 1..b /\ n \in 1..b /\ w[i] = s[m] /\ w[j] = s[n]
    BY <1>5, <2>1
  <2>3. m < n /\ (n = m + 2 => j = i + 2)
    BY <1>2, <1>9, <2>2
  <2> HIDE DEF m, n
  <2> QED BY <1>9, <2>2, <2>3 DEF WellBegun, Ordered, b
<1>10. 1 \in 1..Len(w) => w[1] \notin Event \cup {"forget", "exchange"}
  <2> SUFFICES ASSUME 1 \in 1..Len(w) PROVE w[1] \notin Event \cup {"forget", "exchange"}
    OBVIOUS
  <2>1. CASE 1 \in 1..a
    BY <1>4, <2>1 DEF WellBegun, a
  <2>2. CASE 1 \notin 1..a
    <3>1. 1 - a = 1 /\ 1 \in 1..b /\ w[1] = s[1 - a]
      BY <1>2, <1>5, <2>2
    <3> QED BY <3>1 DEF WellBegun, b
  <2> QED BY <2>1, <2>2
<1>11. 2 \in 1..Len(w) => ~(w[1] = "unlock" /\ w[2] \in Event)
  <2> SUFFICES ASSUME 2 \in 1..Len(w) PROVE ~(w[1] = "unlock" /\ w[2] \in Event)
    OBVIOUS
  <2>1. CASE 2 \in 1..a
    BY <1>1, <1>4, <2>1
  <2>2. CASE a = 1
    <3>1. 2 \notin 1..a /\ 2 - a = 1
      BY <2>2
    <3>2. w[2] = s[1] /\ 1 \in 1..b
      BY <1>5, <3>1
    <3> QED BY <3>2 DEF WellBegun, b
  <2>3. CASE a = 0
    <3>1. 2 \notin 1..a /\ 2 - a = 2 /\ 1 \notin 1..a /\ 1 - a = 1 /\ 1 \in 1..Len(w)
      BY <1>3, <2>3
    <3>2. w[2] = s[2] /\ w[1] = s[1] /\ 2 \in 1..b
      BY <1>5, <3>1
    <3> QED BY <3>2 DEF WellBegun, b
  <2> QED BY <1>2, <2>1, <2>2, <2>3
<1>12. ASSUME NEW i \in 1..Len(w), NEW j \in 1..Len(w), w[i] \in Event, w[j] \in Change, i < j
       PROVE  w[j] = "save" /\ j = i + 1
  <2>1. i \notin 1..a /\ j \notin 1..a
    BY <1>1, <1>4, <1>12
  <2> DEFINE m == i - a
             n == j - a
  <2>2. m \in 1..b /\ n \in 1..b /\ w[i] = s[m] /\ w[j] = s[n]
    BY <1>5, <2>1
  <2>3. m < n /\ (n = m + 1 => j = i + 1)
    BY <1>2, <1>12, <2>2
  <2> HIDE DEF m, n
  <2> QED BY <1>12, <2>2, <2>3 DEF WellBegun, Ordered, b
<1>13. Ordered(w)
  <2> HIDE DEF a, b
  <2>1. \A i, j \in 1..Len(w) : w[i] \in Change /\ w[j] \in Change /\ i < j =>
            w[i] = "save" /\ w[j] = "save" /\ j = i + 2
    BY <1>9
  <2>2. \A i, j \in 1..Len(w) : w[i] \in Event /\ w[j] \in Change /\ i < j => w[j] = "save" /\ j = i + 1
    BY <1>12
  <2> QED BY <1>7, <1>8, <2>1, <2>2 DEF Ordered
<1> QED BY <1>3, <1>10, <1>11, <1>13 DEF WellBegun

LEMMA PlainAfter ==
    ASSUME NEW s \in Seq(StepName), WellBegun(s), NEW x \in Plain \ {"exchange"}, NEW w, w = s \o <<x>>
    PROVE  w \in Seq(StepName) /\ WellBegun(w)
<1> DEFINE b == Len(s)
           u == <<x>>
<1>1. b \in Nat /\ u \in Seq(StepName) /\ Len(u) = 1 /\ u[1] = x
  BY LenProperties DEF StepName
<1>2. /\ w \in Seq(StepName) /\ Len(w) = b + Len(u)
      /\ \A i \in 1..(b + Len(u)) : w[i] = IF i <= b THEN s[i] ELSE u[i - b]
  <2> HIDE DEF u
  <2> QED BY <1>1, ConcatProperties DEF u
<1>3. Len(w) = b + 1 /\ (\A i \in 1..b : w[i] = s[i]) /\ w[b + 1] = x
  <2> HIDE DEF b, u
  <2>1. b + 1 \in 1..(b + 1) /\ ~(b + 1 <= b) /\ b + 1 - b = 1
    BY <1>1
  <2> QED BY <1>1, <1>2, <2>1
<1>4. x \notin Change \cup Event \cup {"forget", "exchange"}
  BY DEF Plain, Change, Event
<1>5. \A i \in 1..Len(w) : i \in 1..b \/ i = b + 1
  BY <1>1, <1>3
<1>6. ASSUME NEW i \in 1..Len(w)
      PROVE  /\ w[i] = "remove" => i + 1 \in 1..Len(w) /\ w[i + 1] = "SIGNED_OUT"
             /\ w[i] = "recover" => i + 1 \in 1..Len(w) /\ w[i + 1] \in Arrival
             /\ w[i] = "save" =>
                   \/ i + 1 \in 1..Len(w) /\ w[i + 1] \in Arrival
                   \/ i + 2 \in 1..Len(w) /\ w[i + 1] = "unlock" /\ w[i + 2] \in Arrival
  <2>1. CASE i \in 1..b
    <3>1. w[i] = s[i] /\ 1..b \subseteq 1..Len(w)
      BY <1>1, <1>3, <2>1
    <3>2. (i + 1 \in 1..b => w[i + 1] = s[i + 1]) /\ (i + 2 \in 1..b => w[i + 2] = s[i + 2] /\ i + 1 \in 1..b)
      BY <1>1, <1>3, <2>1
    <3> QED BY <2>1, <3>1, <3>2 DEF WellBegun, Ordered, b
  <2>2. CASE i = b + 1
    BY <1>3, <1>4, <2>2 DEF Change
  <2> QED BY <1>5, <2>1, <2>2
<1>7. ASSUME NEW i \in 1..Len(w), i - 1 \in 1..Len(w)
      PROVE  /\ w[i] = "forget" => w[i - 1] \in {"exchange", "SIGNED_OUT"}
             /\ w[i] = "exchange" => w[i - 1] = "take"
             /\ w[i] = "SIGNED_OUT" => w[i - 1] = "remove"
             /\ w[i] \in Arrival =>
                   \/ w[i - 1] \in {"save", "recover"}
                   \/ w[i - 1] = "unlock" /\ (i - 2 \in 1..Len(w) => w[i - 2] = "save")
  <2>1. CASE i \in 1..b
    <3>1. w[i] = s[i] /\ w[i - 1] = s[i - 1] /\ i - 1 \in 1..b
      BY <1>1, <1>3, <1>7, <2>1
    <3>2. i - 2 \in 1..Len(w) => i - 2 \in 1..b /\ w[i - 2] = s[i - 2]
      BY <1>1, <1>3, <2>1
    <3> QED BY <2>1, <3>1, <3>2 DEF WellBegun, Ordered, b
  <2>2. CASE i = b + 1
    BY <1>3, <1>4, <2>2 DEF Arrival, Event
  <2> QED BY <1>5, <2>1, <2>2
<1>8. ASSUME NEW i \in 1..Len(w), NEW j \in 1..Len(w), w[i] \in Change, w[j] \in Change, i < j
      PROVE  w[i] = "save" /\ w[j] = "save" /\ j = i + 2
  <2>1. i \in 1..b /\ j \in 1..b
    BY <1>3, <1>4, <1>5, <1>8
  <2>2. w[i] = s[i] /\ w[j] = s[j]
    BY <1>3, <2>1
  <2> QED BY <1>8, <2>1, <2>2 DEF WellBegun, Ordered, b
<1>9. ASSUME NEW i \in 1..Len(w), NEW j \in 1..Len(w), w[i] \in Event, w[j] \in Change, i < j
       PROVE  w[j] = "save" /\ j = i + 1
  <2>1. i \in 1..b /\ j \in 1..b
    BY <1>3, <1>4, <1>5, <1>9
  <2>2. w[i] = s[i] /\ w[j] = s[j]
    BY <1>3, <2>1
  <2> QED BY <1>9, <2>1, <2>2 DEF WellBegun, Ordered, b
<1>10. Ordered(w)
  BY <1>6, <1>7, <1>8, <1>9 DEF Ordered
<1>11. 1 \in 1..Len(w) => w[1] \notin Event \cup {"forget", "exchange"}
  <2>1. CASE 1 \in 1..b
    BY <1>3, <2>1 DEF WellBegun, b
  <2>2. CASE b = 0
    BY <1>3, <1>4, <2>2
  <2> QED BY <1>1, <2>1, <2>2
<1>12. 2 \in 1..Len(w) => ~(w[1] = "unlock" /\ w[2] \in Event)
  <2>1. CASE 2 \in 1..b
    <3>1. 1 \in 1..b
      BY <1>1, <2>1
    <3> QED BY <1>3, <2>1, <3>1 DEF WellBegun, b
  <2>2. CASE b = 1
    BY <1>3, <1>4, <2>2
  <2>3. CASE b = 0
    BY <1>3, <2>3
  <2> QED BY <1>1, <2>1, <2>2, <2>3
<1> QED BY <1>2, <1>10, <1>11, <1>12 DEF WellBegun

LEMMA TailOrdered ==
    ASSUME NEW s \in Seq(StepName), s # <<>>, Ordered(s), NEW t, t = Tail(s)
    PROVE  /\ t \in Seq(StepName) /\ Ordered(t) /\ Len(s) \in Nat \ {0} /\ Len(t) = Len(s) - 1
           /\ \A i \in 1..Len(t) : t[i] = s[i + 1] /\ i + 1 \in 1..Len(s)
<1> DEFINE b == Len(s)
           l == Len(t)
<1>1. /\ t \in Seq(StepName) /\ b \in Nat \ {0} /\ l = b - 1
      /\ \A i \in 1..l : t[i] = s[i + 1]
  BY HeadTailProperties, EmptySeq
<1> HIDE DEF b, l
<1>2. l \in Nat /\ \A i \in 1..l : i + 1 \in 1..b
  BY <1>1
<1>3. ASSUME NEW i \in 1..l
      PROVE  /\ t[i] = "remove" => i + 1 \in 1..l /\ t[i + 1] = "SIGNED_OUT"
             /\ t[i] = "recover" => i + 1 \in 1..l /\ t[i + 1] \in Arrival
             /\ t[i] = "save" =>
                   \/ i + 1 \in 1..l /\ t[i + 1] \in Arrival
                   \/ i + 2 \in 1..l /\ t[i + 1] = "unlock" /\ t[i + 2] \in Arrival
  <2> DEFINE i1 == i + 1
             i2 == i + 2
             i3 == i + 3
  <2>1. i1 + 1 = i2 /\ i1 + 2 = i3 /\ i2 + 1 = i3
    OBVIOUS
  <2>2. /\ i2 \in 1..b => i1 \in 1..l
        /\ i3 \in 1..b => i2 \in 1..l /\ i1 \in 1..l
        /\ i1 \in 1..b
    BY <1>1, <1>2
  <2> HIDE DEF i1, i2, i3
  <2>3. t[i] = s[i1] /\ (i1 \in 1..l => t[i1] = s[i2]) /\ (i2 \in 1..l => t[i2] = s[i3])
    BY <1>1, <2>1 DEF i1
  <2>4. /\ s[i1] = "remove" => i2 \in 1..b /\ s[i2] = "SIGNED_OUT"
        /\ s[i1] = "recover" => i2 \in 1..b /\ s[i2] \in Arrival
        /\ s[i1] = "save" =>
              \/ i2 \in 1..b /\ s[i2] \in Arrival
              \/ i3 \in 1..b /\ s[i2] = "unlock" /\ s[i3] \in Arrival
    BY <2>1, <2>2 DEF Ordered, b
  <2>5. /\ t[i] = "remove" => i1 \in 1..l /\ t[i1] = "SIGNED_OUT"
        /\ t[i] = "recover" => i1 \in 1..l /\ t[i1] \in Arrival
        /\ t[i] = "save" =>
              \/ i1 \in 1..l /\ t[i1] \in Arrival
              \/ i2 \in 1..l /\ t[i1] = "unlock" /\ t[i2] \in Arrival
    BY <2>2, <2>3, <2>4
  <2> QED BY <2>5 DEF i1, i2
<1>4. ASSUME NEW i \in 1..l, i - 1 \in 1..l
      PROVE  /\ t[i] = "forget" => t[i - 1] \in {"exchange", "SIGNED_OUT"}
             /\ t[i] = "exchange" => t[i - 1] = "take"
             /\ t[i] = "SIGNED_OUT" => t[i - 1] = "remove"
             /\ t[i] \in Arrival =>
                   \/ t[i - 1] \in {"save", "recover"}
                   \/ t[i - 1] = "unlock" /\ (i - 2 \in 1..l => t[i - 2] = "save")
  <2> DEFINE n == i + 1
             m1 == i - 1
             m2 == i - 2
  <2>1. n \in 1..b /\ n - 1 = i /\ n - 2 = m1 /\ m1 + 1 = i /\ m2 + 1 = m1 /\ i \in 1..b /\ m1 \in 1..b
    BY <1>1, <1>2, <1>4
  <2> HIDE DEF n, m1, m2
  <2>2. m1 \in 1..l
    BY <1>4 DEF m1
  <2>3. t[i] = s[n] /\ t[m1] = s[i] /\ (m2 \in 1..l => t[m2] = s[m1])
    BY <1>1, <2>1, <2>2 DEF n
  <2>4. /\ s[n] = "forget" => s[i] \in {"exchange", "SIGNED_OUT"}
        /\ s[n] = "exchange" => s[i] = "take"
        /\ s[n] = "SIGNED_OUT" => s[i] = "remove"
        /\ s[n] \in Arrival =>
              \/ s[i] \in {"save", "recover"}
              \/ s[i] = "unlock" /\ (m1 \in 1..b => s[m1] = "save")
    BY <2>1 DEF Ordered, b
  <2>5. /\ t[i] = "forget" => t[m1] \in {"exchange", "SIGNED_OUT"}
        /\ t[i] = "exchange" => t[m1] = "take"
        /\ t[i] = "SIGNED_OUT" => t[m1] = "remove"
        /\ t[i] \in Arrival =>
              \/ t[m1] \in {"save", "recover"}
              \/ t[m1] = "unlock" /\ (m2 \in 1..l => t[m2] = "save")
    BY <2>1, <2>3, <2>4
  <2> QED BY <2>5 DEF m1, m2
<1>5. ASSUME NEW i \in 1..l, NEW j \in 1..l, t[i] \in Change, t[j] \in Change, i < j
      PROVE  t[i] = "save" /\ t[j] = "save" /\ j = i + 2
  <2> DEFINE m == i + 1
             n == j + 1
  <2>1. m \in 1..b /\ n \in 1..b /\ t[i] = s[m] /\ t[j] = s[n]
    BY <1>1, <1>2
  <2>2. m < n /\ (n = m + 2 => j = i + 2)
    BY <1>5
  <2> HIDE DEF m, n
  <2> QED BY <1>5, <2>1, <2>2 DEF Ordered, b
<1>6. ASSUME NEW i \in 1..l, NEW j \in 1..l, t[i] \in Event, t[j] \in Change, i < j
      PROVE  t[j] = "save" /\ j = i + 1
  <2> DEFINE m == i + 1
             n == j + 1
  <2>1. m \in 1..b /\ n \in 1..b /\ t[i] = s[m] /\ t[j] = s[n]
    BY <1>1, <1>2
  <2>2. m < n /\ (n = m + 1 => j = i + 1)
    BY <1>6
  <2> HIDE DEF m, n
  <2> QED BY <1>6, <2>1, <2>2 DEF Ordered, b
<1>7. Ordered(t)
  BY <1>3, <1>4, <1>5, <1>6 DEF Ordered, l
<1> QED BY <1>1, <1>2, <1>7 DEF b, l
-----------------------------------------------------------------------------
Good == {steps \in Seq(StepName) : WellBegun(steps)}

LEMMA PrefixGood ==
    ASSUME NEW p \in Seq(Plain \cup {"forget"}), WellBegun(p), NEW s \in Good
    PROVE  p \o s \in Good
BY QuietBefore DEF Good

LEMMA InLockGood == ASSUME NEW s \in Good PROVE InLock(s) \in Good /\ Initialized(s) \in Good
<1>1. <<"lock">> \in Seq(Plain \cup {"forget"}) /\ WellBegun(<<"lock">>)
  BY DEF Plain, WellBegun, Ordered, Arrival, Change, Event
<1>2. <<"init">> \in Seq(Plain \cup {"forget"}) /\ WellBegun(<<"init">>)
  BY DEF Plain, WellBegun, Ordered, Arrival, Change, Event
<1>3. <<"lock">> \o s \in Good
  BY <1>1, PrefixGood
<1>4. "unlock" \in Plain \ {"exchange"}
  BY DEF Plain
<1>5. InLock(s) \in Good
  BY <1>3, <1>4, PlainAfter DEF InLock, Good
<1> QED BY <1>2, <1>5, PrefixGood DEF Initialized

\* What signs in, and what says that the session is gone.
LEMMA Endings ==
    /\ SignedIn \in Good /\ SessionGone \in Good
    /\ ExchangeCode \in Good
    /\ ExchangeCode \o <<"save", "unlock", "SIGNED_IN">> \in Good
<1>1. SignedIn \in Good
  <2>1. "SIGNED_IN" \in Arrival
    BY DEF Arrival, Event
  <2> QED BY <2>1, TellsOf DEF SignedIn, Good
<1>2. SessionGone \in Good
  BY Gone DEF Good
<1> DEFINE p == <<"take", "exchange", "forget", "check">>
           e == <<"save", "unlock", "SIGNED_IN">>
<1>3. p \in Seq(Plain \cup {"forget"}) /\ WellBegun(p)
  BY Exchanging
<1>4. ExchangeCode \in Good
  BY <1>1, <1>3, PrefixGood DEF ExchangeCode
<1>5. SignedIn \o e \in Good
  BY Twice DEF Good
<1>6. ExchangeCode \o e = p \o (SignedIn \o e)
  <2>1. p \in Seq(StepName) /\ SignedIn \in Seq(StepName) /\ e \in Seq(StepName)
    BY <1>1 DEF Good, StepName, Plain, Change, Event
  <2>2. ExchangeCode = p \o SignedIn
    BY DEF ExchangeCode
  <2> HIDE DEF p, e
  <2> QED BY <2>1, <2>2, ConcatAssociative
<1>7. p \o (SignedIn \o e) \in Good
  <2> HIDE DEF p, e
  <2> QED BY <1>3, <1>5, PrefixGood
<1> QED BY <1>1, <1>2, <1>4, <1>6, <1>7

LEMMA SignsInGood ==
    /\ signInAnonymously \subseteq Good /\ signUp \subseteq Good /\ signInWithPassword \subseteq Good
    /\ signInWithOAuth \subseteq Good /\ signInWithEthereum \subseteq Good /\ signInWithSolana \subseteq Good
    /\ signInWithIdToken \subseteq Good /\ signInWithOtp \subseteq Good /\ verifyOtp \subseteq Good
    /\ signInWithSSO \subseteq Good /\ resetPasswordForEmail \subseteq Good /\ resend \subseteq Good
<1> DEFINE Quiet(p) == p \in Seq(Plain \cup {"forget"}) /\ WellBegun(p)
<1>1. /\ Quiet(<<"askMaybe">>) /\ Quiet(<<"verifier", "askMaybe">>) /\ Quiet(<<"askSession">>)
      /\ Quiet(<<"wallet", "askSession">>)
  BY DEF Plain, WellBegun, Ordered, Arrival, Change, Event
<1>2. /\ <<"verifier">> \in Good /\ <<"verifier", "ask">> \in Good /\ <<"ask">> \in Good
      /\ <<"invalid">> \in Good /\ <<"askMaybe", "save", "PASSWORD_RECOVERY">> \in Good
  BY DEF Good, StepName, Plain, WellBegun, Ordered, Arrival, Change, Event
<1> HIDE DEF Quiet
<1>3. \A p : Quiet(p) => p \o SignedIn \in Good
  BY Endings, PrefixGood DEF Quiet
<1> QED BY <1>1, <1>2, <1>3 DEF signInAnonymously, signUp, signInWithPassword, signInWithOAuth,
           signInWithEthereum, signInWithSolana, signInWithIdToken, signInWithOtp, verifyOtp,
           signInWithSSO, resetPasswordForEmail, resend, Invalid

LEMMA SessionsGood ==
    /\ exchangeCodeForSession \subseteq Good /\ reauthenticate \subseteq Good /\ getUser \subseteq Good
    /\ updateUser \subseteq Good /\ refreshSession \subseteq Good /\ signOut \subseteq Good
<1>1. /\ <<"load", "need", "ask">> \in Good /\ <<"load", "needUser", "askUser">> \in Good
      /\ <<"askUser">> \in Good
      /\ <<"load", "need", "askRefresh", "save", "TOKEN_REFRESHED">> \in Good
      /\ <<"load", "askRefresh", "save", "TOKEN_REFRESHED">> \in Good
      /\ <<"load", "askLogout">> \in Good
  BY DEF Good, StepName, Plain, WellBegun, Ordered, Arrival, Change, Event
<1> DEFINE a == <<"load", "need">>
           z == <<"ask", "save", "USER_UPDATED">>
<1>2. \A pkce \in {<<>>, <<"verifier">>} : a \o pkce \o z \in Good
  <2> SUFFICES ASSUME NEW pkce \in {<<>>, <<"verifier">>} PROVE a \o pkce \o z \in Good
    OBVIOUS
  <2>1. a \in Seq(StepName) /\ pkce \in Seq(StepName) /\ z \in Seq(StepName)
    <3>1. a \in Seq(StepName) /\ z \in Seq(StepName) /\ <<"verifier">> \in Seq(StepName)
      BY DEF StepName, Plain, Change, Event
    <3>2. <<>> \in Seq(StepName)
      BY EmptySeq
    <3> QED BY <3>1, <3>2
  <2>2. /\ a \in Seq(Plain \cup {"forget"}) /\ WellBegun(a)
        /\ pkce \in Seq(Plain \cup {"forget"}) /\ WellBegun(pkce)
    <3> DEFINE v == <<"verifier">>
               P == Plain \cup {"forget"}
    <3>1. a \in Seq(P) /\ WellBegun(a)
      BY DEF Plain, WellBegun, Ordered, Arrival, Change, Event
    <3>2. v \in Seq(P) /\ WellBegun(v)
      BY DEF Plain, WellBegun, Ordered, Arrival, Change, Event
    <3>3. <<>> \in Seq(P)
      BY EmptySeq
    <3>4. WellBegun(<<>>)
      BY DEF WellBegun, Ordered
    <3>5. pkce = <<>> \/ pkce = v
      OBVIOUS
    <3> HIDE DEF a, v, P
    <3>6. pkce \in Seq(P) /\ WellBegun(pkce)
      BY <3>2, <3>3, <3>4, <3>5
    <3> QED BY <3>1, <3>6 DEF P
  <2>3. z \in Good
    BY DEF Good, StepName, Plain, WellBegun, Ordered, Arrival, Change, Event
  <2> HIDE DEF a, z
  <2>4. a \o pkce \o z = a \o (pkce \o z)
    BY <2>1, ConcatAssociative, SMTT(60)
  <2>5. a \o (pkce \o z) \in Good
    BY <2>2, <2>3, PrefixGood
  <2> QED BY <2>4, <2>5
<1>3. <<"load", "askLogout">> \o SessionGone \in Good
  <2>1. <<"load", "askLogout">> \in Seq(Plain \cup {"forget"}) /\ WellBegun(<<"load", "askLogout">>)
    BY DEF Plain, WellBegun, Ordered, Arrival, Change, Event
  <2> QED BY <2>1, Endings, PrefixGood
<1> QED BY <1>1, <1>2, <1>3, Endings, InLockGood DEF exchangeCodeForSession, reauthenticate, getUser,
           getUserOfSession, updateUser, refreshSession, signOut

LEMMA OthersGood ==
    /\ getUserIdentities \subseteq Good /\ linkIdentityOAuth \subseteq Good
    /\ linkIdentityIdToken \subseteq Good /\ unlinkIdentity \subseteq Good /\ unenroll \subseteq Good
    /\ enroll \subseteq Good /\ verify \subseteq Good /\ challenge \subseteq Good
    /\ challengeAndVerify \subseteq Good /\ listFactors \subseteq Good
    /\ getAuthenticatorAssuranceLevel \subseteq Good /\ getAuthorizationDetails \subseteq Good
    /\ approveAuthorization \subseteq Good /\ denyAuthorization \subseteq Good
<1>1. /\ <<"load", "need", "askUser">> \in Good /\ <<"load", "verifier", "ask">> \in Good
      /\ <<"load", "askSession", "save", "USER_UPDATED">> \in Good
      /\ <<"load", "askSession", "save", "MFA_CHALLENGE_VERIFIED">> \in Good
      /\ <<"load", "ask">> \in Good /\ <<"load">> \in Good /\ <<"load", "need", "ask">> \in Good
      /\ <<"load", "needUser", "askUser">> \in Good
  BY DEF Good, StepName, Plain, WellBegun, Ordered, Arrival, Change, Event
<1>2. verifySteps \in Good /\ challengeSteps \in Good
  BY <1>1, InLockGood DEF verifySteps, challengeSteps
<1>3. challengeSteps \o verifySteps \in Good
  <2>1. challengeSteps \in Seq(Plain \cup {"forget"})
    <3> DEFINE P == Plain \cup {"forget"}
               a == <<"lock">>
               b == <<"load", "ask">>
               c == <<"unlock">>
    <3>1. a \in Seq(P) /\ b \in Seq(P) /\ c \in Seq(P)
      BY DEF Plain
    <3>2. challengeSteps = a \o b \o c
      BY DEF challengeSteps, InLock
    <3> HIDE DEF a, b, c, P
    <3>3. a \o b \o c \in Seq(P)
      BY <3>1, ConcatProperties
    <3> QED BY <3>2, <3>3 DEF P
  <2> QED BY <1>2, <2>1, PrefixGood DEF Good
<1> QED BY <1>1, <1>2, <1>3, InLockGood DEF getUserIdentities, linkIdentityOAuth, linkIdentityIdToken,
           unlinkIdentity, unenroll, enroll, verify, challenge, challengeAndVerify, listFactors,
           getUserOfSession, getAuthenticatorAssuranceLevel, getAuthorizationDetails,
           approveAuthorization, denyAuthorization

LEMMA MethodsGood == Methods \subseteq Good
BY SignsInGood, SessionsGood, OthersGood DEF Methods

LEMMA InitializeGood == ASSUME NEW url PROVE InitializeSteps(url) \in Good
<1>1. /\ <<"fail">> \in Good /\ <<"failKept">> \in Good
      /\ <<"askUser", "save", "unlock", "SIGNED_IN">> \in Good
      /\ <<"recover", "SIGNED_IN", "unlock">> \in Good
  BY DEF Good, StepName, Plain, WellBegun, Ordered, Arrival, Change, Event
<1>2. InitializeSteps(url) \in {ExchangeCode \o <<"save", "unlock", "SIGNED_IN">>, <<"fail">>, <<"failKept">>,
                                <<"askUser", "save", "unlock", "SIGNED_IN">>, <<"recover", "SIGNED_IN", "unlock">>}
  BY DEF InitializeSteps
<1> QED BY <1>1, <1>2, Endings
-----------------------------------------------------------------------------
\* What is left of ordered steps after the first of them.
LEMMA AfterAChange ==
    ASSUME NEW s \in Seq(StepName), s # <<>>, Ordered(s), NEW t, t = Tail(s), s[1] \in Change
    PROVE  /\ Tells(t) \/ Saves(t)
           /\ Tells(t) => (SignsOut(t) <=> s[1] = "remove")
           /\ s[1] \in {"remove", "recover"} => Tells(t)
<1> DEFINE l == Len(t)
<1>1. /\ l \in Nat /\ Len(s) = l + 1 /\ 1 \in 1..Len(s)
      /\ \A i \in 1..l : t[i] = s[i + 1] /\ i + 1 \in 1..Len(s)
  BY TailOrdered
<1> HIDE DEF l
<1>2. 2 \in 1..Len(s) => 1 \in 1..l /\ t[1] = s[2]
  BY <1>1
<1>3. 3 \in 1..Len(s) => 2 \in 1..l /\ t[2] = s[3]
  BY <1>1
<1>4. /\ s[1] = "remove" => 2 \in 1..Len(s) /\ s[2] = "SIGNED_OUT"
      /\ s[1] = "recover" => 2 \in 1..Len(s) /\ s[2] \in Arrival
      /\ s[1] = "save" =>
            \/ 2 \in 1..Len(s) /\ s[2] \in Arrival
            \/ 3 \in 1..Len(s) /\ s[2] = "unlock" /\ s[3] \in Arrival
  <2>1. 1 + 1 = 2 /\ 1 + 2 = 3
    OBVIOUS
  <2> QED BY <1>1, <2>1 DEF Ordered
<1>5. \E i \in 1..l : t[i] \in Event
  BY <1>2, <1>3, <1>4 DEF Change, Arrival, Event
<1>6. ASSUME NEW i \in 1..l, t[i] \in Change
      PROVE  s[1] = "save" /\ i = 2 /\ t[i] = "save" /\ Saves(t)
  <2> DEFINE m == i + 1
  <2>1. t[i] = s[m] /\ m \in 1..Len(s) /\ 1 < m /\ (m = 1 + 2 => i = 2)
    BY <1>1
  <2> HIDE DEF m
  <2>2. s[1] = "save" /\ s[m] = "save" /\ m = 1 + 2
    BY <1>1, <1>6, <2>1 DEF Ordered
  <2>3. i = 2 /\ t[2] = "save" /\ 2 \in 1..l /\ 1 \in 1..l
    BY <1>1, <2>1, <2>2
  <2>4. s[3] = "save"
    BY <2>1, <2>2, <2>3
  <2>5. s[2] \in Arrival
    BY <1>4, <2>2, <2>4 DEF Arrival, Event
  <2>6. t[1] \in Event
    BY <1>1, <2>3, <2>5 DEF Arrival
  <2> QED BY <2>1, <2>2, <2>3, <2>6 DEF Saves, l
<1>7. Tells(t) \/ Saves(t)
  BY <1>5, <1>6 DEF Tells, l
<1>8. s[1] = "remove" => SignsOut(t)
  BY <1>2, <1>4 DEF SignsOut, l
<1>9. ASSUME Tells(t), s[1] # "remove" PROVE ~SignsOut(t)
  <2> SUFFICES ASSUME NEW i \in 1..l, t[i] = "SIGNED_OUT" PROVE FALSE
    BY DEF SignsOut, l
  <2> DEFINE m == i + 1
  <2>1. t[i] = s[m] /\ m \in 1..Len(s) /\ m - 1 = i /\ i \in 1..Len(s)
    BY <1>1
  <2> HIDE DEF m
  <2>2. s[i] = "remove"
    BY <2>1 DEF Ordered
  <2>3. i # 1
    BY <1>9, <2>2
  <2> DEFINE n == i - 1
  <2>4. n \in 1..l /\ n + 1 = i
    BY <1>1, <2>3
  <2> HIDE DEF n
  <2>5. t[n] = "remove"
    BY <1>1, <2>2, <2>4
  <2> QED BY <1>9, <2>4, <2>5 DEF Tells, Change, l
<1>10. s[1] \in {"remove", "recover"} => Tells(t)
  BY <1>5, <1>6 DEF Tells, l
<1> QED BY <1>7, <1>8, <1>9, <1>10

LEMMA AfterAnEvent ==
    ASSUME NEW s \in Seq(StepName), s # <<>>, Ordered(s), NEW t, t = Tail(s), s[1] \in Event
    PROVE  /\ ~Tells(s) => Saves(t)
           /\ Tells(s) => (SignsOut(s) <=> s[1] = "SIGNED_OUT")
           /\ ~Tells(t)
           /\ Forgets(t) => Forgets(s)
<1> DEFINE l == Len(t)
<1>1. /\ l \in Nat /\ Len(s) = l + 1 /\ 1 \in 1..Len(s)
      /\ \A i \in 1..l : t[i] = s[i + 1] /\ i + 1 \in 1..Len(s)
  BY TailOrdered
<1> HIDE DEF l
<1>2. ~Tells(s) => Saves(t)
  <2> SUFFICES ASSUME ~Tells(s) PROVE Saves(t)
    OBVIOUS
  <2>1. PICK j \in 1..Len(s) : s[j] \in Change
    BY <1>1 DEF Tells
  <2>2. j # 1
    BY <2>1 DEF Event, Change
  <2>3. s[j] = "save" /\ j = 2
    <3>1. 1 < j /\ (j = 1 + 1 => j = 2)
      BY <2>2
    <3> QED BY <1>1, <2>1, <3>1 DEF Ordered
  <2>4. 1 \in 1..l /\ t[1] = s[2]
    BY <1>1, <2>3
  <2> QED BY <2>3, <2>4 DEF Saves, l
<1>3. Tells(s) => (SignsOut(s) <=> s[1] = "SIGNED_OUT")
  <2>1. s[1] = "SIGNED_OUT" => SignsOut(s)
    BY <1>1 DEF SignsOut
  <2>2. ASSUME Tells(s), NEW i \in 1..Len(s), s[i] = "SIGNED_OUT", i # 1 PROVE FALSE
    <3> DEFINE n == i - 1
    <3>1. n \in 1..Len(s)
      BY <1>1, <2>2
    <3>2. s[n] = "remove"
      BY <2>2, <3>1 DEF Ordered
    <3> QED BY <2>2, <3>1, <3>2 DEF Tells, Change
  <2> QED BY <2>1, <2>2 DEF SignsOut
<1>4. ~Tells(t)
  <2> SUFFICES ASSUME Tells(t) PROVE FALSE
    OBVIOUS
  <2>1. PICK i \in 1..l : t[i] \in Event
    BY DEF Tells, l
  <2>2. \A j \in 1..l : t[j] \notin Change
    BY DEF Tells, l
  <2> DEFINE m == i + 1
             n == i - 1
  <2>3. t[i] = s[m] /\ m \in 1..Len(s) /\ m - 1 = i /\ m - 2 = n /\ i \in 1..Len(s)
    BY <1>1
  <2>4. (n \in 1..l => t[n] = s[i] /\ n \in 1..Len(s)) /\ (n \notin 1..l => i = 1)
    BY <1>1
  <2>5. i # 1 => n \in 1..Len(s)
    BY <1>1
  <2> HIDE DEF m, n
  <2>6. s[m] = "SIGNED_OUT" => s[i] = "remove"
    BY <2>3 DEF Ordered
  <2>7. s[m] \in Arrival => s[i] \in {"save", "recover"} \/ (s[i] = "unlock" /\ (n \in 1..Len(s) => s[n] = "save"))
    BY <2>3 DEF Ordered
  <2>8. CASE i = 1
    BY <2>1, <2>3, <2>6, <2>7, <2>8 DEF Arrival, Event
  <2>9. CASE i # 1
    <3>1. n \in 1..l /\ s[i] \notin Change
      BY <2>2, <2>4, <2>9
    <3>2. s[i] = "unlock" /\ s[n] = "save"
      BY <2>1, <2>3, <2>4, <2>5, <2>6, <2>7, <2>9, <3>1 DEF Arrival, Change
    <3>3. n # 1
      BY <3>2 DEF Event
    <3> DEFINE k == n - 1
    <3>4. k \in 1..l /\ k + 1 = n
      BY <1>1, <3>1, <3>3
    <3> HIDE DEF k
    <3>5. t[k] = "save"
      BY <1>1, <3>2, <3>4
    <3> QED BY <2>2, <3>4, <3>5 DEF Change
  <2> QED BY <2>8, <2>9
<1>5. Forgets(t) => Forgets(s)
  <2> SUFFICES ASSUME Forgets(t) PROVE Forgets(s)
    OBVIOUS
  <2>1. 1 \in 1..l /\ t[1] \in {"forget", "SIGNED_OUT"}
    BY DEF Forgets, l
  <2>2. t[1] = s[2] /\ 2 \in 1..Len(s)
    <3>1. 1 + 1 = 2
      OBVIOUS
    <3> QED BY <1>1, <2>1, <3>1
  <2>3. (s[2] = "forget" => s[1] \in {"exchange", "SIGNED_OUT"}) /\ (s[2] = "SIGNED_OUT" => s[1] = "remove")
    <3>1. 2 - 1 = 1
      OBVIOUS
    <3> QED BY <1>1, <2>2, <3>1 DEF Ordered
  <2>4. s[1] = "SIGNED_OUT" /\ s[2] = "forget"
    BY <2>1, <2>2, <2>3 DEF Event
  <2> QED BY <1>1, <2>2, <2>4 DEF Forgets
<1> QED BY <1>2, <1>3, <1>4, <1>5

\* The first of the steps that tell is an event, or the lock is given back before it.
LEMMA TellsAtOnce ==
    ASSUME NEW s \in Seq(StepName), Ordered(s), Tells(s)
    PROVE  /\ 1 \in 1..Len(s)
           /\ s[1] \in Event \/ (2 \in 1..Len(s) /\ s[1] = "unlock" /\ s[2] \in Event)
<1> DEFINE b == Len(s)
<1>1. b \in Nat
  BY LenProperties
<1> HIDE DEF b
<1>2. PICK i \in 1..b : s[i] \in Event
  BY DEF Tells, b
<1>3. \A j \in 1..b : s[j] \notin Change
  BY DEF Tells, b
<1> DEFINE n == i - 1
           m == i - 2
<1>4. (i # 1 => n \in 1..b) /\ (i \notin {1, 2} => m \in 1..b) /\ 1 \in 1..b /\ (i = 2 => n = 1)
  BY <1>1
<1> HIDE DEF m, n
<1>5. i # 1 => s[n] = "unlock" /\ (m \in 1..b => s[m] = "save")
  <2> SUFFICES ASSUME i # 1 PROVE s[n] = "unlock" /\ (m \in 1..b => s[m] = "save")
    OBVIOUS
  <2>1. s[i] = "SIGNED_OUT" => s[n] = "remove"
    BY <1>4 DEF Ordered, b, n
  <2>2. s[i] \in Arrival => s[n] \in {"save", "recover"} \/ (s[n] = "unlock" /\ (m \in 1..b => s[m] = "save"))
    BY <1>4 DEF Ordered, b, n, m
  <2> QED BY <1>2, <1>3, <1>4, <2>1, <2>2 DEF Arrival, Change
<1>6. i = 1 \/ i = 2
  BY <1>3, <1>4, <1>5 DEF Change
<1>7. CASE i = 1
  BY <1>2, <1>4, <1>7 DEF b
<1>8. CASE i = 2
  BY <1>2, <1>4, <1>5, <1>8 DEF b
<1> QED BY <1>6, <1>7, <1>8

LEMMA AfterPlain ==
    ASSUME NEW s \in Seq(StepName), s # <<>>, Ordered(s), NEW t, t = Tail(s),
           s[1] \in Plain \cup {"forget"}
    PROVE  /\ Tells(s) <=> Tells(t)
           /\ SignsOut(s) <=> SignsOut(t)
           /\ Tells(s) => s[1] = "unlock"
           /\ ~Saves(s)
           /\ s[1] # "exchange" => ~Forgets(t)
<1> DEFINE l == Len(t)
<1>1. /\ l \in Nat /\ Len(s) = l + 1 /\ 1 \in 1..Len(s)
      /\ \A i \in 1..l : t[i] = s[i + 1] /\ i + 1 \in 1..Len(s)
  BY TailOrdered
<1> HIDE DEF l
<1>2. s[1] \notin Change \cup Event
  BY DEF Plain, Change, Event
<1>3. \A i \in 1..Len(s) : i = 1 \/ \E j \in 1..l : t[j] = s[i]
  <2> SUFFICES ASSUME NEW i \in 1..Len(s), i # 1 PROVE \E j \in 1..l : t[j] = s[i]
    OBVIOUS
  <2> DEFINE j == i - 1
  <2>1. j \in 1..l /\ j + 1 = i
    BY <1>1
  <2> HIDE DEF j
  <2> QED BY <1>1, <2>1
<1>4. \A j \in 1..l : \E i \in 1..Len(s) : t[j] = s[i]
  BY <1>1
<1>5. Tells(s) <=> Tells(t)
  <2>1. ASSUME Tells(s) PROVE Tells(t)
    <3>1. \E j \in 1..l : t[j] \in Event
      BY <1>2, <1>3, <2>1 DEF Tells
    <3>2. \A j \in 1..l : t[j] \notin Change
      BY <1>4, <2>1 DEF Tells
    <3> QED BY <3>1, <3>2 DEF Tells, l
  <2>2. ASSUME Tells(t) PROVE Tells(s)
    <3>1. (\E j \in 1..l : t[j] \in Event) /\ \A j \in 1..l : t[j] \notin Change
      BY <2>2 DEF Tells, l
    <3> QED BY <1>2, <1>3, <1>4, <3>1 DEF Tells
  <2> QED BY <2>1, <2>2
<1>6. SignsOut(s) <=> SignsOut(t)
  <2>1. s[1] # "SIGNED_OUT"
    BY <1>2 DEF Event
  <2> QED BY <1>3, <1>4, <2>1 DEF SignsOut, l
<1>7. Tells(s) => s[1] = "unlock"
  BY <1>2, TellsAtOnce
<1>8. ~Saves(s)
  BY <1>2 DEF Saves, Change
<1>9. s[1] # "exchange" => ~Forgets(t)
  <2> SUFFICES ASSUME s[1] # "exchange", Forgets(t) PROVE FALSE
    OBVIOUS
  <2>1. 1 \in 1..l /\ t[1] \in {"forget", "SIGNED_OUT"}
    BY DEF Forgets, l
  <2>2. t[1] = s[2] /\ 2 \in 1..Len(s)
    <3>1. 1 + 1 = 2
      OBVIOUS
    <3> QED BY <1>1, <2>1, <3>1
  <2>3. (s[2] = "forget" => s[1] \in {"exchange", "SIGNED_OUT"}) /\ (s[2] = "SIGNED_OUT" => s[1] = "remove")
    <3>1. 2 - 1 = 1
      OBVIOUS
    <3> QED BY <1>1, <2>2, <3>1 DEF Ordered
  <2> QED BY <1>2, <2>1, <2>2, <2>3 DEF Event, Change
<1> QED BY <1>5, <1>6, <1>7, <1>8, <1>9

LEMMA AfterSaving ==
    ASSUME NEW s \in Seq(StepName), s # <<>>, Ordered(s), NEW t, t = Tail(s), s[1] \in {"save", "recover"}
    PROVE  ~Forgets(t)
<1>1. /\ Len(s) = Len(t) + 1 /\ Len(t) \in Nat
      /\ \A i \in 1..Len(t) : t[i] = s[i + 1] /\ i + 1 \in 1..Len(s)
  BY TailOrdered
<1> SUFFICES ASSUME Forgets(t) PROVE FALSE
  OBVIOUS
<1>2. 1 \in 1..Len(t) /\ t[1] \in {"forget", "SIGNED_OUT"}
  BY DEF Forgets
<1>3. t[1] = s[2] /\ 2 \in 1..Len(s) /\ 1 \in 1..Len(s)
  <2>1. 1 + 1 = 2
    OBVIOUS
  <2> QED BY <1>1, <1>2, <2>1
<1>4. (s[2] = "forget" => s[1] \in {"exchange", "SIGNED_OUT"}) /\ (s[2] = "SIGNED_OUT" => s[1] = "remove")
  <2>1. 2 - 1 = 1
    OBVIOUS
  <2> QED BY <1>3, <2>1 DEF Ordered
<1> QED BY <1>2, <1>3, <1>4

\* Steps as they begin.
LEMMA GoodBegins ==
    ASSUME NEW s \in Good
    PROVE  /\ s \in Seq(StepName) /\ Ordered(s) /\ ~Tells(s) /\ ~Forgets(s)
           /\ 1 \in 1..Len(s) => s[1] # "exchange"
<1>1. s \in Seq(StepName) /\ Ordered(s)
  BY DEF Good, WellBegun
<1>2. /\ 1 \in 1..Len(s) => s[1] \notin Event \cup {"forget", "exchange"}
      /\ 2 \in 1..Len(s) => ~(s[1] = "unlock" /\ s[2] \in Event)
  BY DEF Good, WellBegun
<1>3. ~Tells(s)
  BY <1>1, <1>2, TellsAtOnce
<1>4. ~Forgets(s)
  BY <1>2 DEF Forgets, Event
<1> QED BY <1>1, <1>2, <1>3, <1>4

LEMMA TailWithout ==
    ASSUME NEW s \in Seq(StepName), s # <<>>, Ordered(s), NEW one, Without(s, one)
    PROVE  Without(Tail(s), one)
BY TailOrdered DEF Without

LEMMA BothWithout ==
    ASSUME NEW s \in Seq(StepName), NEW t \in Seq(StepName), NEW one, Without(s, one), Without(t, one)
    PROVE  Without(s \o t, one)
<1>1. /\ Len(s \o t) = Len(s) + Len(t) /\ Len(s) \in Nat /\ Len(t) \in Nat
      /\ \A i \in 1..(Len(s) + Len(t)) : (s \o t)[i] = IF i <= Len(s) THEN s[i] ELSE t[i - Len(s)]
  BY ConcatProperties, LenProperties
<1>2. \A i \in 1..(Len(s) + Len(t)) : (i <= Len(s) /\ i \in 1..Len(s)) \/ (~(i <= Len(s)) /\ i - Len(s) \in 1..Len(t))
  BY <1>1
<1> QED BY <1>1, <1>2 DEF Without

\* The parts of AuthApi's own definitions that are about the steps.
LEMMA HeadIsFirst == ASSUME NEW s \in Seq(StepName), s # <<>> PROVE Head(s) = s[1] /\ 1 \in 1..Len(s) /\ s[1] \in StepName
BY EmptySeq, ElementOfSeq

LEMMA TellingTells == ASSUME StepsOrdered, NEW c \in Caller PROVE Telling(c) <=> Tells(todo[c])
<1>1. todo[c] \in Seq(StepName)
  BY DEF StepsOrdered
<1>2. DOMAIN todo[c] = 1..Len(todo[c])
  BY <1>1, LenProperties
<1>3. Range(todo[c]) = {todo[c][i] : i \in 1..Len(todo[c])}
  BY <1>2 DEF Range
<1> QED BY <1>3 DEF Telling, Tells, Change

LEMMA ForgettingForgets == ASSUME StepsOrdered, NEW c \in Caller PROVE Forgetting(c) <=> Forgets(todo[c])
<1>1. todo[c] \in Seq(StepName)
  BY DEF StepsOrdered
<1>2. 1 \in 1..Len(todo[c]) <=> todo[c] # <<>>
  BY <1>1, EmptySeq
<1>3. todo[c] # <<>> => Head(todo[c]) = todo[c][1]
  BY <1>1
<1> QED BY <1>2, <1>3 DEF Forgetting, Forgets, Contains
-----------------------------------------------------------------------------
\* A caller goes on to these steps; it may give the lock back, or take it when nobody has it.
Turns(c, new) ==
    /\ todo' = [todo EXCEPT ![c] = new]
    /\ holders' \subseteq holders \/ (holders = {} /\ holders' = {c})

\* Steps to end with: no flow begins, no code is exchanged.
Stops == {steps \in Good : Without(steps, "exchange") /\ Without(steps, "verifier")}

LEMMA StopsAre ==
    /\ <<>> \in Stops /\ <<"remove", "SIGNED_OUT", "unlock">> \in Stops
    /\ SessionGone \o <<"fail">> \in Stops /\ <<"remove", "SIGNED_OUT", "fail">> \in Stops
    /\ <<"unlock">> \in Stops
<1>1. <<>> \in Stops
  BY EmptySeq DEF Stops, Good, WellBegun, Ordered, Without
<1>2. /\ <<"remove", "SIGNED_OUT", "unlock">> \in Stops /\ <<"remove", "SIGNED_OUT", "fail">> \in Stops
      /\ <<"unlock">> \in Stops
  BY DEF Stops, Good, StepName, Plain, WellBegun, Ordered, Arrival, Change, Event, Without
<1>3. SessionGone \o <<"fail">> \in Stops
  <2> DEFINE g == SessionGone
             f == <<"fail">>
  <2>1. g \in Good /\ "fail" \in Plain \ {"exchange"}
    BY Endings DEF Plain
  <2>2. g \o f \in Good
    <3> HIDE DEF g
    <3> QED BY <2>1, PlainAfter DEF Good
  <2>3. g \in Seq(StepName) /\ f \in Seq(StepName)
    BY <2>1 DEF Good, StepName, Plain
  <2>4. /\ Without(g, "exchange") /\ Without(f, "exchange")
        /\ Without(g, "verifier") /\ Without(f, "verifier")
    BY DEF SessionGone, Without
  <2>5. Without(g \o f, "exchange") /\ Without(g \o f, "verifier")
    <3> HIDE DEF g, f
    <3> QED BY <2>3, <2>4, BothWithout
  <2> QED BY <2>2, <2>5 DEF Stops
<1> QED BY <1>1, <1>2, <1>3

LEMMA EndsTurns == ASSUME NEW c, NEW how, Ends(c, how) PROVE Turns(c, <<>>)
BY DEF Ends, Turns

LEMMA ContinuesTurns == ASSUME NEW c, Continues(c) PROVE Turns(c, Tail(todo[c])) /\ holders' = holders
BY DEF Continues, Goes, Turns

LEMMA FailsTurns == ASSUME NEW c, Fails(c) PROVE \E new \in Stops : Turns(c, new)
<1>1. CASE c = Page
  <2>1. CASE throwOnError
    BY <1>1, <2>1, StopsAre DEF Fails, InitializeFails, Ends, Turns
  <2>2. CASE ~throwOnError
    BY <1>1, <2>2, StopsAre DEF Fails, InitializeFails, Goes, Turns
  <2> QED BY <2>1, <2>2
<1>2. CASE c # Page
  BY <1>2, StopsAre DEF Fails, ReturnResult, Ends, Turns
<1> QED BY <1>1, <1>2

LEMMA ThrowsTurns == ASSUME NEW c, Throws(c) PROVE \E new \in Stops : Turns(c, new)
<1>1. Turns(c, <<>>)
  BY DEF Throws, Ends, Turns
<1> QED BY <1>1, StopsAre

\* A step that neither changes the session in storage nor tells of it.
Quiet(c, new) ==
    /\ todo' = [todo EXCEPT ![c] = new]
    /\ UNCHANGED <<stored, told, crossed>>
    /\ \A d \in Caller \ {c} : held'[d] = held[d]
    /\ \/ /\ todo[c] # <<>> /\ Head(todo[c]) \in Plain \cup {"forget"} /\ new = Tail(todo[c])
          /\ Head(todo[c]) = "unlock" => held'[c] = held[c]
       \/ /\ new \in Good
          /\ todo[c] # <<>> => Head(todo[c]) \in (Plain \ {"unlock"}) \cup {"forget"}

\* A caller goes on past anything but "take", or begins; the constructor's call then ends.
Onward(c, new) ==
    \/ todo[c] # <<>> /\ Head(todo[c]) # "take" /\ new = Tail(todo[c])
    \/ new \in Good /\ (c = Page => new \in Stops)

\* A step that has nothing to do with verifiers and codes.
FlowQuiet(c, new) ==
    /\ todo' = [todo EXCEPT ![c] = new]
    /\ UNCHANGED flowVars
    /\ Forgets(new) => Forgets(todo[c])
    /\ Onward(c, new)

\* The steps that are neither.
Special(c) ==
    \/ getCodeChallengeAndMethod(c) \/ (\E f \in Redeemable : TakeVerifier(c, f))
    \/ Exchange(c) \/ ForgetVerifier(c)
    \/ SaveSession(c) \/ RemoveSession(c) \/ NotifyAllSubscribers(c)

\* The steps of the others: on, or to an end.
LEMMA GoesOn ==
    ASSUME StepsOrdered, NEW c \in Caller, todo[c] # <<>>,
           Head(todo[c]) \in Plain, Head(todo[c]) \notin {"exchange", "take"},
           Turns(c, Tail(todo[c])), UNCHANGED <<stored, told, crossed>>, UNCHANGED flowVars,
           \A d \in Caller \ {c} : held'[d] = held[d], Head(todo[c]) = "unlock" => held'[c] = held[c]
    PROVE  \E new : Quiet(c, new) /\ FlowQuiet(c, new) /\ Turns(c, new)
<1> DEFINE s == todo[c]
           t == Tail(s)
<1>1. s \in Seq(StepName) /\ Ordered(s) /\ s # <<>>
  BY DEF StepsOrdered
<1>2. Head(s) = s[1]
  BY <1>1, HeadIsFirst
<1>3. ~Forgets(t)
  <2> HIDE DEF s
  <2>1. s[1] \in Plain \cup {"forget"} /\ s[1] # "exchange"
    BY <1>2 DEF s
  <2> QED BY <1>1, <2>1, AfterPlain
<1>4. Quiet(c, t)
  BY DEF Quiet, Turns
<1>5. FlowQuiet(c, t)
  BY <1>3 DEF FlowQuiet, Turns, Onward
<1> QED BY <1>4, <1>5

LEMMA GoesToAnEnd ==
    ASSUME StepsOrdered, NEW c \in Caller, todo[c] # <<>>,
           Head(todo[c]) \in (Plain \ {"unlock"}) \cup {"forget"},
           NEW new \in Stops, Turns(c, new), UNCHANGED <<stored, told, crossed>>, UNCHANGED flowVars,
           \A d \in Caller \ {c} : held'[d] = held[d]
    PROVE  \E n : Quiet(c, n) /\ FlowQuiet(c, n) /\ Turns(c, n)
<1>1. new \in Good /\ ~Forgets(new)
  BY GoodBegins DEF Stops
<1> QED BY <1>1 DEF Quiet, FlowQuiet, Turns, Onward

-----------------------------------------------------------------------------
Calm(c) == \E new : Quiet(c, new) /\ FlowQuiet(c, new) /\ Turns(c, new)
Still(c) ==
    /\ UNCHANGED <<stored, told, crossed>> /\ UNCHANGED flowVars
    /\ \A d \in Caller \ {c} : held'[d] = held[d]

LEMMA OnIsCalm ==
    ASSUME StepsOrdered, NEW c \in Caller, todo[c] # <<>>,
           Head(todo[c]) \in Plain \ {"exchange", "take", "unlock"}, Continues(c), Still(c)
    PROVE  Calm(c)
BY ContinuesTurns, GoesOn DEF Calm, Still

LEMMA StopIsCalm ==
    ASSUME StepsOrdered, NEW c \in Caller, todo[c] # <<>>,
           Head(todo[c]) \in (Plain \ {"unlock"}) \cup {"forget"}, Still(c),
           Fails(c) \/ Throws(c) \/ (\E how : Ends(c, how)) \/ (\E new \in Stops : Goes(c, new))
    PROVE  Calm(c)
<1>1. PICK new \in Stops : Turns(c, new)
  <2>1. <<>> \in Stops
    BY StopsAre
  <2>2. CASE Fails(c)
    BY <2>2, FailsTurns
  <2>3. CASE Throws(c)
    BY <2>3, ThrowsTurns
  <2>4. CASE \E how : Ends(c, how)
    BY <2>1, <2>4, EndsTurns
  <2>5. CASE \E new \in Stops : Goes(c, new)
    BY <2>5 DEF Goes, Turns
  <2> QED BY <2>2, <2>3, <2>4, <2>5
<1> QED BY <1>1, GoesToAnEnd DEF Calm, Still

LEMMA StillWhen ==
    ASSUME NEW c \in Caller, Kept, UNCHANGED flowVars, UNCHANGED <<stored, told, crossed>>,
           UNCHANGED held \/ (\E x : held' = [held EXCEPT ![c] = x])
    PROVE  Still(c)
<1>1. \A d \in Caller \ {c} : held'[d] = held[d]
  BY DEF Kept
<1> QED BY <1>1 DEF Still

LEMMA WaitsCalm ==
    ASSUME StepsOrdered, Kept, NEW c \in Caller,
           AwaitInitialize(c) \/ Lock(c) \/ Unlock(c) \/ Wallet(c) \/ FailsAtOnce(c)
    PROVE  Calm(c)
<1> USE DEF At
<1>1. UNCHANGED flowVars /\ UNCHANGED <<stored, told, crossed>> /\ UNCHANGED held
  BY DEF AwaitInitialize, Lock, Unlock, Wallet, FailsAtOnce, sessionVars
<1>2. Still(c)
  BY <1>1, StillWhen
<1>3. CASE AwaitInitialize(c)
  <2>1. todo[c] # <<>> /\ Head(todo[c]) = "init" /\ ((\E how : Ends(c, how)) \/ Continues(c))
    BY <1>3 DEF AwaitInitialize
  <2> QED BY <1>2, <2>1, OnIsCalm, StopIsCalm DEF Plain
<1>4. CASE Lock(c)
  <2>1. Turns(c, Tail(todo[c])) /\ todo[c] # <<>> /\ Head(todo[c]) = "lock"
    <3>1. todo' = [todo EXCEPT ![c] = Tail(@)]
      BY <1>4 DEF Lock
    <3> QED BY <1>4, <3>1 DEF Lock, Turns
  <2> QED BY <1>1, <1>2, <2>1, GoesOn DEF Still, Calm, Plain
<1>5. CASE Unlock(c)
  <2>1. Turns(c, Tail(todo[c])) /\ todo[c] # <<>> /\ Head(todo[c]) = "unlock"
    BY <1>5 DEF Unlock, Turns
  <2> QED BY <1>1, <1>2, <2>1, GoesOn DEF Still, Calm, Plain
<1>6. CASE Wallet(c)
  <2>1. todo[c] # <<>> /\ Head(todo[c]) = "wallet" /\ (Continues(c) \/ Throws(c))
    BY <1>6 DEF Wallet
  <2> QED BY <1>2, <2>1, OnIsCalm, StopIsCalm DEF Plain
<1>7. CASE FailsAtOnce(c)
  <2>1. /\ todo[c] # <<>> /\ Head(todo[c]) \in {"invalid", "fail", "failKept"}
        /\ Fails(c) \/ \E how : Ends(c, how)
    BY <1>7 DEF FailsAtOnce
  <2>2. Head(todo[c]) \in (Plain \ {"unlock"}) \cup {"forget"}
    BY <2>1 DEF Plain
  <2> QED BY <1>2, <2>1, <2>2, StopIsCalm
<1> QED BY <1>3, <1>4, <1>5, <1>6, <1>7

LEMMA LoadsCalm ==
    ASSUME StepsOrdered, Kept, NEW c \in Caller,
           UseSession(c) \/ NeedSession(c) \/ Check(c) \/ StorageFails(c)
    PROVE  Calm(c)
<1> USE DEF At
<1>1. UNCHANGED flowVars /\ UNCHANGED <<stored, told, crossed>>
  BY DEF UseSession, NeedSession, Check, StorageFails, sessionVars
<1>2. CASE UseSession(c)
  <2>1. /\ todo[c] # <<>> /\ Head(todo[c]) = "load"
        /\ \/ Continues(c) /\ held' = [held EXCEPT ![c] = stored]
           \/ (Fails(c) \/ Throws(c)) /\ UNCHANGED held
    BY <1>2 DEF UseSession
  <2>2. Still(c)
    BY <1>1, <2>1, StillWhen
  <2> QED BY <2>1, <2>2, OnIsCalm, StopIsCalm DEF Plain
<1>3. CASE NeedSession(c)
  <2>1. /\ todo[c] # <<>> /\ Head(todo[c]) \in {"need", "needUser"} /\ UNCHANGED held
        /\ Continues(c) \/ Fails(c) \/ \E how : Ends(c, how)
    BY <1>3 DEF NeedSession, sessionVars
  <2>2. Still(c)
    BY <1>1, <2>1, StillWhen
  <2>3. Head(todo[c]) \in Plain \ {"exchange", "take", "unlock"}
    BY <2>1 DEF Plain
  <2> QED BY <2>1, <2>2, <2>3, OnIsCalm, StopIsCalm
<1>4. CASE Check(c)
  <2>1. todo[c] # <<>> /\ Head(todo[c]) = "check" /\ UNCHANGED held /\ (Continues(c) \/ Fails(c))
    BY <1>4 DEF Check, sessionVars
  <2>2. Still(c)
    BY <1>1, <2>1, StillWhen
  <2> QED BY <2>1, <2>2, OnIsCalm, StopIsCalm DEF Plain
<1>5. CASE StorageFails(c)
  <2>1. todo[c] # <<>> /\ Head(todo[c]) \in {"verifier", "take", "forget"} /\ UNCHANGED held /\ Throws(c)
    BY <1>5 DEF StorageFails, sessionVars
  <2>2. Still(c)
    BY <1>1, <2>1, StillWhen
  <2>3. Head(todo[c]) \in (Plain \ {"unlock"}) \cup {"forget"}
    BY <2>1 DEF Plain
  <2> QED BY <2>1, <2>2, <2>3, StopIsCalm
<1> QED BY <1>2, <1>3, <1>4, <1>5

LEMMA AsksCalm ==
    ASSUME StepsOrdered, Kept, NEW c \in Caller, NEW outcome \in Outcome,
           Ask(c, outcome) \/ AskUser(c, outcome) \/ AskSession(c, outcome)
           \/ AskRefresh(c, outcome) \/ AskLogout(c, outcome)
    PROVE  Calm(c)
<1> USE DEF At
<1>1. /\ UNCHANGED flowVars /\ UNCHANGED <<stored, told, crossed>>
      /\ UNCHANGED held \/ \E x : held' = [held EXCEPT ![c] = x]
  BY DEF Ask, AskUser, AskSession, AskRefresh, AskLogout, sessionVars, Receives
<1>2. Still(c)
  BY <1>1, StillWhen
<1>3. todo[c] # <<>> /\ Head(todo[c]) \in {"ask", "askUser", "askSession", "askMaybe", "askRefresh", "askLogout"}
  BY DEF Ask, AskUser, AskSession, AskRefresh, AskLogout
<1>4. Head(todo[c]) \in Plain \ {"exchange", "take", "unlock"}
  BY <1>3 DEF Plain
<1>5. Continues(c) \/ Fails(c) \/ Throws(c) \/ \E new \in Stops : Goes(c, new)
  BY StopsAre DEF Ask, AskUser, AskSession, AskRefresh, AskLogout, Refuses
<1> QED BY <1>2, <1>3, <1>4, <1>5, OnIsCalm, StopIsCalm

LEMMA StepKinds == ASSUME StepsOrdered, Kept, NEW c \in Caller, Step(c) PROVE Calm(c) \/ Special(c)
BY WaitsCalm, LoadsCalm, AsksCalm DEF Step, Special

-----------------------------------------------------------------------------
\* What every step does to the steps left.
Moves(c, new) ==
    /\ Turns(c, new)
    /\ new \in Good \/ (todo[c] # <<>> /\ new = Tail(todo[c]))

LEMMA MovesOrdered ==
    ASSUME StepsOrdered, OneHolder, NEW c \in Caller, NEW new, Moves(c, new)
    PROVE  StepsOrdered' /\ OneHolder'
<1>1. new \in Seq(StepName) /\ Ordered(new)
  <2>1. todo[c] \in Seq(StepName) /\ Ordered(todo[c])
    BY DEF StepsOrdered
  <2> QED BY <2>1, GoodBegins, TailOrdered DEF Moves
<1>2. todo' = [todo EXCEPT ![c] = new]
  BY DEF Moves, Turns
<1>3. StepsOrdered'
  <2>1. todo' \in [Caller -> Seq(StepName)]
    BY <1>1, <1>2 DEF StepsOrdered
  <2>2. \A d \in Caller : todo'[d] = new \/ todo'[d] = todo[d]
    BY <1>2 DEF StepsOrdered
  <2>3. \A d \in Caller : Ordered(todo'[d])
    BY <1>1, <2>2 DEF StepsOrdered
  <2> QED BY <2>1, <2>3 DEF StepsOrdered
<1>4. OneHolder'
  BY DEF Moves, Turns, OneHolder
<1> QED BY <1>3, <1>4

LEMMA CalmMoves == ASSUME NEW c \in Caller, NEW new, Quiet(c, new), Turns(c, new) PROVE Moves(c, new)
BY DEF Moves, Quiet

LEMMA SpecialMoves == ASSUME NEW c \in Caller, Special(c) PROVE \E new : Moves(c, new)
<1>1. todo[c] # <<>> /\ (Continues(c) \/ Fails(c) \/ Throws(c))
  BY DEF Special, getCodeChallengeAndMethod, TakeVerifier, Exchange, ExchangeFails, ForgetVerifier,
         SaveSession, RemoveSession, NotifyAllSubscribers, At
<1> QED BY <1>1, ContinuesTurns, FailsTurns, ThrowsTurns DEF Moves, Stops

\* The constructor's call and the calls that begin.
LEMMA DetectMoves ==
    ASSUME Kept, NEW url, Detect(url)
    PROVE  Quiet(Page, InitializeSteps(url)) /\ Turns(Page, InitializeSteps(url))
<1> DEFINE new == InitializeSteps(url)
<1>1. new \in Good
  BY InitializeGood
<1>2. todo[Page] # <<>> /\ Head(todo[Page]) = "detect"
  BY DEF Detect, At
<1>3. /\ todo' = [todo EXCEPT ![Page] = new] /\ holders' = holders
      /\ UNCHANGED <<stored, told, crossed>> /\ UNCHANGED held
  BY DEF Detect, Goes, sessionVars
<1> HIDE DEF new
<1>4. Quiet(Page, new)
  BY <1>1, <1>2, <1>3 DEF Quiet, Plain
<1> QED BY <1>3, <1>4 DEF Turns, new

LEMMA BeginCalm ==
    ASSUME NEW c \in Call, NEW steps \in Methods, Begin(c, steps)
    PROVE  c \in Caller /\ Calm(c)
<1>1. steps \in Good /\ ~Forgets(steps)
  BY MethodsGood, GoodBegins
<1>2. c # Page /\ c \in Caller
  BY PageIsNoCall DEF Caller
<1>3. /\ todo' = [todo EXCEPT ![c] = steps] /\ holders' = holders /\ todo[c] = <<>>
      /\ UNCHANGED <<stored, told, crossed>> /\ UNCHANGED held /\ UNCHANGED flowVars
  BY DEF Begin, sessionVars
<1>4. Quiet(c, steps)
  BY <1>1, <1>3 DEF Quiet
<1>5. FlowQuiet(c, steps)
  BY <1>1, <1>2, <1>3 DEF FlowQuiet, Onward
<1> QED BY <1>2, <1>3, <1>4, <1>5 DEF Calm, Turns

LEMMA RecoverMoves ==
    ASSUME StepsOrdered, Recover
    PROVE  /\ Page \in Caller /\ todo[Page] # <<>> /\ todo[Page][1] = "recover"
           /\ UNCHANGED flowVars /\ UNCHANGED <<stored, told, crossed>>
           /\ held' = [held EXCEPT ![Page] = stored]
           /\ \E new : /\ Moves(Page, new)
                       /\ \/ new = <<"unlock">> /\ new \in Stops
                          \/ new = Tail(todo[Page])
<1>1. Page \in Caller
  BY DEF Caller
<1>2. todo[Page] # <<>> /\ Head(todo[Page]) = "recover" /\ todo[Page] \in Seq(StepName)
  BY <1>1 DEF Recover, At, StepsOrdered
<1>3. todo[Page][1] = "recover"
  BY <1>2, HeadIsFirst
<1> DEFINE new == IF stored = None THEN <<"unlock">> ELSE Tail(todo[Page])
<1>4. Turns(Page, new)
  BY DEF Recover, Goes, Turns
<1>5. \/ new = <<"unlock">> /\ new \in Stops
      \/ new = Tail(todo[Page])
  BY StopsAre
<1>6. Moves(Page, new)
  BY <1>2, <1>4, <1>5 DEF Moves, Stops
<1> HIDE DEF new
<1> QED BY <1>1, <1>2, <1>3, <1>5, <1>6 DEF Recover

LEMMA AllMove == ASSUME StepsOrdered, Kept, Next PROVE \E c \in Caller : \E new : Moves(c, new)
<1>1. Page \in Caller /\ Call \subseteq Caller
  BY DEF Caller
<1>2. CASE \E url \in {"none", "code", "tokens", "error", "identity error"} : Detect(url)
  BY <1>1, <1>2, DetectMoves, CalmMoves
<1>3. CASE Recover
  BY <1>3, RecoverMoves
<1>4. CASE \E c \in Call : \E steps \in Methods : Begin(c, steps)
  BY <1>4, BeginCalm, CalmMoves DEF Calm
<1>5. CASE \E c \in Caller : Step(c)
  BY <1>5, StepKinds, CalmMoves, SpecialMoves DEF Calm
<1> QED BY <1>2, <1>3, <1>4, <1>5 DEF Next

-----------------------------------------------------------------------------
\* Verifiers.  Steps of one caller leave what the others are about to forget.
LEMMA OthersForget ==
    ASSUME StepsOrdered, NEW c \in Caller, NEW new, Moves(c, new), Forgets(new) => Forgets(todo[c]),
           NEW d \in Caller, Forgets(todo'[d])
    PROVE  Forgets(todo[d])
<1>1. todo'[d] = IF d = c THEN new ELSE todo[d]
  BY DEF Moves, Turns, StepsOrdered
<1> QED BY <1>1

LEMMA VerifierStays ==
    ASSUME StepsOrdered, VerifierKept, NEW c \in Caller, NEW new, Moves(c, new),
           Forgets(new) => Forgets(todo[c]), UNCHANGED <<verifier, begun>>, spoiled \subseteq spoiled'
    PROVE  VerifierKept'
<1>1. ASSUME NEW d \in Caller, Forgets(todo'[d]) PROVE begun' \subseteq spoiled'
  <2>1. Forgets(todo[d])
    BY <1>1, OthersForget
  <2> QED BY <2>1 DEF VerifierKept
<1> QED BY <1>1 DEF VerifierKept

LEMMA AllSpoiled ==
    ASSUME begun' \subseteq spoiled', Earlier \in begun'
    PROVE  VerifierKept'
BY DEF VerifierKept

\* A caller that goes on with what is not a change, and no exchange, forgets nothing yet.
LEMMA OnForgetsNot ==
    ASSUME StepsOrdered, NEW c \in Caller, todo[c] # <<>>,
           Head(todo[c]) \in (Plain \ {"exchange"}) \cup {"forget", "save", "recover"} \cup Event
    PROVE  Forgets(Tail(todo[c])) => Forgets(todo[c])
<1> DEFINE s == todo[c]
<1>1. s \in Seq(StepName) /\ Ordered(s) /\ s # <<>>
  BY DEF StepsOrdered
<1> HIDE DEF s
<1>2. Head(s) = s[1]
  BY <1>1, HeadIsFirst
<1>3. CASE s[1] \in (Plain \ {"exchange"}) \cup {"forget"}
  <2>1. s[1] \in Plain \cup {"forget"} /\ s[1] # "exchange"
    BY <1>3
  <2> QED BY <1>1, <2>1, AfterPlain DEF s
<1>4. CASE s[1] \in {"save", "recover"}
  BY <1>1, <1>4, AfterSaving DEF s
<1>5. CASE s[1] \in Event
  BY <1>1, <1>5, AfterAnEvent DEF s
<1> QED BY <1>2, <1>3, <1>4, <1>5 DEF s

LEMMA SpecialVerifier ==
    ASSUME StepsOrdered, VerifierKept, NEW c \in Caller, Special(c)
    PROVE  VerifierKept'
<1> USE DEF At
<1>1. CASE getCodeChallengeAndMethod(c)
  <2>1. todo[c] # <<>> /\ Head(todo[c]) = "verifier" /\ Continues(c)
    BY <1>1 DEF getCodeChallengeAndMethod
  <2>2. Moves(c, Tail(todo[c]))
    BY <2>1, ContinuesTurns DEF Moves
  <2>3. Forgets(Tail(todo[c])) => Forgets(todo[c])
    BY <2>1, OnForgetsNot DEF Plain
  <2>4. CASE flowType = "pkce"
    <3>1. /\ verifier' = c /\ begun' = begun \cup {c}
          /\ spoiled' = spoiled \cup begun \cup (IF \E d \in Caller : Forgetting(d) THEN {c} ELSE {})
      BY <1>1, <2>4 DEF getCodeChallengeAndMethod
    <3>2. Earlier \in begun' /\ \A f \in begun' : f = verifier' \/ f \in spoiled'
      BY <3>1 DEF VerifierKept
    <3>3. ASSUME NEW d \in Caller, Forgets(todo'[d]) PROVE begun' \subseteq spoiled'
      <4>1. Forgets(todo[d])
        BY <2>2, <2>3, <3>3, OthersForget
      <4>2. Forgetting(d)
        BY <4>1, ForgettingForgets
      <4> QED BY <3>1, <4>2
    <3> QED BY <3>2, <3>3 DEF VerifierKept
  <2>5. CASE flowType # "pkce"
    <3>1. UNCHANGED <<verifier, begun, spoiled>>
      BY <1>1, <2>5 DEF getCodeChallengeAndMethod
    <3> QED BY <2>2, <2>3, <3>1, VerifierStays
  <2> QED BY <2>4, <2>5
<1>2. CASE \E f \in Redeemable : TakeVerifier(c, f)
  <2>1. todo[c] # <<>> /\ Head(todo[c]) = "take" /\ Continues(c) /\ UNCHANGED <<verifier, begun, spoiled>>
    BY <1>2 DEF TakeVerifier
  <2>2. Moves(c, Tail(todo[c]))
    BY <2>1, ContinuesTurns DEF Moves
  <2>3. Forgets(Tail(todo[c])) => Forgets(todo[c])
    BY <2>1, OnForgetsNot DEF Plain
  <2> QED BY <2>1, <2>2, <2>3, VerifierStays
<1>3. CASE Exchange(c)
  <2>1. UNCHANGED begun /\ (spoiled' = spoiled \cup begun \/ ((Fails(c) \/ Throws(c)) /\ UNCHANGED <<verifier, spoiled>>))
    BY <1>3 DEF Exchange, ExchangeFails
  <2>2. CASE spoiled' = spoiled \cup begun
    BY <2>1, <2>2, AllSpoiled DEF VerifierKept
  <2>3. CASE (Fails(c) \/ Throws(c)) /\ UNCHANGED <<verifier, spoiled>>
    <3>1. PICK new \in Stops : Turns(c, new)
      BY <2>3, FailsTurns, ThrowsTurns
    <3>2. Moves(c, new) /\ ~Forgets(new)
      BY <3>1, GoodBegins DEF Moves, Stops
    <3> QED BY <2>1, <2>3, <3>2, VerifierStays
  <2> QED BY <2>1, <2>2, <2>3
<1>4. CASE ForgetVerifier(c)
  <2>1. todo[c] # <<>> /\ Head(todo[c]) = "forget" /\ UNCHANGED <<begun, spoiled>>
    BY <1>4 DEF ForgetVerifier
  <2>2. Forgets(todo[c])
    <3>1. todo[c] \in Seq(StepName)
      BY DEF StepsOrdered
    <3> HIDE DEF At
    <3>2. todo[c][1] = "forget" /\ 1 \in 1..Len(todo[c])
      BY <2>1, <3>1, HeadIsFirst
    <3> QED BY <3>2 DEF Forgets
  <2> QED BY <2>1, <2>2, AllSpoiled DEF VerifierKept
<1>5. CASE SaveSession(c)
  <2>1. todo[c] # <<>> /\ Head(todo[c]) = "save" /\ Continues(c) /\ UNCHANGED <<verifier, begun, spoiled>>
    BY <1>5 DEF SaveSession, flowVars
  <2>2. Moves(c, Tail(todo[c]))
    BY <2>1, ContinuesTurns DEF Moves
  <2>3. Forgets(Tail(todo[c])) => Forgets(todo[c])
    BY <2>1, OnForgetsNot
  <2> QED BY <2>1, <2>2, <2>3, VerifierStays
<1>6. CASE RemoveSession(c)
  BY <1>6, AllSpoiled DEF RemoveSession, VerifierKept
<1>7. CASE NotifyAllSubscribers(c)
  <2>1. todo[c] # <<>> /\ Head(todo[c]) \in Event /\ Continues(c) /\ UNCHANGED <<verifier, begun, spoiled>>
    BY <1>7 DEF NotifyAllSubscribers, flowVars
  <2>2. Moves(c, Tail(todo[c]))
    BY <2>1, ContinuesTurns DEF Moves
  <2>3. Forgets(Tail(todo[c])) => Forgets(todo[c])
    BY <2>1, OnForgetsNot
  <2> QED BY <2>1, <2>2, <2>3, VerifierStays
<1> QED BY <1>1, <1>2, <1>3, <1>4, <1>5, <1>6, <1>7 DEF Special

LEMMA VerifierStep == ASSUME StepsOrdered, Kept, VerifierKept, Next PROVE VerifierKept'
<1>1. Page \in Caller /\ Call \subseteq Caller
  BY DEF Caller
<1>2. ASSUME NEW c \in Caller, Calm(c) PROVE VerifierKept'
  <2>1. PICK new : Quiet(c, new) /\ FlowQuiet(c, new) /\ Turns(c, new)
    BY <1>2 DEF Calm
  <2>2. Moves(c, new)
    BY <2>1, CalmMoves
  <2> QED BY <2>1, <2>2, VerifierStays DEF FlowQuiet, flowVars
<1>3. ASSUME NEW url, Detect(url) PROVE VerifierKept'
  <2>1. Moves(Page, InitializeSteps(url))
    BY <1>1, <1>3, DetectMoves, CalmMoves
  <2>2. ~Forgets(InitializeSteps(url))
    BY InitializeGood, GoodBegins
  <2>3. UNCHANGED <<verifier, begun, spoiled>>
    BY <1>3 DEF Detect
  <2> QED BY <1>1, <2>1, <2>2, <2>3, VerifierStays
<1>4. CASE Recover
  <2>1. PICK new : Moves(Page, new) /\ (new \in Stops \/ new = Tail(todo[Page]))
    BY <1>4, RecoverMoves
  <2>2. Forgets(new) => Forgets(todo[Page])
    <3>1. CASE new \in Stops
      BY <3>1, GoodBegins DEF Stops
    <3>2. CASE new = Tail(todo[Page])
      <4>1. todo[Page] # <<>> /\ Head(todo[Page]) = "recover"
        BY <1>4 DEF Recover, At
      <4> QED BY <1>1, <3>2, <4>1, OnForgetsNot
    <3> QED BY <2>1, <3>1, <3>2
  <2> QED BY <1>1, <1>4, <2>1, <2>2, VerifierStays DEF Recover, flowVars
<1>5. CASE \E c \in Call : \E steps \in Methods : Begin(c, steps)
  BY <1>1, <1>2, <1>5, BeginCalm
<1>6. CASE \E c \in Caller : Step(c)
  BY <1>2, <1>6, StepKinds, SpecialVerifier
<1> QED BY <1>3, <1>4, <1>5, <1>6 DEF Next

-----------------------------------------------------------------------------
\* Codes.
Redeems(c) == taken[c] = code[c] \/ code[c] \in spoiled

LEMMA CodeStays ==
    ASSUME StepsOrdered, CodeKept, NEW c \in Caller, NEW new, Moves(c, new), Onward(c, new),
           UNCHANGED <<taken, code>>, spoiled \subseteq spoiled', lost' \subseteq spoiled'
    PROVE  CodeKept'
<1>1. \A d \in Call : taken'[d] = code'[d] \/ code'[d] \in spoiled'
  BY DEF CodeKept
<1>2. Page \in Caller /\ todo'[Page] = IF c = Page THEN new ELSE todo[Page]
  BY DEF Caller, Moves, Turns, StepsOrdered
<1>3. ASSUME ~(taken'[Page] = code'[Page] \/ code'[Page] \in spoiled')
      PROVE  At(Page, "take")' \/ Without(todo'[Page], "exchange")
  <2>1. At(Page, "take") \/ Without(todo[Page], "exchange")
    BY <1>3 DEF CodeKept
  <2>2. CASE c # Page
    BY <1>2, <2>1, <2>2 DEF At
  <2>3. CASE c = Page
    <3>1. CASE new \in Stops
      BY <1>2, <2>3, <3>1 DEF Stops
    <3>2. CASE todo[c] # <<>> /\ Head(todo[c]) # "take" /\ new = Tail(todo[c])
      <4>1. Without(todo[Page], "exchange")
        BY <2>1, <2>3, <3>2 DEF At
      <4>2. todo[Page] \in Seq(StepName) /\ Ordered(todo[Page]) /\ todo[Page] # <<>>
        BY <1>2, <2>3, <3>2 DEF StepsOrdered
      <4>3. Without(Tail(todo[Page]), "exchange")
        BY <4>1, <4>2, TailWithout
      <4> QED BY <1>2, <2>3, <3>2, <4>3
    <3> QED BY <2>3, <3>1, <3>2 DEF Onward
  <2> QED BY <2>2, <2>3
<1> QED BY <1>1, <1>3 DEF CodeKept

\* Who is at an exchange has the verifier of its flow, or the flow has rightly lost it.
LEMMA AtAnExchange ==
    ASSUME StepsOrdered, CodeKept, NEW c \in Caller, At(c, "exchange")
    PROVE  Redeems(c)
<1>1. CASE c \in Call
  BY <1>1 DEF CodeKept, Redeems
<1>2. CASE c = Page
  <2>1. todo[c] \in Seq(StepName)
    BY DEF StepsOrdered
  <2>2. todo[c][1] = "exchange" /\ 1 \in 1..Len(todo[c])
    BY <2>1, HeadIsFirst DEF At
  <2>3. ~Without(todo[c], "exchange") /\ ~At(c, "take")
    BY <2>2 DEF Without, At
  <2> QED BY <1>2, <2>3 DEF CodeKept, Redeems
<1> QED BY <1>1, <1>2 DEF Caller

LEMMA SpecialCode ==
    ASSUME StepsOrdered, VerifierKept, CodeKept, Kept, NEW c \in Caller, Special(c)
    PROVE  CodeKept'
<1>1. CASE \E f \in Redeemable : TakeVerifier(c, f)
  <2>1. PICK f \in Redeemable : TakeVerifier(c, f)
    BY <1>1
  <2>2. f = verifier \/ f \in spoiled
    BY DEF Redeemable, VerifierKept
  <2>3. /\ code' = [code EXCEPT ![c] = f] /\ taken' = [taken EXCEPT ![c] = verifier]
        /\ UNCHANGED <<spoiled, lost>> /\ todo' = [todo EXCEPT ![c] = Tail(todo[c])]
    BY <2>1 DEF TakeVerifier, Continues, Goes
  <2>4. /\ code'[c] = f /\ taken'[c] = verifier
        /\ \A d \in Caller \ {c} : code'[d] = code[d] /\ taken'[d] = taken[d]
        /\ \A d \in Caller \ {c} : todo'[d] = todo[d]
    BY <2>3 DEF Kept, StepsOrdered
  <2>5. Page \in Caller /\ \A d \in Call : d \in Caller
    BY DEF Caller
  <2>6. \A d \in Call : taken'[d] = code'[d] \/ code'[d] \in spoiled'
    BY <2>2, <2>3, <2>4, <2>5 DEF CodeKept
  <2>7. CASE c = Page
    <3>1. taken'[Page] = code'[Page] \/ code'[Page] \in spoiled'
      BY <2>2, <2>3, <2>4, <2>7
    <3> QED BY <2>3, <2>6, <3>1 DEF CodeKept
  <2>8. CASE c # Page
    <3>1. code'[Page] = code[Page] /\ taken'[Page] = taken[Page] /\ todo'[Page] = todo[Page]
      BY <2>4, <2>5, <2>8
    <3>2. \/ taken[Page] = code[Page] \/ code[Page] \in spoiled
          \/ At(Page, "take") \/ Without(todo[Page], "exchange")
      BY DEF CodeKept
    <3>3. (At(Page, "take") => At(Page, "take")') /\ lost' \subseteq spoiled'
      BY <2>3, <3>1 DEF At, CodeKept
    <3>4. \/ taken'[Page] = code'[Page] \/ code'[Page] \in spoiled'
          \/ At(Page, "take")' \/ Without(todo'[Page], "exchange")
      BY <2>3, <3>1, <3>2, <3>3
    <3> QED BY <2>6, <3>3, <3>4 DEF CodeKept
  <2> QED BY <2>7, <2>8
<1>2. CASE Exchange(c)
  <2>1. /\ At(c, "exchange") /\ UNCHANGED <<taken, code, begun>>
        /\ \/ Continues(c) /\ UNCHANGED lost /\ spoiled' = spoiled \cup begun
           \/ /\ (Fails(c) \/ Throws(c)) /\ UNCHANGED spoiled
              /\ lost' = IF taken[c] # code[c] /\ code[c] \notin used THEN lost \cup {code[c]} ELSE lost
    BY <1>2 DEF Exchange, ExchangeFails
  <2>2. Redeems(c)
    BY <2>1, AtAnExchange
  <2>3. spoiled \subseteq spoiled' /\ lost' \subseteq spoiled'
    BY <2>1, <2>2 DEF Redeems, CodeKept
  <2>4. \E new : Moves(c, new) /\ Onward(c, new)
    <3>1. CASE Continues(c)
      <4>1. Moves(c, Tail(todo[c])) /\ Onward(c, Tail(todo[c]))
        BY <2>1, <3>1, ContinuesTurns DEF Moves, Onward, At
      <4> QED BY <4>1
    <3>2. CASE Fails(c)
      BY <3>2, FailsTurns DEF Moves, Onward, Stops
    <3>3. CASE Throws(c)
      BY <3>3, ThrowsTurns DEF Moves, Onward, Stops
    <3> QED BY <2>1, <3>1, <3>2, <3>3
  <2> QED BY <2>1, <2>3, <2>4, CodeStays
<1>3. ASSUME todo[c] # <<>>, Head(todo[c]) # "take", Continues(c), UNCHANGED <<taken, code, lost>>,
             spoiled \subseteq spoiled'
      PROVE  CodeKept'
  <2>1. Moves(c, Tail(todo[c])) /\ Onward(c, Tail(todo[c]))
    BY <1>3, ContinuesTurns DEF Moves, Onward
  <2>2. lost' \subseteq spoiled'
    BY <1>3 DEF CodeKept
  <2> QED BY <1>3, <2>1, <2>2, CodeStays
<1>4. CASE getCodeChallengeAndMethod(c) \/ ForgetVerifier(c) \/ SaveSession(c) \/ RemoveSession(c)
           \/ NotifyAllSubscribers(c)
  <2>1. todo[c] # <<>> /\ Head(todo[c]) # "take" /\ Continues(c) /\ UNCHANGED <<taken, code, lost>>
    BY <1>4 DEF getCodeChallengeAndMethod, ForgetVerifier, SaveSession, RemoveSession,
                NotifyAllSubscribers, At, flowVars, Event
  <2>2. spoiled \subseteq spoiled'
    BY <1>4 DEF getCodeChallengeAndMethod, ForgetVerifier, SaveSession, RemoveSession,
                NotifyAllSubscribers, flowVars
  <2> QED BY <1>3, <2>1, <2>2
<1> QED BY <1>1, <1>2, <1>4 DEF Special

\* The steps that the URL asks for begin with "take", or have no exchange; or there is nothing to
\* exchange.
LEMMA DetectTakes ==
    ASSUME NEW url
    PROVE  LET new == InitializeSteps(url)
           IN  \/ Without(new, "exchange")
               \/ url = "code" /\ new # <<>> /\ Head(new) = "take"
<1> DEFINE p == <<"take", "exchange", "forget", "check">>
           e == <<"save", "unlock", "SIGNED_IN">>
           x == ExchangeCode \o e
<1>1. x # <<>> /\ Head(x) = "take"
  <2>1. p \in Seq(StepName) /\ SignedIn \in Seq(StepName) /\ e \in Seq(StepName)
    BY DEF StepName, Plain, Change, Event, SignedIn
  <2>2. p[1] = "take" /\ Len(p) = 4
    OBVIOUS
  <2>3. ExchangeCode = p \o SignedIn
    BY DEF ExchangeCode
  <2> HIDE DEF p, e
  <2>4. /\ p \o SignedIn \in Seq(StepName) /\ Len(p \o SignedIn) = 4 + Len(SignedIn)
        /\ (p \o SignedIn)[1] = "take" /\ Len(SignedIn) \in Nat
    <3> DEFINE q == SignedIn
    <3>1. p \in Seq(StepName) /\ q \in Seq(StepName) /\ Len(q) \in Nat
      BY <2>1, LenProperties
    <3> HIDE DEF q
    <3>2. /\ p \o q \in Seq(StepName) /\ Len(p \o q) = Len(p) + Len(q)
          /\ \A i \in 1..(Len(p) + Len(q)) : (p \o q)[i] = IF i <= Len(p) THEN p[i] ELSE q[i - Len(p)]
      BY <3>1, ConcatProperties
    <3>3. 1 \in 1..(Len(p) + Len(q)) /\ 1 <= Len(p)
      BY <2>2, <3>1
    <3>4. /\ p \o q \in Seq(StepName) /\ Len(p \o q) = 4 + Len(q)
          /\ (p \o q)[1] = "take" /\ Len(q) \in Nat
      BY <2>2, <3>1, <3>2, <3>3
    <3> QED BY <3>4 DEF q
  <2> DEFINE y == p \o SignedIn
  <2>5. y \in Seq(StepName) /\ Len(y) >= 4 /\ y[1] = "take" /\ Len(y) \in Nat
    BY <2>4
  <2>6. x = y \o e
    BY <2>3
  <2> HIDE DEF x, y
  <2>7. x \in Seq(StepName) /\ Len(x) = Len(y) + Len(e) /\ Len(e) \in Nat /\ x[1] = "take"
    BY <2>1, <2>5, <2>6, ConcatProperties, LenProperties
  <2>8. x # <<>>
    BY <2>5, <2>7, EmptySeq
  <2> QED BY <2>7, <2>8, HeadIsFirst
<1>2. /\ Without(<<"fail">>, "exchange") /\ Without(<<"failKept">>, "exchange")
      /\ Without(<<"askUser", "save", "unlock", "SIGNED_IN">>, "exchange")
      /\ Without(<<"recover", "SIGNED_IN", "unlock">>, "exchange")
  BY DEF Without
<1>3. \/ InitializeSteps(url) \in {<<"fail">>, <<"failKept">>, <<"askUser", "save", "unlock", "SIGNED_IN">>,
                                   <<"recover", "SIGNED_IN", "unlock">>}
      \/ url = "code" /\ InitializeSteps(url) = x
  BY DEF InitializeSteps
<1> HIDE DEF x
<1> QED BY <1>1, <1>2, <1>3

LEMMA CodeStep == ASSUME StepsOrdered, Kept, VerifierKept, CodeKept, Next PROVE CodeKept'
<1>1. Page \in Caller /\ Call \subseteq Caller
  BY DEF Caller
<1>2. ASSUME NEW c \in Caller, Calm(c) PROVE CodeKept'
  <2>1. PICK new : Quiet(c, new) /\ FlowQuiet(c, new) /\ Turns(c, new)
    BY <1>2 DEF Calm
  <2>2. Moves(c, new) /\ Onward(c, new)
    BY <2>1, CalmMoves DEF FlowQuiet
  <2>3. UNCHANGED <<taken, code>> /\ spoiled \subseteq spoiled' /\ lost' \subseteq spoiled'
    BY <2>1 DEF FlowQuiet, flowVars, CodeKept
  <2> QED BY <2>2, <2>3, CodeStays
<1>3. ASSUME NEW url, Detect(url) PROVE CodeKept'
  <2> DEFINE new == InitializeSteps(url)
  <2>1. /\ todo' = [todo EXCEPT ![Page] = new] /\ UNCHANGED <<taken, spoiled, lost>>
        /\ code' = [code EXCEPT ![Page] = IF url = "code" THEN Earlier ELSE None]
    BY <1>3 DEF Detect, Goes
  <2>2. Without(new, "exchange") \/ (new # <<>> /\ Head(new) = "take")
    BY DetectTakes
  <2> HIDE DEF new
  <2>3. todo'[Page] = new /\ \A d \in Caller \ {Page} : code'[d] = code[d]
    BY <1>1, <2>1 DEF Kept, StepsOrdered
  <2>4. At(Page, "take")' \/ Without(todo'[Page], "exchange")
    BY <2>2, <2>3 DEF At
  <2>5. \A d \in Call : taken'[d] = code'[d] \/ code'[d] \in spoiled'
    BY <1>1, <2>1, <2>3, PageIsNoCall DEF CodeKept
  <2> QED BY <2>1, <2>4, <2>5 DEF CodeKept
<1>4. CASE Recover
  <2>1. PICK new : Moves(Page, new) /\ (new \in Stops \/ new = Tail(todo[Page]))
    BY <1>4, RecoverMoves
  <2>2. todo[Page] # <<>> /\ Head(todo[Page]) # "take"
    BY <1>4 DEF Recover, At
  <2>3. Onward(Page, new)
    BY <2>1, <2>2 DEF Onward, Stops
  <2>4. UNCHANGED <<taken, code>> /\ spoiled \subseteq spoiled' /\ lost' \subseteq spoiled'
    BY <1>4 DEF Recover, flowVars, CodeKept
  <2> QED BY <1>1, <2>1, <2>3, <2>4, CodeStays
<1>5. CASE \E c \in Call : \E steps \in Methods : Begin(c, steps)
  BY <1>1, <1>2, <1>5, BeginCalm
<1>6. CASE \E c \in Caller : Step(c)
  BY <1>2, <1>6, StepKinds, SpecialCode
<1> QED BY <1>3, <1>4, <1>5, <1>6 DEF Next

-----------------------------------------------------------------------------
\* What subscribers know.  Somebody who is to tell, and what.
Speaks(c) == Tells(todo[c]) \/ Saves(todo[c])

\* The others say what they said before.
LEMMA OthersSpeak ==
    ASSUME StepsOrdered, NEW c \in Caller, NEW new, Moves(c, new),
           \A d \in Caller \ {c} : held'[d] = held[d]
    PROVE  /\ todo'[c] = new
           /\ \A d \in Caller \ {c} :
                 /\ Tells(todo'[d]) <=> Tells(todo[d])
                 /\ Saves(todo'[d]) <=> Saves(todo[d])
                 /\ Announced(d)' = Announced(d)
<1>1. todo'[c] = new /\ \A d \in Caller \ {c} : todo'[d] = todo[d]
  BY DEF Moves, Turns, StepsOrdered
<1>2. \A d \in Caller \ {c} : Announced(d)' = Announced(d)
  BY <1>1 DEF Announced
<1> QED BY <1>1, <1>2

\* Who has said nothing new about a session that did not change.
LEMMA SilentStep ==
    ASSUME StepsOrdered, WillBeTold, NEW c \in Caller, NEW new, Moves(c, new),
           UNCHANGED <<stored, told, crossed>>, \A d \in Caller \ {c} : held'[d] = held[d],
           ~crossed /\ Tells(new) => Announced(c)' = stored,
           Speaks(c) => Tells(new)
    PROVE  WillBeTold'
<1> SUFFICES ASSUME ~crossed PROVE /\ \A d \in Caller : Tells(todo'[d]) => Announced(d)' = stored'
                                   /\ told' = stored' \/ \E d \in Caller : Tells(todo'[d]) \/ Saves(todo'[d])
  BY DEF WillBeTold
<1>1. todo'[c] = new
  BY OthersSpeak
<1>2. ASSUME NEW d \in Caller, Tells(todo'[d]) PROVE Announced(d)' = stored'
  <2>1. CASE d = c
    BY <1>1, <1>2, <2>1
  <2>2. CASE d # c
    <3>1. Tells(todo[d]) /\ Announced(d)' = Announced(d)
      BY <1>2, <2>2, OthersSpeak
    <3> QED BY <3>1 DEF WillBeTold
  <2> QED BY <2>1, <2>2
<1>3. ASSUME told' # stored' PROVE \E d \in Caller : Tells(todo'[d]) \/ Saves(todo'[d])
  <2>1. PICK d \in Caller : Speaks(d)
    BY <1>3 DEF WillBeTold, Speaks
  <2>2. CASE d = c
    BY <1>1, <2>1, <2>2
  <2>3. CASE d # c
    <3>1. Tells(todo'[d]) \/ Saves(todo'[d])
      BY <2>1, <2>3, OthersSpeak DEF Speaks
    <3> QED BY <3>1
  <2> QED BY <2>2, <2>3
<1> QED BY <1>2, <1>3

LEMMA QuietTells ==
    ASSUME StepsOrdered, WillBeTold, NEW c \in Caller, NEW new, Quiet(c, new), Turns(c, new)
    PROVE  WillBeTold'
<1> DEFINE s == todo[c]
<1>1. s \in Seq(StepName) /\ Ordered(s) /\ Moves(c, new) /\ todo'[c] = new
  BY CalmMoves DEF StepsOrdered, Turns
<1>2. CASE s # <<>> /\ Head(s) \in Plain \cup {"forget"} /\ new = Tail(s) /\ (Head(s) = "unlock" => held'[c] = held[c])
  <2>1. s[1] = Head(s)
    BY <1>1, <1>2, HeadIsFirst
  <2> HIDE DEF s
  <2>2. /\ Tells(s) <=> Tells(new)
        /\ SignsOut(s) <=> SignsOut(new)
        /\ Tells(s) => s[1] = "unlock"
        /\ ~Saves(s)
    BY <1>1, <1>2, <2>1, AfterPlain
  <2>3. Tells(new) => Announced(c)' = Announced(c)
    BY <1>1, <1>2, <2>1, <2>2 DEF Announced, s
  <2>4. ~crossed /\ Tells(new) => Announced(c)' = stored
    BY <2>2, <2>3 DEF WillBeTold, s
  <2>5. Speaks(c) => Tells(new)
    BY <2>2 DEF Speaks, s
  <2> QED BY <1>1, <2>4, <2>5, SilentStep DEF Quiet
<1>3. CASE new \in Good /\ (s # <<>> => Head(s) \in (Plain \ {"unlock"}) \cup {"forget"})
  <2>1. ~Tells(new)
    BY <1>3, GoodBegins
  <2>2. ~Speaks(c)
    <3> HIDE DEF s
    <3>1. CASE s = <<>>
      BY <3>1 DEF Tells, Saves, Speaks, s
    <3>2. CASE s # <<>>
      <4>1. s[1] \in (Plain \ {"unlock"}) \cup {"forget"}
        BY <1>1, <1>3, <3>2, HeadIsFirst
      <4>2. s[1] \in Plain \cup {"forget"} /\ s[1] # "unlock"
        BY <4>1
      <4>3. ~Tells(s) /\ ~Saves(s)
        BY <1>1, <3>2, <4>2, AfterPlain
      <4> QED BY <4>3 DEF Speaks, s
    <3> QED BY <3>1, <3>2
  <2> QED BY <1>1, <2>1, <2>2, SilentStep DEF Quiet
<1> QED BY <1>2, <1>3 DEF Quiet

\* A change by one caller that nobody else's event has crossed.
LEMMA NobodyElseTells ==
    ASSUME StepsOrdered, OneHolder, NEW c \in Caller, ~Crosses(c), NEW d \in Caller \ {c}
    PROVE  ~Tells(todo[d])
<1> SUFFICES ASSUME Tells(todo[d]) PROVE FALSE
  OBVIOUS
<1>1. Telling(d)
  BY TellingTells
<1>2. {c, d} \subseteq holders
  BY <1>1 DEF Crosses
<1> QED BY <1>2 DEF OneHolder

LEMMA ChangeTells ==
    ASSUME StepsOrdered, OneHolder, WillBeTold, NEW c \in Caller, SaveSession(c) \/ RemoveSession(c)
    PROVE  WillBeTold'
<1> DEFINE s == todo[c]
           t == Tail(s)
<1>1. /\ s # <<>> /\ s \in Seq(StepName) /\ Ordered(s) /\ Head(s) \in {"save", "remove"} /\ Continues(c)
      /\ UNCHANGED held /\ crossed' = (crossed \/ Crosses(c))
      /\ stored' = IF Head(s) = "remove" THEN None ELSE held[c]
  BY DEF SaveSession, RemoveSession, At, StepsOrdered
<1>2. s[1] = Head(s)
  BY <1>1, HeadIsFirst
<1>3. Moves(c, t)
  BY <1>1, ContinuesTurns DEF Moves
<1> HIDE DEF s, t
<1>4. /\ Tells(t) \/ Saves(t)
      /\ Tells(t) => (SignsOut(t) <=> s[1] = "remove")
  <2>1. s[1] \in Change
    BY <1>1, <1>2 DEF Change
  <2> QED BY <1>1, <2>1, AfterAChange DEF t
<1>5. todo'[c] = t
  BY <1>3, OthersSpeak, <1>1
<1> SUFFICES ASSUME ~crossed' PROVE /\ \A d \in Caller : Tells(todo'[d]) => Announced(d)' = stored'
                                    /\ told' = stored' \/ \E d \in Caller : Tells(todo'[d]) \/ Saves(todo'[d])
  BY DEF WillBeTold
<1>6. ~Crosses(c)
  BY <1>1
<1>7. ASSUME NEW d \in Caller, Tells(todo'[d]) PROVE Announced(d)' = stored'
  <2>1. d = c
    <3> SUFFICES ASSUME d # c PROVE FALSE
      OBVIOUS
    <3>1. Tells(todo[d])
      BY <1>1, <1>3, <1>7, OthersSpeak
    <3> QED BY <1>6, <3>1, NobodyElseTells
  <2>2. SignsOut(t) <=> s[1] = "remove"
    BY <1>4, <1>5, <1>7, <2>1
  <2> QED BY <1>1, <1>2, <1>5, <2>1, <2>2 DEF Announced
<1> QED BY <1>4, <1>5, <1>7

LEMMA RecoverTells ==
    ASSUME StepsOrdered, WillBeTold, Kept, Recover
    PROVE  WillBeTold'
<1> DEFINE s == todo[Page]
<1>1. PICK new : /\ Moves(Page, new)
                 /\ \/ new = <<"unlock">> /\ new \in Stops
                    \/ new = Tail(s)
  BY RecoverMoves
<1>2. /\ Page \in Caller /\ s # <<>> /\ s[1] = "recover" /\ s \in Seq(StepName) /\ Ordered(s)
      /\ UNCHANGED <<stored, told, crossed>>
      /\ held'[Page] = stored /\ \A d \in Caller \ {Page} : held'[d] = held[d]
  BY RecoverMoves DEF StepsOrdered, Kept
<1>3. todo'[Page] = new
  BY <1>1, <1>2, OthersSpeak
<1> HIDE DEF s
<1>4. ~Speaks(Page)
  <2>1. 1 \in 1..Len(s)
    BY <1>2, HeadIsFirst
  <2> QED BY <1>2, <2>1 DEF Speaks, Tells, Saves, Change, Event, s
<1>5. Tells(new) => Announced(Page)' = stored
  <2>1. CASE new \in Stops
    BY <2>1, GoodBegins DEF Stops
  <2>2. CASE new = Tail(s)
    <3>1. s[1] \in Change /\ s[1] # "remove"
      BY <1>2 DEF Change
    <3>2. Tells(new) => ~SignsOut(new)
      BY <1>2, <2>2, <3>1, AfterAChange
    <3> QED BY <1>2, <1>3, <3>2 DEF Announced
  <2> QED BY <1>1, <2>1, <2>2
<1> QED BY <1>1, <1>2, <1>4, <1>5, SilentStep

LEMMA NotifyTells ==
    ASSUME StepsOrdered, WillBeTold, NEW c \in Caller, NotifyAllSubscribers(c)
    PROVE  WillBeTold'
<1> DEFINE s == todo[c]
           t == Tail(s)
<1>1. /\ s # <<>> /\ s \in Seq(StepName) /\ Ordered(s) /\ Head(s) \in Event /\ Continues(c)
      /\ UNCHANGED <<held, stored, crossed>>
      /\ told' = IF Head(s) = "SIGNED_OUT" THEN None ELSE held[c]
  BY DEF NotifyAllSubscribers, At, StepsOrdered
<1>2. s[1] = Head(s)
  BY <1>1, HeadIsFirst
<1>3. Moves(c, t)
  BY <1>1, ContinuesTurns DEF Moves
<1> HIDE DEF s, t
<1>4. /\ ~Tells(s) => Saves(t)
      /\ Tells(s) => (SignsOut(s) <=> s[1] = "SIGNED_OUT")
      /\ ~Tells(t)
  BY <1>1, <1>2, AfterAnEvent DEF t
<1>5. todo'[c] = t
  BY <1>3, OthersSpeak, <1>1
<1> SUFFICES ASSUME ~crossed PROVE /\ \A d \in Caller : Tells(todo'[d]) => Announced(d)' = stored'
                                   /\ told' = stored' \/ \E d \in Caller : Tells(todo'[d]) \/ Saves(todo'[d])
  BY <1>1 DEF WillBeTold
<1>6. ASSUME NEW d \in Caller, Tells(todo'[d]) PROVE Announced(d)' = stored'
  <2>1. d # c
    BY <1>4, <1>5, <1>6
  <2>2. Tells(todo[d]) /\ Announced(d)' = Announced(d)
    BY <1>1, <1>3, <1>6, <2>1, OthersSpeak
  <2> QED BY <1>1, <2>2 DEF WillBeTold
<1>7. CASE Tells(s)
  <2>1. Announced(c) = stored
    BY <1>7 DEF WillBeTold, s
  <2>2. told' = stored'
    BY <1>1, <1>2, <1>4, <1>7, <2>1 DEF Announced, s
  <2> QED BY <1>6, <2>2
<1>8. CASE ~Tells(s)
  BY <1>4, <1>5, <1>6, <1>8
<1> QED BY <1>7, <1>8

LEMMA SpecialTells ==
    ASSUME StepsOrdered, OneHolder, WillBeTold, Kept, NEW c \in Caller, Special(c)
    PROVE  WillBeTold'
<1>1. ASSUME todo[c] # <<>>, Head(todo[c]) \in (Plain \ {"unlock"}) \cup {"forget"},
             Continues(c) \/ Fails(c) \/ Throws(c), UNCHANGED <<stored, told, crossed>>,
             UNCHANGED held \/ \E x : held' = [held EXCEPT ![c] = x]
      PROVE  WillBeTold'
  <2>1. \A d \in Caller \ {c} : held'[d] = held[d]
    BY <1>1 DEF Kept
  <2>2. PICK new : Turns(c, new) /\ (new = Tail(todo[c]) \/ new \in Stops)
    BY <1>1, ContinuesTurns, FailsTurns, ThrowsTurns
  <2>3. Quiet(c, new)
    BY <1>1, <2>1, <2>2 DEF Quiet, Turns, Stops
  <2> QED BY <2>2, <2>3, QuietTells
<1>2. CASE getCodeChallengeAndMethod(c) \/ (\E f \in Redeemable : TakeVerifier(c, f)) \/ Exchange(c)
           \/ ForgetVerifier(c)
  <2>1. /\ todo[c] # <<>> /\ Head(todo[c]) \in {"verifier", "take", "exchange", "forget"}
        /\ Continues(c) \/ Fails(c) \/ Throws(c)
    BY <1>2 DEF getCodeChallengeAndMethod, TakeVerifier, Exchange, ExchangeFails, ForgetVerifier, At
  <2>2. /\ UNCHANGED <<stored, told, crossed>>
        /\ UNCHANGED held \/ \E x : held' = [held EXCEPT ![c] = x]
    BY <1>2 DEF getCodeChallengeAndMethod, TakeVerifier, Exchange, ForgetVerifier, sessionVars, Receives
  <2>3. Head(todo[c]) \in (Plain \ {"unlock"}) \cup {"forget"}
    BY <2>1 DEF Plain
  <2> QED BY <1>1, <2>1, <2>2, <2>3
<1> QED BY <1>2, ChangeTells, NotifyTells DEF Special

LEMMA ToldStep == ASSUME StepsOrdered, OneHolder, WillBeTold, Kept, Next PROVE WillBeTold'
<1>1. Page \in Caller /\ Call \subseteq Caller
  BY DEF Caller
<1>2. ASSUME NEW c \in Caller, Calm(c) PROVE WillBeTold'
  BY <1>2, QuietTells DEF Calm
<1>3. ASSUME NEW url, Detect(url) PROVE WillBeTold'
  BY <1>1, <1>3, DetectMoves, QuietTells
<1>4. CASE Recover
  BY <1>4, RecoverTells
<1>5. CASE \E c \in Call : \E steps \in Methods : Begin(c, steps)
  BY <1>1, <1>2, <1>5, BeginCalm
<1>6. CASE \E c \in Caller : Step(c)
  BY <1>2, <1>6, StepKinds, SpecialTells
<1> QED BY <1>3, <1>4, <1>5, <1>6 DEF Next

-----------------------------------------------------------------------------
\* The other variables keep their types.
ResultKept == result' \in [Caller -> {"none", "ok", "error", "thrown"}]

LEMMA GoesResult == ASSUME Kept, NEW c \in Caller, NEW steps, Goes(c, steps) PROVE ResultKept
BY DEF Goes, Kept, ResultKept

LEMMA EndsResult ==
    ASSUME Kept, NEW c \in Caller, NEW how \in {"ok", "error", "thrown"}, Ends(c, how)
    PROVE  ResultKept
BY DEF Ends, Kept, ResultKept

LEMMA EndingResult ==
    ASSUME Kept, NEW c \in Caller, Continues(c) \/ Fails(c) \/ Throws(c)
    PROVE  ResultKept
<1>1. CASE Continues(c)
  BY <1>1, GoesResult DEF Continues
<1>2. CASE Fails(c)
  <2>1. \/ \E how \in {"ok", "error", "thrown"} : Ends(c, how)
        \/ Goes(c, <<"remove", "SIGNED_OUT", "unlock">>)
    BY <1>2 DEF Fails, InitializeFails, ReturnResult
  <2> QED BY <2>1, GoesResult, EndsResult
<1>3. CASE Throws(c)
  <2>1. \E how \in {"ok", "error", "thrown"} : Ends(c, how)
    BY <1>3 DEF Throws
  <2> QED BY <2>1, EndsResult
<1> QED BY <1>1, <1>2, <1>3

LEMMA StepResult == ASSUME Kept, NEW c \in Caller, Step(c) PROVE ResultKept
<1>1. CASE AwaitInitialize(c)
  <2>1. Continues(c) \/ Ends(c, "thrown")
    BY <1>1 DEF AwaitInitialize
  <2> QED BY <2>1, EndingResult, EndsResult
<1>2. CASE Lock(c)
  BY <1>2 DEF Lock, Kept, ResultKept
<1>3. CASE Unlock(c)
  BY <1>3 DEF Unlock, Kept, ResultKept
<1>4. CASE UseSession(c) \/ Wallet(c) \/ Exchange(c) \/ Check(c) \/ StorageFails(c) \/ ForgetVerifier(c)
           \/ SaveSession(c) \/ RemoveSession(c) \/ NotifyAllSubscribers(c)
           \/ getCodeChallengeAndMethod(c) \/ (\E f \in Redeemable : TakeVerifier(c, f))
  <2>1. Continues(c) \/ Fails(c) \/ Throws(c)
    BY <1>4 DEF UseSession, Wallet, Exchange, ExchangeFails, Check, StorageFails, ForgetVerifier,
                SaveSession, RemoveSession, NotifyAllSubscribers, getCodeChallengeAndMethod, TakeVerifier
  <2> QED BY <2>1, EndingResult
<1>5. CASE NeedSession(c)
  <2>1. Continues(c) \/ Fails(c) \/ Ends(c, "error")
    BY <1>5 DEF NeedSession
  <2> QED BY <2>1, EndingResult, EndsResult
<1>6. CASE FailsAtOnce(c)
  <2>1. Fails(c) \/ Ends(c, "thrown") \/ Ends(c, "ok")
    BY <1>6 DEF FailsAtOnce
  <2> QED BY <2>1, EndingResult, EndsResult
<1>7. ASSUME NEW outcome \in Outcome,
             Ask(c, outcome) \/ AskUser(c, outcome) \/ AskSession(c, outcome)
             \/ AskRefresh(c, outcome) \/ AskLogout(c, outcome)
      PROVE  ResultKept
  <2>1. Continues(c) \/ Fails(c) \/ Throws(c) \/ \E steps : Goes(c, steps)
    BY <1>7 DEF Ask, AskUser, AskSession, AskRefresh, AskLogout, Refuses
  <2> QED BY <2>1, EndingResult, GoesResult
<1> QED BY <1>1, <1>2, <1>3, <1>4, <1>5, <1>6, <1>7 DEF Step

\* The sessions.
SessionsKept ==
    /\ UNCHANGED flowType
    /\ stored' \in Session \cup {None} /\ told' \in Session \cup {None}
    /\ held' \in [Caller -> Session \cup {None}] /\ crossed' \in BOOLEAN

LEMMA HeldSessions ==
    ASSUME Kept, NEW c \in Caller, UNCHANGED <<flowType, stored, told, crossed>>,
           UNCHANGED held \/ \E x \in {stored, c} : held' = [held EXCEPT ![c] = x]
    PROVE  SessionsKept
<1>1. \A x \in {stored, c} : x \in Session \cup {None}
  BY DEF Kept, Session
<1>2. held' \in [Caller -> Session \cup {None}]
  BY <1>1 DEF Kept
<1> QED BY <1>2 DEF Kept, SessionsKept

LEMMA StepSessions == ASSUME Kept, NEW c \in Caller, Step(c) PROVE SessionsKept
<1>1. CASE UseSession(c) \/ Exchange(c)
  <2>1. /\ UNCHANGED <<flowType, stored, told, crossed>>
        /\ UNCHANGED held \/ \E x \in {stored, c} : held' = [held EXCEPT ![c] = x]
    BY <1>1 DEF UseSession, Exchange, Receives
  <2> QED BY <2>1, HeldSessions
<1>2. ASSUME NEW outcome \in Outcome,
             Ask(c, outcome) \/ AskUser(c, outcome) \/ AskSession(c, outcome)
             \/ AskRefresh(c, outcome) \/ AskLogout(c, outcome)
      PROVE  SessionsKept
  <2>1. /\ UNCHANGED <<flowType, stored, told, crossed>>
        /\ UNCHANGED held \/ \E x \in {stored, c} : held' = [held EXCEPT ![c] = x]
    BY <1>2 DEF Ask, AskUser, AskSession, AskRefresh, AskLogout, sessionVars, Receives
  <2> QED BY <2>1, HeldSessions
<1>3. CASE \/ AwaitInitialize(c) \/ Lock(c) \/ Unlock(c) \/ NeedSession(c) \/ Wallet(c) \/ FailsAtOnce(c)
           \/ getCodeChallengeAndMethod(c) \/ (\E f \in Redeemable : TakeVerifier(c, f)) \/ Check(c)
           \/ ForgetVerifier(c) \/ StorageFails(c)
  <2>1. UNCHANGED <<flowType, stored, told, crossed>> /\ UNCHANGED held
    BY <1>3 DEF AwaitInitialize, Lock, Unlock, NeedSession, Wallet, FailsAtOnce, getCodeChallengeAndMethod,
                TakeVerifier, Check, ForgetVerifier, StorageFails, sessionVars
  <2> QED BY <2>1, HeldSessions
<1>4. held[c] \in Session \cup {None}
  BY DEF Kept
<1>5. CASE SaveSession(c)
  <2>1. UNCHANGED <<flowType, told, held>> /\ stored' \in Session \cup {None}
    BY <1>4, <1>5 DEF SaveSession
  <2>2. crossed' \in BOOLEAN
    BY <1>5, Zenon DEF SaveSession, Kept
  <2> QED BY <2>1, <2>2 DEF SessionsKept, Kept
<1>6. CASE RemoveSession(c)
  <2>1. UNCHANGED <<flowType, told, held>> /\ stored' \in Session \cup {None}
    BY <1>6 DEF RemoveSession
  <2>2. crossed' \in BOOLEAN
    BY <1>6, Zenon DEF RemoveSession, Kept
  <2> QED BY <2>1, <2>2 DEF SessionsKept, Kept
<1>7. CASE NotifyAllSubscribers(c)
  <2>1. UNCHANGED <<flowType, stored, held, crossed>> /\ told' \in Session \cup {None}
    BY <1>4, <1>7 DEF NotifyAllSubscribers
  <2> QED BY <2>1 DEF SessionsKept, Kept
<1> QED BY <1>1, <1>2, <1>3, <1>5, <1>6, <1>7 DEF Step

\* The flows.
FlowsKept ==
    /\ verifier' \in Flow \cup {None}
    /\ taken' \in [Caller -> Flow \cup {None}] /\ code' \in [Caller -> Flow \cup {None}]
    /\ begun' \in SUBSET Flow /\ used' \in SUBSET Flow /\ spoiled' \in SUBSET Flow
    /\ lost' \in SUBSET Flow

\* Steps whose first is "verifier", "take" or "exchange" are those of calls, or of flows that began.
LEMMA StepFlows ==
    ASSUME Kept, NEW c \in Caller, Step(c), At(c, "verifier") => c \in Call, At(c, "exchange") => code[c] \in Flow
    PROVE  FlowsKept
<1>1. CASE UNCHANGED flowVars
  BY <1>1 DEF flowVars, Kept, FlowsKept
<1>2. CASE getCodeChallengeAndMethod(c)
  <2>1. c \in Flow
    BY <1>2 DEF getCodeChallengeAndMethod, Flow
  <2>2. UNCHANGED <<taken, code, used, lost>>
    BY <1>2 DEF getCodeChallengeAndMethod
  <2>3. verifier' \in {c, verifier} /\ begun' \subseteq begun \cup {c} /\ spoiled' \subseteq spoiled \cup begun \cup {c}
    BY <1>2 DEF getCodeChallengeAndMethod
  <2> QED BY <2>1, <2>2, <2>3 DEF Kept, FlowsKept
<1>3. ASSUME NEW f \in Redeemable, TakeVerifier(c, f) PROVE FlowsKept
  <2>1. f \in Flow
    BY DEF Redeemable, Kept
  <2>2. code' \in [Caller -> Flow \cup {None}] /\ taken' \in [Caller -> Flow \cup {None}]
    BY <1>3, <2>1 DEF TakeVerifier, Kept
  <2> QED BY <1>3, <2>2 DEF TakeVerifier, Kept, FlowsKept
<1>4. CASE Exchange(c)
  <2>1. code[c] \in Flow
    BY <1>4 DEF Exchange
  <2>2. UNCHANGED <<taken, code, begun, verifier>>
    BY <1>4 DEF Exchange, ExchangeFails
  <2>3. /\ used' \subseteq used \cup {code[c]} /\ lost' \subseteq lost \cup {code[c]}
        /\ spoiled' \subseteq spoiled \cup begun
    BY <1>4 DEF Exchange, ExchangeFails
  <2> QED BY <2>1, <2>2, <2>3 DEF Kept, FlowsKept
<1>5. CASE ForgetVerifier(c) \/ RemoveSession(c)
  <2>1. UNCHANGED <<taken, code, begun, used, lost>> /\ verifier' = None /\ spoiled' \subseteq spoiled \cup begun
    BY <1>5 DEF ForgetVerifier, RemoveSession
  <2> QED BY <2>1 DEF Kept, FlowsKept
<1>6. Step(c) => \/ UNCHANGED flowVars \/ getCodeChallengeAndMethod(c) \/ Exchange(c)
                 \/ ForgetVerifier(c) \/ RemoveSession(c) \/ \E f \in Redeemable : TakeVerifier(c, f)
  BY DEF Step, AwaitInitialize, Lock, Unlock, UseSession, NeedSession, Wallet, FailsAtOnce, Ask, AskUser,
         AskSession, AskRefresh, AskLogout, Check, StorageFails, SaveSession, NotifyAllSubscribers
<1> QED BY <1>1, <1>2, <1>3, <1>4, <1>5, <1>6

-----------------------------------------------------------------------------
\* The constructor's call begins no flow.
LEMMA InitializeBeginsNone == ASSUME NEW url PROVE Without(InitializeSteps(url), "verifier")
<1> DEFINE p == <<"take", "exchange", "forget", "check">>
           g == SignedIn
           e == <<"save", "unlock", "SIGNED_IN">>
           y == p \o g
           x == y \o e
<1>1. p \in Seq(StepName) /\ g \in Seq(StepName) /\ e \in Seq(StepName)
  BY DEF StepName, Plain, Change, Event, SignedIn
<1>2. Without(p, "verifier") /\ Without(g, "verifier") /\ Without(e, "verifier")
  BY DEF Without, SignedIn
<1>3. /\ Without(<<"fail">>, "verifier") /\ Without(<<"failKept">>, "verifier")
      /\ Without(<<"askUser", "save", "unlock", "SIGNED_IN">>, "verifier")
      /\ Without(<<"recover", "SIGNED_IN", "unlock">>, "verifier")
  BY DEF Without
<1>4. InitializeSteps(url) \in {x, <<"fail">>, <<"failKept">>, <<"askUser", "save", "unlock", "SIGNED_IN">>,
                                <<"recover", "SIGNED_IN", "unlock">>}
  BY DEF InitializeSteps, ExchangeCode
<1> HIDE DEF p, g, e
<1>5. Without(y, "verifier") /\ y \in Seq(StepName)
  BY <1>1, <1>2, BothWithout, ConcatProperties
<1> HIDE DEF y
<1>6. Without(x, "verifier")
  BY <1>1, <1>2, <1>5, BothWithout
<1> HIDE DEF x
<1> QED BY <1>3, <1>4, <1>6

\* The first of the steps left once one is taken is an exchange only after "take".
LEMMA TakeBefore ==
    ASSUME NEW s \in Seq(StepName), s # <<>>, Ordered(s), Tail(s) # <<>>, Head(Tail(s)) = "exchange"
    PROVE  Head(s) = "take"
<1> DEFINE t == Tail(s)
<1>1. /\ t \in Seq(StepName) /\ Len(s) = Len(t) + 1 /\ Len(t) \in Nat
      /\ \A i \in 1..Len(t) : t[i] = s[i + 1] /\ i + 1 \in 1..Len(s)
  BY TailOrdered
<1>2. t[1] = "exchange" /\ 1 \in 1..Len(t)
  BY <1>1, HeadIsFirst
<1> HIDE DEF t
<1>3. s[2] = "exchange" /\ 2 \in 1..Len(s) /\ 1 \in 1..Len(s)
  <2>1. 1 + 1 = 2
    OBVIOUS
  <2> QED BY <1>1, <1>2, <2>1
<1>4. s[1] = "take"
  <2>1. 2 - 1 = 1
    OBVIOUS
  <2> QED BY <1>3, <2>1 DEF Ordered
<1> QED BY <1>4, HeadIsFirst

LEMMA EquippedStays ==
    ASSUME StepsOrdered, Equipped, NEW c \in Caller, NEW new, Moves(c, new),
           c = Page => Without(new, "verifier") \/ (todo[c] # <<>> /\ new = Tail(todo[c])),
           \A d \in Caller \ {c} : code'[d] = code[d],
           new \in Good \/ (Head(todo[c]) = "take" => code'[c] \in Flow)
    PROVE  Equipped'
<1>1. Page \in Caller /\ \A d \in Caller : todo'[d] = IF d = c THEN new ELSE todo[d]
  BY DEF Caller, Moves, Turns, StepsOrdered
<1>2. \A d \in Caller : todo[d] \in Seq(StepName) /\ Ordered(todo[d])
  BY DEF StepsOrdered
<1>3. Without(todo'[Page], "verifier")
  <2>1. CASE c # Page
    BY <1>1, <2>1 DEF Equipped
  <2>2. CASE c = Page
    <3>1. todo[c] # <<>> => Without(Tail(todo[c]), "verifier")
      BY <1>2, <2>2, TailWithout DEF Equipped
    <3> QED BY <1>1, <2>2, <3>1
  <2> QED BY <2>1, <2>2
<1>4. ASSUME NEW d \in Caller, At(d, "exchange")' PROVE code'[d] \in Flow
  <2>1. CASE d # c
    BY <1>1, <1>4, <2>1 DEF Equipped, At
  <2>2. CASE d = c
    <3>1. new # <<>> /\ Head(new) = "exchange"
      BY <1>1, <1>4, <2>2 DEF At
    <3>2. new \notin Good
      <4> SUFFICES ASSUME new \in Good PROVE FALSE
        OBVIOUS
      <4>1. new \in Seq(StepName) /\ (1 \in 1..Len(new) => new[1] # "exchange")
        BY GoodBegins
      <4> QED BY <3>1, <4>1, HeadIsFirst
    <3>3. todo[c] # <<>> /\ new = Tail(todo[c])
      BY <3>2 DEF Moves
    <3>4. Head(todo[c]) = "take"
      BY <1>2, <3>1, <3>3, TakeBefore
    <3> QED BY <2>2, <3>2, <3>4
  <2> QED BY <2>1, <2>2
<1> QED BY <1>3, <1>4 DEF Equipped

LEMMA OnwardEquipped ==
    ASSUME StepsOrdered, Equipped, NEW c \in Caller, NEW new, Moves(c, new), Onward(c, new), UNCHANGED code
    PROVE  Equipped'
<1>1. c = Page => Without(new, "verifier") \/ (todo[c] # <<>> /\ new = Tail(todo[c]))
  BY DEF Onward, Stops
<1>2. new \in Good \/ (Head(todo[c]) = "take" => code'[c] \in Flow)
  BY DEF Onward
<1> QED BY <1>1, <1>2, EquippedStays

LEMMA SpecialEquipped ==
    ASSUME StepsOrdered, Equipped, Kept, NEW c \in Caller, Special(c)
    PROVE  Equipped'
<1>1. CASE \E f \in Redeemable : TakeVerifier(c, f)
  <2>1. PICK f \in Redeemable : TakeVerifier(c, f)
    BY <1>1
  <2>2. f \in Flow
    BY DEF Redeemable, Kept
  <2>3. todo[c] # <<>> /\ Continues(c) /\ code' = [code EXCEPT ![c] = f]
    BY <2>1 DEF TakeVerifier, At
  <2>4. Moves(c, Tail(todo[c]))
    BY <2>3, ContinuesTurns DEF Moves
  <2>5. code'[c] \in Flow /\ \A d \in Caller \ {c} : code'[d] = code[d]
    BY <2>2, <2>3 DEF Kept
  <2> QED BY <2>3, <2>4, <2>5, EquippedStays
<1>2. CASE ~ \E f \in Redeemable : TakeVerifier(c, f)
  <2>1. todo[c] # <<>> /\ Head(todo[c]) # "take" /\ (Continues(c) \/ Fails(c) \/ Throws(c)) /\ UNCHANGED code
    BY <1>2 DEF Special, getCodeChallengeAndMethod, Exchange, ExchangeFails, ForgetVerifier, SaveSession,
                RemoveSession, NotifyAllSubscribers, At, flowVars, Event
  <2>2. \E new : Moves(c, new) /\ Onward(c, new)
    <3>1. CASE Continues(c)
      <4>1. Moves(c, Tail(todo[c])) /\ Onward(c, Tail(todo[c]))
        BY <2>1, <3>1, ContinuesTurns DEF Moves, Onward
      <4> QED BY <4>1
    <3>2. CASE Fails(c)
      BY <3>2, FailsTurns DEF Moves, Onward, Stops
    <3>3. CASE Throws(c)
      BY <3>3, ThrowsTurns DEF Moves, Onward, Stops
    <3> QED BY <2>1, <3>1, <3>2, <3>3
  <2> QED BY <2>1, <2>2, OnwardEquipped
<1> QED BY <1>1, <1>2

LEMMA EquippedStep == ASSUME StepsOrdered, Equipped, Kept, Next PROVE Equipped'
<1>1. Page \in Caller /\ Call \subseteq Caller
  BY DEF Caller
<1>2. ASSUME NEW c \in Caller, Calm(c) PROVE Equipped'
  <2>1. PICK new : Quiet(c, new) /\ FlowQuiet(c, new) /\ Turns(c, new)
    BY <1>2 DEF Calm
  <2>2. Moves(c, new) /\ Onward(c, new) /\ UNCHANGED code
    BY <2>1, CalmMoves DEF FlowQuiet, flowVars
  <2> QED BY <2>2, OnwardEquipped
<1>3. ASSUME NEW url, Detect(url) PROVE Equipped'
  <2> DEFINE new == InitializeSteps(url)
  <2>1. Moves(Page, new) /\ new \in Good /\ Without(new, "verifier")
    BY <1>1, <1>3, DetectMoves, CalmMoves, InitializeGood, InitializeBeginsNone
  <2>2. \A d \in Caller \ {Page} : code'[d] = code[d]
    BY <1>3 DEF Detect, Kept
  <2> HIDE DEF new
  <2> QED BY <1>1, <2>1, <2>2, EquippedStays
<1>4. CASE Recover
  <2>1. PICK new : Moves(Page, new) /\ (new \in Stops \/ new = Tail(todo[Page]))
    BY <1>4, RecoverMoves
  <2>2. todo[Page] # <<>> /\ Head(todo[Page]) # "take" /\ UNCHANGED code
    BY <1>4 DEF Recover, At, flowVars
  <2>3. Onward(Page, new)
    BY <2>1, <2>2 DEF Onward, Stops
  <2> QED BY <1>1, <2>1, <2>2, <2>3, OnwardEquipped
<1>5. CASE \E c \in Call : \E steps \in Methods : Begin(c, steps)
  BY <1>1, <1>2, <1>5, BeginCalm
<1>6. CASE \E c \in Caller : Step(c)
  BY <1>2, <1>6, StepKinds, SpecialEquipped
<1> QED BY <1>3, <1>4, <1>5, <1>6 DEF Next
-----------------------------------------------------------------------------
LEMMA KeptStep == ASSUME StepsOrdered, Equipped, Kept, Next PROVE Kept'
<1>1. Page \in Caller /\ Call \subseteq Caller
  BY DEF Caller
<1>2. SUFFICES ResultKept /\ SessionsKept /\ FlowsKept
  BY DEF Kept, ResultKept, SessionsKept, FlowsKept
<1>3. ASSUME NEW url, Detect(url) PROVE ResultKept /\ SessionsKept /\ FlowsKept
  <2>1. ResultKept
    BY <1>1, <1>3, GoesResult DEF Detect
  <2>2. SessionsKept
    BY <1>3 DEF Detect, sessionVars, Kept, SessionsKept
  <2>3. code' \in [Caller -> Flow \cup {None}]
    <3>1. Earlier \in Flow \cup {None}
      BY DEF Flow
    <3> QED BY <1>3, <3>1 DEF Detect, Kept
  <2> QED BY <1>3, <2>1, <2>2, <2>3 DEF Detect, Kept, FlowsKept
<1>4. CASE Recover
  <2>1. ResultKept
    BY <1>1, <1>4, GoesResult DEF Recover
  <2>2. SessionsKept
    BY <1>1, <1>4, HeldSessions DEF Recover
  <2> QED BY <1>4, <2>1, <2>2 DEF Recover, flowVars, Kept, FlowsKept
<1>5. ASSUME NEW c \in Call, NEW steps \in Methods, Begin(c, steps) PROVE ResultKept /\ SessionsKept /\ FlowsKept
  BY <1>5 DEF Begin, sessionVars, flowVars, Kept, ResultKept, SessionsKept, FlowsKept
<1>6. ASSUME NEW c \in Caller, Step(c) PROVE ResultKept /\ SessionsKept /\ FlowsKept
  <2>1. ASSUME At(c, "verifier") PROVE c \in Call
    <3>1. todo[c] \in Seq(StepName)
      BY DEF StepsOrdered
    <3>2. todo[c][1] = "verifier" /\ 1 \in 1..Len(todo[c])
      BY <2>1, <3>1, HeadIsFirst DEF At
    <3>3. c # Page
      BY <3>2 DEF Equipped, Without
    <3> QED BY <3>3 DEF Caller
  <2>2. At(c, "exchange") => code[c] \in Flow
    BY DEF Equipped
  <2> QED BY <1>6, <2>1, <2>2, StepResult, StepSessions, StepFlows
<1> QED BY <1>3, <1>4, <1>5, <1>6 DEF Next

LEMMA Begun == Init => ApiInv
<1> SUFFICES ASSUME Init PROVE ApiInv
  OBVIOUS
<1>1. Page \in Caller /\ Call \subseteq Caller
  BY DEF Caller
<1>2. \A c \in Caller : todo[c] = <<"detect">> \/ todo[c] = <<>>
  BY DEF Init
<1>3. <<>> \in Good /\ <<"detect">> \in Good
  <2>1. <<>> \in Good
    BY StopsAre DEF Stops
  <2>2. <<"detect">> \in Good
    BY DEF Good, StepName, Plain, WellBegun, Ordered, Arrival, Change, Event
  <2> QED BY <2>1, <2>2
<1>4. \A c \in Caller : todo[c] \in Good
  BY <1>2, <1>3
<1>5. \A c \in Caller : todo[c] \in Seq(StepName) /\ Ordered(todo[c]) /\ ~Tells(todo[c]) /\ ~Forgets(todo[c])
  BY <1>4, GoodBegins
<1>6. StepsOrdered
  <2>1. todo = [c \in Caller |-> todo[c]]
    BY DEF Init
  <2> QED BY <1>5, <2>1 DEF StepsOrdered
<1>7. OneHolder
  BY <1>1 DEF Init, OneHolder
<1>8. VerifierKept
  BY <1>5 DEF Init, VerifierKept
<1>9. CodeKept
  BY <1>1 DEF Init, CodeKept
<1>10. WillBeTold
  BY <1>5 DEF Init, WillBeTold
<1>11. Kept
  BY DEF Init, Kept, Session, Flow
<1>12. Equipped
  <2>1. Without(<<"detect">>, "verifier") /\ Without(<<>>, "verifier")
    BY DEF Without
  <2>2. \A c \in Caller : todo[c] # <<>> => Head(todo[c]) = "detect"
    BY <1>2
  <2> QED BY <1>1, <1>2, <2>1, <2>2 DEF Equipped, At
<1> QED BY <1>6, <1>7, <1>8, <1>9, <1>10, <1>11, <1>12 DEF ApiInv

LEMMA Keeps == ApiInv /\ [Next]_vars => ApiInv'
<1> SUFFICES ASSUME ApiInv, [Next]_vars PROVE ApiInv'
  OBVIOUS
<1> USE DEF ApiInv
<1>1. CASE Next
  <2>1. StepsOrdered' /\ OneHolder'
    BY <1>1, AllMove, MovesOrdered
  <2> QED BY <1>1, <2>1, VerifierStep, CodeStep, ToldStep, KeptStep, EquippedStep
<1>2. CASE UNCHANGED vars
  <2> USE <1>2 DEF vars, sessionVars, flowVars
  <2>1. StepsOrdered'
    BY DEF StepsOrdered
  <2>2. OneHolder'
    BY DEF OneHolder
  <2>3. VerifierKept'
    BY DEF VerifierKept
  <2>4. CodeKept'
    BY DEF CodeKept, At
  <2>5. WillBeTold'
    BY DEF WillBeTold, Announced
  <2>6. Kept'
    BY DEF Kept
  <2>7. Equipped'
    BY DEF Equipped, At
  <2> QED BY <2>1, <2>2, <2>3, <2>4, <2>5, <2>6, <2>7
<1> QED BY <1>1, <1>2

LEMMA Invariant == Spec => []ApiInv
BY Begun, Keeps, PTL DEF Spec

\* The variables of the client keep their types, and one caller at most holds the lock: _acquireLock
\* lets nobody in before lockAcquired is false again.
THEOREM ApiTyped == Spec => []TypeOK
<1>1. ASSUME ApiInv PROVE TypeOK
  <2>1. holders \in SUBSET Caller /\ Cardinality(holders) <= 1
    <3>1. holders = {} \/ \E c \in Caller : holders = {c}
      BY <1>1 DEF ApiInv, OneHolder
    <3> QED BY <3>1, FS_EmptySet, FS_Singleton
  <2> QED BY <1>1, <2>1 DEF TypeOK, ApiInv, Kept
<1> QED BY <1>1, Invariant, PTL

\* However the calls interleave, with the lock or without it, the last event that subscribers got told
\* them of the session in storage, once nothing is under way; unless a change and an event crossed.
THEOREM SubscribersKnow == Spec => []ToldIsStored
<1>1. ApiInv => ToldIsStored
  BY DEF ApiInv, WillBeTold, ToldIsStored, Tells, Saves
<1> QED BY <1>1, Invariant, PTL

\* A code is refused for want of its verifier only once another flow began, a code was exchanged or the
\* session was removed: a failed exchange costs nothing, whichever step fails and whoever else exchanges.
THEOREM CodesRedeemable == Spec => []CodeRedeemable
<1>1. ApiInv => CodeRedeemable
  BY DEF ApiInv, CodeKept, CodeRedeemable
<1> QED BY <1>1, Invariant, PTL
====
