---------------------------- MODULE LibraryCalls ----------------------------
(***************************************************************************)
(* A call of storage-js, its vectors, postgrest-js, functions-js or the    *)
(* admin API of auth-js: one request, and what the library makes of the    *)
(* answer, whatever that is and whoever aborts it on the way.  A method is *)
(* what it asks of the answer; methods that ask the same are one.  The     *)
(* network, the servers and the application are external.                  *)
(***************************************************************************)
EXTENDS Naturals, FiniteSets

CONSTANT MaxAwaits          \* bound: how often one builder is awaited

(* What a body may be: JSON of some shape, or not JSON, or cut off by an abort or the network. *)
Arrays == {"no rows", "row", "rows"}
Json == Arrays \cup {"object", "0 rows", "null"}       \* "0 rows": an error whose details say so
Whole == Json \cup {"text", "empty"}
Body == Whole \cup {"cut"}

NoAnswer == [status |-> "none", body |-> "cut", typed |-> FALSE, relay |-> FALSE]
Answer == [status : {"200", "404", "500"}, body : Body, typed : BOOLEAN, relay : BOOLEAN]
Ok(a) == a.status = "200"

(* A method: the bodies of a 200 it can use; those it needs read at all; whether it checks its
   arguments; and what the promise of its builder is.  "eager" methods make their one request,
   "lazy" builders when awaited, "cached" ones when first awaited. *)
Method(library, usable, reads, checked, promise) ==
    [library |-> library, usable |-> usable, reads |-> reads, checked |-> checked, promise |-> promise]

Objects == Json \ {"null"}
Plain(library) == Method(library, Json, TRUE, FALSE, "eager")
OfFields(library) == Method(library, Objects, TRUE, FALSE, "eager")
Checked(method) == [method EXCEPT !.checked = TRUE]

(* storage-js.  Methods that return fields of the answer cannot do with null. *)
uploadOrUpdate == OfFields("storage")
uploadToSignedUrl == OfFields("storage")
createSignedUploadUrl == Method("storage upload url", Objects, TRUE, FALSE, "eager")
move == Plain("storage")
copy == OfFields("storage")
createSignedUrl == OfFields("storage")
createSignedUrls == Method("storage", Arrays, TRUE, FALSE, "eager")
info == Plain("storage")
remove == Plain("storage")
list == Plain("storage")
listV2 == Plain("storage")
exists == Method("storage exists", Body, FALSE, FALSE, "eager")
download == Method("storage response", Whole, TRUE, FALSE, "cached")
asStream == Method("storage response", Body, FALSE, FALSE, "lazy")
listBuckets == Plain("storage")
getBucket == Plain("storage")
createBucket == Plain("storage")
updateBucket == Plain("storage")
emptyBucket == Plain("storage")
deleteBucket == Plain("storage")
createAnalyticsBucket == Plain("storage")
listAnalyticsBuckets == Plain("storage")
deleteAnalyticsBucket == Plain("storage")

(* Vectors of storage-js. *)
createVectorBucket == Plain("vectors")
getVectorBucket == Plain("vectors")
listVectorBuckets == Plain("vectors")
deleteVectorBucket == Plain("vectors")
createIndex == Plain("vectors")
getIndex == Plain("vectors")
listIndexes == Plain("vectors")
deleteIndex == Plain("vectors")
putVectors == Checked(Plain("vectors"))
getVectors == Plain("vectors")
listVectors == Checked(Plain("vectors"))
queryVectors == Plain("vectors")
deleteVectors == Checked(Plain("vectors"))

(* The admin API of auth-js.  A list comes with its headers, so that its body is read late. *)
adminSignOut == Checked(Method("admin", Body, FALSE, FALSE, "eager"))
inviteUserByEmail == OfFields("admin")
generateLink == OfFields("admin")
createUser == OfFields("admin")
listUsers == Method("admin response", Json, TRUE, FALSE, "eager")
getUserById == Checked(OfFields("admin"))
updateUserById == Checked(OfFields("admin"))
deleteUser == Checked(OfFields("admin"))
adminListFactors == Checked(Plain("admin"))
adminDeleteFactor == Checked(Plain("admin"))
listOAuthClients == Method("admin response", Json, TRUE, FALSE, "eager")
createOAuthClient == Plain("admin")
getOAuthClient == Plain("admin")
updateOAuthClient == Plain("admin")
deleteOAuthClient == Method("admin", Body, FALSE, FALSE, "eager")
regenerateOAuthClientSecret == Plain("admin")

(* postgrest-js and functions-js.  A HEAD has no body, a csv one that is not JSON. *)
query == Method("postgrest", Json \cup {"empty"}, TRUE, FALSE, "lazy")
csvQuery == Method("postgrest", Whole, TRUE, FALSE, "lazy")
headQuery == Method("postgrest", Body, FALSE, FALSE, "lazy")
maybeSingle == [query EXCEPT !.library = "postgrest maybeSingle"]
maybeSingleWritten == [query EXCEPT !.library = "postgrest maybeSingle written"]
invoke == Plain("functions")
invokeStream == Method("functions", Body, FALSE, FALSE, "eager")

Methods == {
    uploadOrUpdate, uploadToSignedUrl, createSignedUploadUrl, move, copy, createSignedUrl,
    createSignedUrls, info, remove, list, listV2, exists, download, asStream, listBuckets,
    getBucket, createBucket, updateBucket, emptyBucket, deleteBucket, createAnalyticsBucket,
    listAnalyticsBuckets, deleteAnalyticsBucket, createVectorBucket, getVectorBucket,
    listVectorBuckets, deleteVectorBucket, createIndex, getIndex, listIndexes, deleteIndex,
    putVectors, getVectors, listVectors, queryVectors, deleteVectors, adminSignOut,
    inviteUserByEmail, generateLink, createUser, listUsers, getUserById, updateUserById,
    deleteUser, adminListFactors, adminDeleteFactor, listOAuthClients, createOAuthClient,
    getOAuthClient, updateOAuthClient, deleteOAuthClient, regenerateOAuthClientSecret,
    query, csvQuery, headQuery, maybeSingle, maybeSingleWritten, invoke, invokeStream}

Storage == {"storage", "storage upload url", "storage exists", "storage response"}
Admin == {"admin", "admin response"}
Single == {"postgrest maybeSingle", "postgrest maybeSingle written"}
Postgrest == {"postgrest"} \cup Single
-----------------------------------------------------------------------------
(* What becomes of an answer: "data"; "error", one that the library knows; "other", any other
   exception; "false" of exists; "anyway", an error that is returned whatever was set. *)

\* Variant to refute: only what cannot be parsed is an error.
StorageRejectsGarbled(m, a) ==
    a.status = "none" \/ (m.library \notin {"storage exists", "storage response"} /\ a.body \notin Json)

\* _handleRequest and handleError of storage-js.
StorageRejects(m, a) ==
    ~Ok(a) \/ (m.library \notin {"storage exists", "storage response"} /\ a.body \notin Json)

StorageMakes(m, a) ==
    CASE StorageRejects(m, a) /\ m.library = "storage exists" ->
            IF a.status = "404" THEN "false" ELSE "other"
      [] StorageRejects(m, a) /\ m.library # "storage exists" -> "error"
      [] OTHER -> IF a.body \in m.usable THEN "data" ELSE "other"

\* The vectors of storage-js: an answer that does not say it is JSON is {}.
VectorsMake(a) == IF Ok(a) /\ (a.typed => a.body \in Json) THEN "data" ELSE "error"

\* An answer of the auth server that is no 200, and whose body is null: _getErrorMessage of
\* auth-js reads a field of it, and throws a TypeError in the place of an AuthError.
NullError(m, a) == m.library \in Admin /\ a.status \notin {"200", "none"} /\ a.body = "null"

\* _handleRequest and handleError of auth-js, the parsing of listUsers, and what xform makes of null.
AdminMakes(m, a) ==
    CASE NullError(m, a) -> "other"
      [] ~NullError(m, a) /\ (~Ok(a) \/ (m.library = "admin" /\ m.reads /\ a.body \notin Json)) -> "error"
      [] OTHER -> IF a.body \in m.usable THEN "data" ELSE "other"

\* The errors of PostgREST: an array or nothing at all with a 404 is an empty result; "null" is
\* an error that is none; and maybeSingle means no rows.
NotAnError(m, a) ==
    \/ a.status = "404" /\ a.body \in Arrays \cup {"empty"}
    \/ a.body = "null"
    \/ m.library \in Single /\ a.body = "0 rows"

PostgrestMakes(m, a) ==
    IF a.status = "none" \/ (a.body = "cut" /\ (m.reads \/ ~Ok(a))) THEN "error"
    ELSE IF ~Ok(a) THEN IF NotAnError(m, a) THEN "data" ELSE "error"
    ELSE IF m.library = "postgrest maybeSingle" /\ a.body = "rows" THEN "anyway"
    ELSE IF a.body \in m.usable THEN "data" ELSE "error"

\* What is typed JSON must be, any other body need only come; a stream is not waited for.
FunctionsMake(m, a) ==
    IF Ok(a) /\ ~a.relay /\ (m.reads => a.body # "cut" /\ (a.typed => a.body \in Json))
    THEN "data" ELSE "error"

\* A signed upload URL whose answer has no token is an error of the library's own.
Makes(m, a) ==
    CASE m.library \in Storage -> {StorageMakes(m, a)}
            \cup (IF m.library = "storage upload url" /\ StorageMakes(m, a) = "data" THEN {"error"} ELSE {})
      [] m.library = "vectors" -> {VectorsMake(a)}
      [] m.library \in Admin -> {AdminMakes(m, a)}
      [] m.library \in Postgrest -> {PostgrestMakes(m, a)}
      [] m.library = "functions" -> {FunctionsMake(m, a)}

\* throwOnError: with it errors are thrown; without it those the library knows are returned,
\* and postgrest-js knows them all.
Told(throwing, made) ==
    CASE made = "other" \/ (throwing /\ made \in {"error", "false"}) -> "thrown"
      [] made = "anyway" \/ (~throwing /\ made = "error") -> "error"
      [] OTHER -> made
-----------------------------------------------------------------------------
VARIABLES
    method, throwing,       \* the call and its setting
    signal,                 \* "none", "given", or "aborted" before the call
    timeout,                \* the call has a timeout (functions-js)
    step,                   \* "new", "sent", "answered", "done"
    awaits,                 \* how often the builder was awaited
    requests,               \* requests it made
    answer,
    aborted,                \* the application has aborted its signal
    stopped,                \* the signal that the request got is aborted
    timer,                  \* "off", "set", "fired"
    outcome                 \* "none", "data", "error", "false", "thrown"

vars == <<method, throwing, signal, timeout, step, awaits, requests, answer, aborted, stopped, timer, outcome>>
call == <<method, throwing, signal, timeout>>

CanThrow(m) == m.library \notin Admin \cup {"functions"}
CanAbort(m) == m.library \in Postgrest \cup {"functions"} \/ m = list

Init ==
    /\ method \in Methods
    /\ throwing \in {CanThrow(method), FALSE}
    /\ signal \in IF CanAbort(method) THEN {"none", "given", "aborted"} ELSE {"none"}
    /\ timeout \in {method.library = "functions", FALSE}
    /\ step = "new" /\ awaits = 1 /\ requests = 0 /\ answer = NoAnswer
    /\ aborted = (signal = "aborted") /\ stopped = FALSE
    /\ timer = "off" /\ outcome = "none"

\* The end of a call, in the finally of invoke also of its timer.
Ends(how) ==
    /\ step' = "done" /\ outcome' = how
    /\ timer' = IF timer = "set" THEN "off" ELSE timer

\* Arguments that do not pass: an Error of no library, before any request.
Refuse ==
    /\ step = "new" /\ method.checked
    /\ Ends("thrown")
    /\ UNCHANGED <<call, awaits, requests, answer, aborted, stopped>>

\* The request gets the application's signal, or with a timeout one of its own, that follows
\* the application's from then on.
Send ==
    /\ step = "new" /\ step' = "sent"
    /\ requests' = requests + 1
    /\ timer' = IF timeout THEN "set" ELSE "off"
    /\ stopped' = (aborted /\ ~timeout)
    /\ UNCHANGED <<call, awaits, answer, aborted, outcome>>

\* fetchWithAuth gets no access token: fetch rejects and nothing is sent.
NoToken ==
    /\ step = "new" /\ method.library \notin Admin
    /\ \E made \in Makes(method, NoAnswer) : Ends(Told(throwing, made))
    /\ UNCHANGED <<call, awaits, requests, answer, aborted, stopped>>

Abort ==
    /\ step \in {"sent", "answered"} \/ (step = "new" /\ method.promise = "lazy")
    /\ signal # "none" /\ ~aborted
    /\ aborted' = TRUE /\ stopped' = (step # "new")
    /\ UNCHANGED <<call, step, awaits, requests, answer, timer, outcome>>

Timeout ==
    /\ timer = "set" /\ timer' = "fired" /\ stopped' = TRUE
    /\ UNCHANGED <<call, step, awaits, requests, answer, aborted, outcome>>

\* The head of an answer; its body is on the way.
AnswerArrives ==
    /\ step = "sent" /\ ~stopped
    /\ step' = "answered" /\ answer' \in Answer
    /\ UNCHANGED <<call, awaits, requests, aborted, stopped, timer, outcome>>

\* fetch rejects: the network fails, or the signal is aborted.
NeverArrives ==
    /\ step = "sent"
    /\ \E made \in Makes(method, NoAnswer) : Ends(Told(throwing, made))
    /\ UNCHANGED <<call, awaits, requests, answer, aborted, stopped>>

BodyArrives ==
    /\ step = "answered"
    /\ \E body \in {"cut", IF stopped THEN "cut" ELSE answer.body} :
          /\ answer' = [answer EXCEPT !.body = body]
          /\ \E made \in Makes(method, answer') : Ends(Told(throwing, made))
    /\ UNCHANGED <<call, awaits, requests, aborted, stopped>>

\* A builder awaited once more: a Blob builder has its promise, the others run again.
AwaitAgain ==
    /\ step = "done" /\ method.promise # "eager"
    /\ awaits < MaxAwaits /\ awaits' = awaits + 1
    /\ IF method.promise = "cached"
         THEN UNCHANGED <<step, answer, outcome>>
         ELSE step' = "new" /\ answer' = NoAnswer /\ outcome' = "none"
    /\ stopped' = (stopped /\ step' = "done")
    /\ UNCHANGED <<call, requests, aborted, timer>>

Next ==
    Refuse \/ Send \/ NoToken \/ Abort \/ Timeout \/ AnswerArrives \/ NeverArrives \/ BodyArrives
    \/ AwaitAgain

Spec == Init /\ [][Next]_vars
-----------------------------------------------------------------------------
TypeOK ==
    /\ method \in Methods /\ throwing \in BOOLEAN /\ timeout \in BOOLEAN
    /\ step \in {"new", "sent", "answered", "done"}
    /\ awaits \in 1..MaxAwaits /\ requests \in 0..awaits
    /\ answer \in Answer \cup {NoAnswer}
    /\ timer \in {"off", "set", "fired"}
    /\ outcome \in {"none", "data", "error", "false", "thrown"}

\* An answer that is no 200 is data only as PostgREST's results that are not errors.
DataIsAnswer == outcome = "data" => Ok(answer) \/ (method.library \in Postgrest /\ NotAnError(method, answer))

\* Arguments that do not pass, an existence that could not be found out, a 200 whose body a library
\* cannot use, and an error of the auth server that is null, are thrown whatever was set.
ThrowsAnyway ==
    \/ requests = 0 /\ method.checked
    \/ Ok(answer) /\ answer.body \notin method.usable
    \/ method.library = "storage exists" /\ answer.status # "404"
    \/ NullError(method, answer)

\* An error is thrown if that was set, but for the many rows of maybeSingle, and else returned.
ErrorsAsSet ==
    /\ outcome = "error" => ~throwing \/ (method.library = "postgrest maybeSingle" /\ answer.body = "rows")
    /\ outcome = "thrown" => throwing \/ ThrowsAnyway

\* No data once the application has aborted the call, but for what is not read any further, and
\* for an abort that came before an invoke with a timeout, which does not hear of it.
AbortsHeard == outcome = "data" /\ aborted => ~method.reads \/ (signal = "aborted" /\ timeout)

\* A call tells of the server's answer what it was, in the way that was asked for, unless it is
\* aborted; a call that has ended leaves no timer; and a Blob is downloaded once.
FailuresShow ==
    /\ DataIsAnswer /\ ErrorsAsSet /\ AbortsHeard
    /\ step = "done" => timer # "set"
    /\ method.promise = "cached" => requests <= 1
=============================================================================
