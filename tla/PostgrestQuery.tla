---------------------------- MODULE PostgrestQuery ----------------------------
(***************************************************************************)
(* The builders of postgrest-js: from() makes a query builder, its methods *)
(* make filter builders, whose methods edit a URL and headers, and then()  *)
(* sends what they have come to.  A query builder shares its one URL       *)
(* object, and its Prefer header, with all the builders made from it.      *)
(* Names, values and header texts are members of small sets; what PostgREST*)
(* reads from a request is external.                                       *)
(***************************************************************************)
EXTENDS Naturals, Sequences, SequencesExt, Functions

CONSTANTS
    Chain,                  \* chains of calls, each made from one query builder
    Source,                 \* query builders and URL objects
    Column,                 \* columns, also with the name of a parameter
    Operator,               \* the operators tried
    MaxCalls                \* bound: calls of all chains together

\* The parameters of PostgREST that are not columns.
Parameter == {"select", "columns", "on_conflict", "order", "limit", "offset"}

\* Filter methods by what they put before the value: eq to ilike, the lists of patterns, is to
\* containedBy, ranges, and the rest; match is several eq.
comparisons == {"eq", "neq", "gt", "gte", "lt", "lte", "like", "ilike"}
patterns == {"like(all)", "like(any)", "ilike(all)", "ilike(any)"}
containments == {"is", "in", "cs", "cd"}
ranges == {"sr", "nxl", "sl", "nxr", "adj"}
others == {"ov", "fts", "plfts", "phfts", "wfts"}
negation == {"not"}
FilterOperator == comparisons \cup patterns \cup containments \cup ranges \cup others \cup negation

VARIABLES
    params,                 \* url.searchParams of each source: pairs of a key and a value
    preferred,              \* the Prefer header of each query builder
    from,                   \* the source of a chain, Unset before it has one
    request,                \* the method, Prefer and Accept of each filter builder
    calls                   \* history: the calls of each chain

vars == <<params, preferred, from, request, calls>>

Unset == "none"
Nothing == [method |-> Unset, prefer |-> <<>>, accept |-> <<>>]

Init ==
    /\ params = [s \in Source |-> <<>>] /\ preferred = [s \in Source |-> <<>>]
    /\ from = [c \in Chain |-> Unset]
    /\ request = [c \in Chain |-> Nothing]
    /\ calls = [c \in Chain |-> <<>>]
-----------------------------------------------------------------------------
\* The members of a sequence at some indices, in their order, and those of a key or a name.
Picked(members, indices) ==
    LET picked[i \in 0..Len(members)] ==
          IF i = 0 THEN <<>>
          ELSE IF i \in indices THEN Append(picked[i - 1], members[i])
          ELSE picked[i - 1]
    IN  picked[Len(members)]

With(members, key) == {i \in DOMAIN members : members[i][1] = key}

\* URLSearchParams: append adds a pair; set changes the first one of a key, or adds it, and
\* drops the others.
AppendParam(pairs, key, value) == Append(pairs, <<key, value>>)

SetParam(pairs, key, value) ==
    LET has == With(pairs, key)
    IN  IF has = {} THEN AppendParam(pairs, key, value)
        ELSE Picked([pairs EXCEPT ![Min(has)] = <<key, value>>], {Min(has)} \cup (DOMAIN pairs \ has))

SetParams(pairs, added) ==
    LET set[i \in 0..Len(added)] ==
          IF i = 0 THEN pairs ELSE SetParam(set[i - 1], added[i][1], added[i][2])
    IN  set[Len(added)]

GetParam(pairs, key) ==
    IF With(pairs, key) = {} THEN <<>> ELSE pairs[Min(With(pairs, key))][2]

Made == FoldFunction(LAMBDA chain, made : Len(chain) + made, 0, calls)
Called(c, call) == Made < MaxCalls /\ calls' = [calls EXCEPT ![c] = Append(@, call)]

\* A call of a filter builder that leaves the pairs as they are given.
Edits(c, pairs, call) ==
    /\ request[c] # Nothing
    /\ Called(c, call)
    /\ params' = [params EXCEPT ![from[c]] = pairs]
    /\ UNCHANGED <<preferred, from>>
-----------------------------------------------------------------------------
\* PostgrestClient.from, of a new query builder, or the use of one for another chain.
From(c, s) ==
    /\ from[c] = Unset
    /\ from' = [from EXCEPT ![c] = s]
    /\ UNCHANGED <<params, preferred, request, calls>>

\* The filter builder copies the headers of the query builder, and not the URL.
Builds(c, method, prefers, pairs) ==
    LET s == from[c] IN
    /\ s # Unset /\ request[c] = Nothing
    /\ Called(c, <<method, prefers, pairs>>)
    /\ preferred' = [preferred EXCEPT ![s] = @ \o prefers]
    /\ params' = [params EXCEPT ![s] = SetParams(@, pairs)]
    /\ request' = [request EXCEPT ![c] =
                    [method |-> method, prefer |-> preferred'[s], accept |-> <<>>]]
    /\ UNCHANGED from

count == {<<>>, <<"count">>}

select(c) ==
    \E method \in {"GET", "HEAD"}, k \in count : Builds(c, method, k, <<<<"select", <<"*">>>>>>)

bulk == {<<>>, <<<<"columns", <<"all">>>>>>}

insert(c) ==
    \E k \in count, missing \in {<<>>, <<"missing=default">>}, pairs \in bulk :
        Builds(c, "POST", k \o missing, pairs)

upsert(c) ==
    \E resolution \in {"ignore", "merge"}, k \in count, missing \in {<<>>, <<"missing=default">>},
            pairs \in bulk, conflict \in {<<>>, <<<<"on_conflict", <<"id">>>>>>} :
        Builds(c, "POST", <<resolution>> \o k \o missing, conflict \o pairs)

update(c) == \E k \in count : Builds(c, "PATCH", k, <<>>)
delete(c) == \E k \in count : Builds(c, "DELETE", k, <<>>)

\* rpc, with the arguments in the body, or appended as parameters.
rpc(c, s) ==
    /\ from[c] = Unset /\ \A d \in Chain : from[d] # s
    /\ from' = [from EXCEPT ![c] = s]
    /\ \E method \in {"GET", "HEAD", "POST"}, k \in count, name \in Column :
          /\ Called(c, <<"rpc", name>>)
          /\ request' = [request EXCEPT ![c] = [method |-> method, prefer |-> k, accept |-> <<>>]]
          /\ params' = [params EXCEPT ![s] =
                          IF method = "POST" THEN @ ELSE AppendParam(@, name, <<"rpc">>)]
    /\ UNCHANGED preferred
-----------------------------------------------------------------------------
\* Variant to refute: a filter replaces the one on its column.
FilteredOnce(pairs, column, operator) == SetParam(pairs, column, <<operator>>)

\* All filter methods.
Filtered(pairs, column, operator) == AppendParam(pairs, column, <<operator>>)

filter(c, column, operator) ==
    /\ Edits(c, Filtered(params[from[c]], column, operator), <<"filter", column, operator>>)
    /\ UNCHANGED request

\* The order that is there is a prefix of the new one.
order(c, column) ==
    LET pairs == params[from[c]] IN
    /\ Edits(c, SetParam(pairs, "order", GetParam(pairs, "order") \o <<column>>), <<"order", column>>)
    /\ UNCHANGED request

limit(c, n) ==
    /\ Edits(c, SetParam(params[from[c]], "limit", <<n>>), <<"limit", n>>)
    /\ UNCHANGED request

range(c, first, last) ==
    /\ Edits(c, SetParam(SetParam(params[from[c]], "offset", <<first>>), "limit", <<last - first + 1>>),
             <<"range", first, last>>)
    /\ UNCHANGED request

\* select of the rows that were written.
returning(c) ==
    /\ Edits(c, SetParam(params[from[c]], "select", <<"*">>), <<"returning">>)
    /\ request' = [request EXCEPT ![c].prefer = Append(@, "return=representation")]

\* single, maybeSingle, csv and geojson set the Accept header; explain wraps it.
Formatted(c, name, accept) ==
    /\ Edits(c, params[from[c]], <<name>>)
    /\ request' = [request EXCEPT ![c].accept = accept]

single(c) == Formatted(c, "single", <<"object">>)
maybeSingle(c) ==
    Formatted(c, "maybeSingle", IF request[c].method = "GET" THEN <<"json">> ELSE <<"object">>)
csv(c) == Formatted(c, "csv", <<"csv">>)
geojson(c) == Formatted(c, "geojson", <<"geojson">>)
explain(c) ==
    Formatted(c, "explain",
              <<"plan">> \o (IF request[c].accept = <<>> THEN <<"json">> ELSE request[c].accept))

Preferring(c, name, tokens) ==
    /\ Edits(c, params[from[c]], <<name>>)
    /\ request' = [request EXCEPT ![c].prefer = @ \o tokens]

rollback(c) == Preferring(c, "rollback", <<"tx=rollback">>)
maxAffected(c) == Preferring(c, "maxAffected", <<"handling=strict", "max-affected">>)

\* What then sends, each time the builder is awaited.
then(c) ==
    [method |-> request[c].method, prefer |-> request[c].prefer, accept |-> request[c].accept,
     profile |-> IF request[c].method \in {"GET", "HEAD"} THEN "Accept-Profile" ELSE "Content-Profile",
     params |-> params[from[c]]]

Next ==
    \E c \in Chain :
        \/ \E s \in Source : From(c, s) \/ rpc(c, s)
        \/ select(c) \/ insert(c) \/ upsert(c) \/ update(c) \/ delete(c)
        \/ \E column \in Column :
              order(c, column) \/ \E operator \in Operator : filter(c, column, operator)
        \/ limit(c, 7) \/ range(c, 2, 4) \/ returning(c)
        \/ single(c) \/ maybeSingle(c) \/ csv(c) \/ geojson(c) \/ explain(c)
        \/ rollback(c) \/ maxAffected(c)

Spec == Init /\ [][Next]_vars
-----------------------------------------------------------------------------
TypeOK ==
    /\ from \in [Chain -> Source \cup {Unset}]
    /\ Made <= MaxCalls /\ Operator \subseteq FilterOperator
    /\ \A c \in Chain : request[c].method \in {Unset, "GET", "HEAD", "POST", "PATCH", "DELETE"}

\* What a chain of calls asks for, call by call and without the URL.
Means(asked) ==
    LET Of(name) == Picked(asked, With(asked, name))
        paging == Picked(asked, With(asked, "limit") \cup With(asked, "range"))
        ranged == Of("range")
    IN  [filters |-> [i \in DOMAIN Of("filter") |-> <<Of("filter")[i][2], <<Of("filter")[i][3]>>>>],
         order |-> [i \in DOMAIN Of("order") |-> Of("order")[i][2]],
         limit |-> IF paging = <<>> THEN <<>>
                   ELSE IF Last(paging)[1] = "limit" THEN <<Last(paging)[2]>>
                   ELSE <<Last(paging)[3] - Last(paging)[2] + 1>>,
         offset |-> IF ranged = <<>> THEN <<>> ELSE <<Last(ranged)[2]>>]

\* What PostgREST makes of the parameters.
Reads(pairs) ==
    [filters |-> Picked(pairs, {i \in DOMAIN pairs : pairs[i][1] \notin Parameter /\ pairs[i][2] # <<"rpc">>}),
     order |-> GetParam(pairs, "order"),
     limit |-> GetParam(pairs, "limit"),
     offset |-> GetParam(pairs, "offset")]

Reused(c) == \E d \in Chain \ {c} : from[d] = from[c]
PlainColumns(asked) ==
    \A i \in DOMAIN asked : asked[i][1] \in {"filter", "rpc"} => asked[i][2] \notin Parameter

\* Whenever it is awaited, a chain asks for all that its calls say and nothing else, in whatever
\* order they were made; but for a query builder used twice, whose chains edit one URL, and for a column or an
\* argument with the name of a parameter.
RequestIsItsChain ==
    \A c \in Chain :
        request[c] # Nothing /\ ~Reused(c) /\ PlainColumns(calls[c])
            => Reads(then(c).params) = Means(calls[c])
=============================================================================
