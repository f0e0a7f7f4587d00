------------------------------- MODULE Values -------------------------------
(***************************************************************************)
(* What happens to a value between its sender and the reader of a page:    *)
(* it is converted, hashed and written as JSON by value.go and objects.go, *)
(* parsed by fetchData (utils.js) and shown by renderProp (props.js).      *)
(*                                                                         *)
(* JSON is a pair <<type, content>> too: "text", "num" and "bool" with     *)
(* letters, "arr" with a sequence and "obj" with a function from keys.     *)
(***************************************************************************)
EXTENDS Objects, Utf8, FiniteSets, TLC, SequencesExt

CONSTANT KeyOrder     \* the keys there are, in the order of strings.Compare

IsStruct(v) == v[1] \in DOMAIN Structs

\* A value with all that is in it.
RECURSIVE Parts(_)
Parts(v) ==
    {v} \cup
    CASE v[1] = "array" -> UNION {Parts(v[2][i]) : i \in DOMAIN v[2]}
      [] v[1] \in {"map", "headers"} ->
            UNION {{<<"str", <<v[2][i][1][2]>>>>} \cup Parts(v[2][i][2]) : i \in DOMAIN v[2]}
      [] IsStruct(v) -> UNION {Parts(v[2][f]) : f \in DOMAIN v[2]}
      [] OTHER -> {}

-----------------------------------------------------------------------------
(* Converting *)

\* convertValue panics at an empty value.
Convertible(v) == \A x \in Parts(v) : x[1] # "empty"

Before(p, q) ==
    \E i, j \in DOMAIN KeyOrder : KeyOrder[i] = p[1] /\ KeyOrder[j] = q[1] /\ i < j

\* Mutant: the pairs are left in the order they were received in.
unsorted(pairs) == pairs

sorted(pairs) == SortSeq(pairs, Before)

RECURSIVE convertValue(_)
convertValue(v) ==
    CASE v[1] = "array" -> <<"array", [i \in DOMAIN v[2] |-> convertValue(v[2][i])]>>
      [] v[1] \in {"map", "headers"} ->
            <<v[1], sorted([i \in DOMAIN v[2] |-> <<v[2][i][1], convertValue(v[2][i][2])>>])>>
      [] IsStruct(v) -> <<v[1], [f \in DOMAIN v[2] |-> convertValue(v[2][f])]>>
      [] OTHER -> v

-----------------------------------------------------------------------------
(* Hashing: what is written into the hash, with nothing between the parts *)

KeyLetters(k) == [i \in 1 .. k[1] |-> "_"] \o <<k[2]>>

RECURSIVE hashInto(_)
hashInto(v) ==
    CASE v[1] = "array" -> FlattenSeq([i \in DOMAIN v[2] |-> hashInto(v[2][i])])
      [] v[1] \in {"map", "headers"} ->
            FlattenSeq([i \in DOMAIN v[2] |-> KeyLetters(v[2][i][1]) \o hashInto(v[2][i][2])])
      [] v[1] = "resource" ->
            hashInto(v[2].attr) \o hashInto(v[2].attrDropped) \o hashInto(v[2].schema)
      [] v[1] = "scope" ->
            hashInto(v[2].name) \o hashInto(v[2].version) \o hashInto(v[2].attr)
                \o hashInto(v[2].attrDropped) \o hashInto(v[2].schema)
      [] v[1] = "requestMeta" ->
            hashInto(v[2].transport) \o hashInto(v[2].peer) \o hashInto(v[2].headers)
      [] OTHER -> v[2]

-----------------------------------------------------------------------------
(* Writing JSON *)

\* stringValue.toJson panics at a string that is not UTF-8.
Writable(v) == \A x \in Parts(v) : x[1] = "str" => ValidString(x[2])

Mark ==
    [int |-> "int", uint |-> "int", ts |-> "ts", flags |-> "flg", bytes |-> "byt", reqId |-> "req",
     resId |-> "res", scopeId |-> "scope", spanId |-> "span"]

Marked(name, s) == <<1, name>> :> <<"text", s>>

RECURSIVE toJson(_)
toJson(v) ==
    LET Object(members) ==
            <<"obj", [k \in {key(m[1]) : m \in members} |->
                        toJson((CHOOSE m \in members : key(m[1]) = k)[2])]>>
    IN  CASE v[1] = "bool" -> <<"bool", v[2]>>
          [] v[1] = "double" -> <<"num", v[2]>>
          [] v[1] = "str" -> <<"text", v[2]>>
          [] v[1] = "array" -> <<"arr", [i \in DOMAIN v[2] |-> toJson(v[2][i])]>>
          [] v[1] = "map" -> Object(Range(v[2]))
          [] IsStruct(v) -> Object(Members(v[1], v[2]))
          [] v[1] = "traceSpan" ->
                <<"obj", Marked("trace", <<v[2][1]>>) @@ Marked("span", <<v[2][2]>>)>>
          [] OTHER -> <<"obj", Marked(Mark[v[1]], v[2])>>

-----------------------------------------------------------------------------
(* Parsing it, on the page *)

\* JSON has no word for what %g writes of these.
Unspeakable == {<<"NaN">>, <<"+Inf">>, <<"-Inf">>}

\* BigInt throws at any other text.
IntegerTexts == {<<"0">>, <<"1">>, <<"2">>, <<"-1">>, <<"2^64-1">>}

Has(o, name) == <<1, name>> \in DOMAIN o

\* JSON.parse, with its reviver, does not throw.
RECURSIVE Parses(_)
Parses(t) ==
    CASE t[1] = "num" -> t[2] \notin Unspeakable
      [] t[1] = "arr" -> \A i \in DOMAIN t[2] : Parses(t[2][i])
      [] t[1] = "obj" ->
            /\ \A k \in DOMAIN t[2] : Parses(t[2][k])
            /\ \A name \in {"int", "ts"} :
                Has(t[2], name) =>
                    t[2][<<1, name>>][1] = "text" /\ t[2][<<1, name>>][2] \in IntegerTexts
      [] OTHER -> TRUE

\* What the reviver of fetchData makes of it.
RECURSIVE revived(_)
revived(t) ==
    CASE t[1] = "arr" -> <<"arr", [i \in DOMAIN t[2] |-> revived(t[2][i])]>>
      [] t[1] = "obj" ->
            IF Has(t[2], "int") THEN <<"bigint", t[2][<<1, "int">>][2]>>
            ELSE IF Has(t[2], "ts")
            THEN <<"obj", <<1, "ts">> :> <<"bigint", t[2][<<1, "ts">>][2]>>>>
            ELSE <<"obj", [k \in DOMAIN t[2] |-> revived(t[2][k])]>>
      [] OTHER -> t

-----------------------------------------------------------------------------
(* Showing it *)

\* Neither undefined nor falsy.
Truthy(o, name) ==
    /\ Has(o, name)
    /\ LET x == o[<<1, name>>]
       IN  ~(x[1] = "text" /\ x[2] = <<>>) /\ ~(x[1] = "bigint" /\ x[2] = <<"0">>)

\* The marks renderProp looks for, in its order, and the types it shows.
Looked == <<"ts", "byt", "req", "res", "scope", "span">>
Shown == <<"time", "bytes", "req", "res", "scope", "span">>

\* renderProp: the type a value is shown with, and its content; that of a map
\* is the set of what renderMap shows, pairs of a key and a value.  A request,
\* resource or scope is shown in place of its id, by renderMap as well.
RECURSIVE renderProp(_)
renderProp(x) ==
    CASE x[1] = "text" -> <<"str", x[2]>>
      [] x[1] = "bigint" -> <<"int", x[2]>>
      [] x[1] = "num" -> <<"float", x[2]>>
      [] x[1] = "bool" -> x
      [] x[1] = "arr" -> <<"array", [i \in DOMAIN x[2] |-> renderProp(x[2][i])]>>
      [] x[1] = "obj" ->
            LET o == x[2]
                found == {i \in DOMAIN Looked : Truthy(o, Looked[i])}
                trace == IF Truthy(o, "span") /\ Has(o, "trace") THEN o[<<1, "trace">>][2] ELSE <<>>
            IN  IF found = {}
                THEN <<"map", {<<shownKey(k), renderProp(o[k])>> : k \in DOMAIN o}>>
                ELSE <<Shown[Min(found)], trace \o o[<<1, Looked[Min(found)]>>][2]>>

-----------------------------------------------------------------------------
(* What the side panel makes of a metric before it shows it (metrics.js) *)

BigZero == <<"bigint", <<"0">>>>

\* The bounds of an exponential histogram's buckets are computed: powers of
\* 2^(2^-scale), of which it only matters here that they are numbers.
Power == <<"num", <<"2^x">>>>

Bucket(cnt, bounds) == <<"obj", <<0, "cnt">> :> cnt @@ bounds>>

\* The buckets of a histogram that have counted something.
Buckets(o) ==
    LET counts == o[<<0, "buckets">>][2]
        bounds == IF <<0, "bounds">> \in DOMAIN o THEN o[<<0, "bounds">>][2] ELSE <<>>
        bound(name, i) == IF i \in DOMAIN bounds THEN <<0, name>> :> bounds[i] ELSE <<>>
        counted == SelectSeq([i \in DOMAIN counts |-> i], LAMBDA i : counts[i] # BigZero)
    IN  <<"arr", [j \in DOMAIN counted |->
                    LET i == counted[j]
                    IN  Bucket(counts[i], bound("min", i - 1) @@ bound("max", i))]>>

\* Those of an exponential one: of negative numbers, of zero, of positive ones.
PowerBuckets(o) ==
    LET between(lo, hi) == <<0, "min">> :> lo @@ <<0, "max">> :> hi
        counted(s) == SelectSeq(s, LAMBDA x : x # BigZero)
        powers(s) == [i \in DOMAIN s |-> Bucket(s[i], between(Power, Power))]
        thre == IF <<0, "zeros.thre">> \in DOMAIN o THEN o[<<0, "zeros.thre">>] ELSE <<"num", <<"0">>>>
        zeros == counted(<<o[<<0, "zeros">>]>>)
    IN  <<"arr", powers(counted(Reverse(o[<<0, "neg">>][2])))
                    \o [i \in DOMAIN zeros |-> Bucket(zeros[i], between(thre, thre))]
                    \o powers(counted(o[<<0, "pos">>][2]))>>

\* The last quantile that is the minimum, or the maximum, of a summary.
Extreme(o, name, quantile) ==
    LET qs == o[<<0, "quantiles">>][2]
        at == {i \in DOMAIN qs : qs[i][2][<<0, "q">>] = <<"num", <<quantile>>>>}
    IN  IF at = {} THEN <<>> ELSE <<0, name>> :> qs[Max(at)][2][<<0, "v">>]

\* The properties of a point, which the graph shows.
plotted(type, pt) ==
    LET o == pt[2]
        Less(names) == [k \in DOMAIN o \ {<<0, name>> : name \in names} |-> o[k]]
    IN  CASE type = "Histogram" /\ <<0, "buckets">> \in DOMAIN o ->
                <<"obj", <<0, "buckets">> :> Buckets(o) @@ Less({"bounds"})>>
          [] type = "ExponentialHistogram" ->
                <<"obj", <<0, "buckets">> :> PowerBuckets(o)
                            @@ Less({"neg.off", "neg", "zeros", "zeros.thre", "pos.off", "pos"})>>
          [] type = "Summary" ->
                <<"obj", Extreme(o, "min", "0") @@ Extreme(o, "max", "1") @@ o>>
          [] OTHER -> pt

\* selectMetric: the conflict and the metadata, if they came, and the streams;
\* the other fields of a metric are in its row of the list.
selectMetric(o) ==
    LET type == o[<<0, "type">>][2][1]
        streams == o[<<0, "streams">>][2]
        stream(s) == <<"obj", [k \in DOMAIN s |-> IF k # <<0, "pts">> THEN s[k] ELSE
                        <<"arr", [i \in DOMAIN s[k][2] |-> plotted(type, s[k][2][i])]>>]>>
    IN  <<"obj", [k \in DOMAIN o \cap {<<0, "conflict">>, <<0, "meta">>} |-> o[k]]
                    @@ <<0, "streams">> :> <<"obj", [id \in DOMAIN streams |-> stream(streams[id][2])]>>>>

\* What the page shows of an item of a kind.
shownItem(kind, t) == renderProp(IF kind = "metric" THEN selectMetric(t[2]) ELSE t)
=============================================================================
