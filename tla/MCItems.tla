------------------------------ MODULE MCItems ------------------------------
(***************************************************************************)
(* Items for TLC: of every struct the blank one, with every value of every *)
(* field, and with every two fields that say something.                    *)
(***************************************************************************)
EXTENDS ItemsShown

CONSTANT MaxText     \* bound on the letters of a log's body

\* "", "_", "__int", "_byt", "_int", "_ts", "a", "b", and a byte that is no text.
KeysInOrder ==
    <<<<0, "">>, <<1, "">>, <<2, "int">>, <<1, "byt">>, <<1, "int">>, <<1, "ts">>, <<0, "a">>,
      <<0, "b">>, <<0, "cont">>>>

Text(s) == <<"str", s>>
Whole(n) == <<"int", <<n>>>>
Double(n) == <<"double", <<n>>>>
MapOf(pairs) == <<"map", pairs>>
ArrayOf(values) == <<"array", values>>

Scalars ==
    {Text(<<>>), Text(<<"a">>), Text(<<"lead2", "cont">>), Text(<<"lead3", "cont">>), Whole("0"),
     Whole("-1"), Double("0"), Double("1"), Double("NaN"), <<"bool", <<"true">>>>, False,
     <<"bytes", <<>>>>, <<"bytes", <<"cont">>>>, <<"empty", <<>>>>}

Attrs ==
    {MapOf(<<<<k, Text(<<"1">>)>>>>) : k \in Range(KeysInOrder)}
    \cup {MapOf(<<<<<<0, "a">>, v>>>>) : v \in Scalars}
    \cup {MapOf(<<<<<<0, "b">>, v>>, <<<<1, "int">>, Text(<<"a">>)>>, <<<<0, "a">>, Whole("1")>>>>) :
            v \in {List, ArrayOf(<<Whole("1"), Text(<<"a">>), Double("1")>>), ArrayOf(<<Map>>),
                   MapOf(<<<<<<1, "ts">>, Whole("1")>>, <<<<0, "">>, Text(<<"cont">>)>>>>),
                   MapOf(<<<<<<1, "ts">>, Text(<<"1">>)>>, <<<<1, "">>, Double("1")>>>>)}}

SomeAttrs == MapOf(<<<<<<0, "b">>, Text(<<"a">>)>>, <<<<1, "byt">>, Whole("1")>>>>)

Texts(n) == UNION {[1 .. k -> {"a", "nl", "lead2", "lead3", "lead4", "cont"}] : k \in 0 .. n}

With(kind, changes) == <<kind, changes @@ Structs[kind]>>

Exemplars == {ArrayOf(<<With("exemplar", c)>>) :
    c \in {"value" :> Double("1"), "trace" :> <<"traceId", <<"1">>>>, "attr" :> SomeAttrs,
           "value" :> <<"empty", <<>>>>}}

Headers ==
    {<<"headers", <<>>>>,
     <<"headers", <<<<<<0, "b">>, ArrayOf(<<Text(<<"a">>)>>)>>,
                    <<<<0, "a">>, ArrayOf(<<Text(<<"a">>), Text(<<>>)>>)>>>>>>}

Counts == {ArrayOf(<<Zero("uint")>>), ArrayOf(<<<<"uint", <<"1">>>>, Zero("uint"), <<"uint", <<"2">>>>>>)}

SomePoints == ArrayOf(<<With("numberPoint", "value" :> Whole("1"))>>)

Streams(stream) == MapOf(<<<<<<0, "a">>, stream>>>>)

\* The type of a metric, by the points it has.
Types ==
    [metricStream |-> "Gauge", numberPoint |-> "Sum", histogramPoint |-> "Histogram",
     exponentialHistogramPoint |-> "ExponentialHistogram", summaryPoint |-> "Summary"]

\* Values that say something, by the one that is not written.
Telling(zero) ==
    CASE zero = Str -> {Text(<<"a">>), Text(<<"cont">>)}
      [] zero = Map -> {SomeAttrs}
      [] zero = False -> {<<"bool", <<"true">>>>}
      [] zero = Nil -> {Double("0"), Double("1"), Double("+Inf")}
      [] zero = List -> {List}
      [] OTHER -> {<<zero[1], <<"1">>>>}

FieldValues(kind, f) ==
    CASE kind = "requestMeta" /\ f = "headers" -> Headers
      [] f = "attr" -> Attrs
      [] f = "body" -> Scalars \cup Attrs
      [] kind = "numberPoint" /\ f = "value" -> {Whole("0"), Whole("1"), Double("0")}
      [] f = "flags" -> {Zero("flags"), <<"flags", <<"1">>>>}
      [] f = "events" ->
            {ArrayOf(<<With("event", "name" :> Text(<<"a">>)),
                       With("event", "time" :> <<"ts", <<"1">>>> @@ "attr" :> SomeAttrs)>>)}
      [] f = "links" ->
            {ArrayOf(<<With("link", "span" :> <<"spanId", <<"1">>>> @@ "attr" :> SomeAttrs)>>)}
      [] f = "exemplars" -> Exemplars
      [] f \in {"buckets", "pos", "neg"} -> Counts
      [] f = "bounds" -> {ArrayOf(<<Double("1"), Double("2")>>)}
      [] f = "scale" -> {Whole("1"), Whole("-1")}
      [] f = "quantiles" ->
            {ArrayOf(<<With("quantileValue", "v" :> Double("1"))>>),
             ArrayOf(<<With("quantileValue", "q" :> Double("1")),
                       With("quantileValue", "q" :> Double("1") @@ "v" :> Double("2"))>>)}
      [] f = "type_" -> {Text(<<t>>) : t \in Range(Types) \cup {"Empty"}}
      [] f = "streams" -> {Streams(With("metricStream", "attr" :> SomeAttrs @@ "points" :> SomePoints))}
      [] f = "points" -> {SomePoints}
      [] OTHER -> Telling(Structs[kind][f])

Kinds == DOMAIN Structs \ {"event", "link", "exemplar", "quantileValue", "logSummary"}

\* Points are seen in their stream, and a stream in its metric.
Wrapped(kind, v) ==
    LET stream == IF kind = "metricStream" THEN v ELSE With("metricStream", "points" :> ArrayOf(<<v>>))
    IN  IF kind \in DOMAIN Types
        THEN With("metric", "type_" :> Text(<<Types[kind]>>) @@ "streams" :> Streams(stream))
        ELSE v

SomeTime == <<"ts", <<"2">>>>

SomeJsonTexts == {<<"a">>, <<"a", "lead4", "cont", "cont", "cont">>}

TwoFields(kind) ==
    UNION {{With(kind, f :> v @@ g :> w) : v \in FieldValues(kind, f), w \in FieldValues(kind, g)} :
            f, g \in DOMAIN Structs[kind]}

\* Every metric has a type; only a sum is monotonic, and here only a gauge or
\* a sum has points.
Metrics ==
    {v \in TwoFields("metric") \cup {With("metric", "type_" :> Text(<<"Gauge">>))} :
        /\ v[2].type_ # Str
        /\ v[2].mono # False => v[2].type_ = Text(<<"Sum">>)
        /\ v[2].streams # Map => v[2].type_ \in {Text(<<"Gauge">>), Text(<<"Sum">>)}}

AllItems ==
    UNION {{Wrapped(kind, v) : v \in TwoFields(kind) \cup {With(kind, <<>>)}} :
            kind \in Kinds \ {"metric"}}
    \cup Metrics
    \cup {With("log", "body" :> Text(s)) : s \in Texts(MaxText)}
    \cup {With("log", "event" :> Text(s)) : s \in Texts(MaxText - 2)}
    \cup {Wrapped("metricStream", With("metricStream", "points" :>
                        ArrayOf(<<With("numberPoint", "value" :> Whole("1")),
                                  With("numberPoint", "value" :> v)>>))) :
            v \in {Whole("0"), Nil, Double("1")}}
=============================================================================
