------------------------------ MODULE Objects ------------------------------
(***************************************************************************)
(* What the encoders of objects.go write of each struct: for every field,  *)
(* the value that is left out of the JSON, the fields that are never left  *)
(* out, and the keys.                                                      *)
(*                                                                         *)
(* A value is a pair <<type, content>>.  The content of a "map" is a       *)
(* sequence of pairs <<key, value>>, that of an "array" a sequence of      *)
(* values, that of a struct a record of its fields, embedded structs       *)
(* included; any other content is a sequence of letters.  A key is a pair  *)
(* of the number of underscores it begins with and the rest.               *)
(***************************************************************************)
EXTENDS Naturals, Sequences

Str == <<"str", <<>>>>
Map == <<"map", <<>>>>
List == <<"array", <<>>>>
Nil == <<"nil", <<>>>>
False == <<"bool", <<"false">>>>
Zero(type) == <<type, <<"0">>>>

-----------------------------------------------------------------------------
(* The structs, each with its values that are not written *)

resource == [attr |-> Map, attrDropped |-> Zero("int"), schema |-> Str]

scope == [name |-> Str, version |-> Str, attr |-> Map, attrDropped |-> Zero("int"), schema |-> Str]

requestMeta == [transport |-> Str, peer |-> Str, headers |-> Nil]

spanSummary ==
    [parent |-> Zero("spanId"), name |-> Str, status |-> Str, start |-> Zero("ts"), end |-> Zero("ts")]

\* Flags of 0x100 say: no W3C flag, the parent is not remote.
span ==
    [req |-> Zero("reqId"), res |-> Zero("resId"), scope |-> Zero("scopeId"),
     parent |-> Zero("spanId"), name |-> Str, status |-> Str, start |-> Zero("ts"), end |-> Zero("ts"),
     statusMsg |-> Str, kind |-> Str, attr |-> Map, attrDropped |-> Zero("int"), state |-> Str,
     flags |-> <<"flags", <<"100">>>>, events |-> List, eventsDropped |-> Zero("int"),
     links |-> List, linksDropped |-> Zero("int")]

event == [name |-> Str, time |-> Zero("ts"), attr |-> Map, attrDropped |-> Zero("int")]

link ==
    [trace |-> Zero("traceId"), span |-> Zero("spanId"), attr |-> Map, attrDropped |-> Zero("int"),
     state |-> Str]

logSummary == [simpleTime |-> Zero("ts"), sev |-> Str, simpleBody |-> Str]

log ==
    [req |-> Zero("reqId"), res |-> Zero("resId"), scope |-> Zero("scopeId"),
     time |-> Zero("ts"), timeObs |-> Zero("ts"), sev |-> Str, sevText |-> Str, event |-> Str,
     body |-> Nil, attr |-> Map, attrDropped |-> Zero("int"), flags |-> Zero("flags"),
     trace |-> Zero("traceId"), span |-> Zero("spanId")]

metric ==
    [res |-> Zero("resId"), scope |-> Zero("scopeId"), name |-> Str, type_ |-> Str, unit |-> Str,
     tempo |-> Str, mono |-> False, desc |-> Str, meta |-> Map, conflict |-> False, streams |-> Map]

metricStream == [attr |-> Map, points |-> List]

numberPoint ==
    [time |-> Zero("ts"), timeStart |-> Zero("ts"), flags |-> Zero("flags"), req |-> Zero("reqId"),
     value |-> Nil, exemplars |-> List]

exemplar ==
    [time |-> Zero("ts"), value |-> Zero("int"), attr |-> Map, trace |-> Zero("traceId"),
     span |-> Zero("spanId")]

histogramPoint ==
    [time |-> Zero("ts"), timeStart |-> Zero("ts"), flags |-> Zero("flags"), req |-> Zero("reqId"),
     count |-> Zero("uint"), sum |-> Nil, min |-> Nil, max |-> Nil, exemplars |-> List,
     buckets |-> List, bounds |-> List]

exponentialHistogramPoint ==
    [time |-> Zero("ts"), timeStart |-> Zero("ts"), flags |-> Zero("flags"), req |-> Zero("reqId"),
     count |-> Zero("uint"), sum |-> Nil, min |-> Nil, max |-> Nil, exemplars |-> List,
     scale |-> Zero("int"), zeros |-> Zero("uint"), zeroThre |-> Zero("double"),
     posOff |-> Zero("int"), pos |-> List, negOff |-> Zero("int"), neg |-> List]

summaryPoint ==
    [time |-> Zero("ts"), timeStart |-> Zero("ts"), flags |-> Zero("flags"), req |-> Zero("reqId"),
     count |-> Zero("uint"), sum |-> Zero("double"), quantiles |-> List]

quantileValue == [q |-> Zero("double"), v |-> Zero("double")]

Structs ==
    [resource |-> resource, scope |-> scope, requestMeta |-> requestMeta,
     spanSummary |-> spanSummary, span |-> span, event |-> event, link |-> link,
     logSummary |-> logSummary, log |-> log, metric |-> metric, metricStream |-> metricStream,
     numberPoint |-> numberPoint, exemplar |-> exemplar, histogramPoint |-> histogramPoint,
     exponentialHistogramPoint |-> exponentialHistogramPoint, summaryPoint |-> summaryPoint,
     quantileValue |-> quantileValue]

\* The fields that are written whatever they hold.
Always ==
    [resource |-> {}, scope |-> {}, requestMeta |-> {"transport"},
     spanSummary |-> {"name", "start", "end"},
     span |-> {"req", "res", "scope", "name", "start", "end", "kind"},
     event |-> {"name"}, link |-> {}, logSummary |-> {"simpleTime", "sev", "simpleBody"},
     log |-> {"req", "res", "scope"},
     metric |-> {"res", "scope", "name", "type_", "streams"},
     metricStream |-> {"attr"},
     numberPoint |-> {"time", "req"}, exemplar |-> {"time", "value"},
     histogramPoint |-> {"time", "req", "count"},
     exponentialHistogramPoint |->
        {"time", "req", "count", "scale", "posOff", "pos", "negOff", "neg"},
     summaryPoint |-> {"time", "req", "count", "sum", "quantiles"},
     quantileValue |-> {"q", "v"}]

-----------------------------------------------------------------------------
(* Keys *)

Keys ==
    [attrDropped |-> "attr.dropped", statusMsg |-> "status.msg", eventsDropped |-> "events.dropped",
     linksDropped |-> "links.dropped", simpleTime |-> "time", simpleBody |-> "body",
     timeObs |-> "time.obs", sevText |-> "sev.text", type_ |-> "type", points |-> "pts",
     timeStart |-> "time.start", exemplars |-> "examplars", count |-> "cnt",
     zeroThre |-> "zeros.thre", posOff |-> "pos.off", negOff |-> "neg.off"]

KeyOf(kind, f) ==
    <<0, IF kind = "numberPoint" /\ f = "value" THEN "val"
         ELSE IF f \in DOMAIN Keys THEN Keys[f] ELSE f>>

\* Mutant: keys are written as they are.
keyAsIs(k) == k

\* mapifier.key: no key of a sender reads like a mark, which has one underscore.
key(k) == IF k[1] > 0 THEN <<k[1] + 1, k[2]>> ELSE k

\* renderMap takes off the underscore that mapifier.key has put before a key.
shownKey(k) == IF k[1] >= 2 THEN <<k[1] - 1, k[2]>> ELSE k

-----------------------------------------------------------------------------
(* Members *)

\* Fields that are not written by themselves: the ids that make a reference
\* to a span, and those that metric.toJson and the exponential histogram
\* treat otherwise.
Odd(kind) ==
    CASE kind \in {"link", "log", "exemplar"} -> {"trace", "span"}
      [] kind = "metric" -> {"mono", "conflict"}
      [] kind = "exponentialHistogramPoint" -> {"zeros"}
      [] OTHER -> {}

SpanRef(o) == {<<<<0, "span">>, <<"traceSpan", o.trace[2] \o o.span[2]>>>>}

\* uintValue of a signed number wraps around at 2^64; here, only -1 is one.
AsUint(v) == <<"uint", IF v[2] = <<"-1">> THEN <<"2^64-1">> ELSE v[2]>>

OddMembers(kind, o) ==
    CASE kind = "link" -> SpanRef(o)
      [] kind = "log" /\ o.trace # Zero("traceId") ->
            IF o.span # Zero("spanId") THEN SpanRef(o)
            ELSE {<<<<0, "trace">>, <<"str", o.trace[2]>>>>}
      [] kind = "exemplar" /\ (o.trace # Zero("traceId") \/ o.span # Zero("spanId")) -> SpanRef(o)
      [] kind = "metric" /\ o.type_[2] = <<"Sum">> -> {<<<<0, "mono">>, o.mono>>}
      [] kind = "exponentialHistogramPoint" -> {<<<<0, "zeros">>, AsUint(o.scale)>>}
      [] OTHER -> {}

\* Mutant: only the first value of a header is written.
FirstValue(vs) == IF vs[2] = <<>> THEN vs ELSE vs[2][1]

\* A header with one value is written as a string, any other as an array.
HeaderValue(vs) == IF Len(vs[2]) = 1 THEN vs[2][1] ELSE vs

\* What is written of a field.
Content(kind, o, f) ==
    IF kind = "requestMeta" /\ f = "headers"
    THEN <<"map", [i \in DOMAIN o.headers[2] |->
                    <<o.headers[2][i][1], HeaderValue(o.headers[2][i][2])>>]>>
    ELSE o[f]

Written(kind, o) == {f \in DOMAIN o : f \in Always[kind] \/ o[f] # Structs[kind][f]}

\* The members that toJson writes of a struct: pairs of a key and a value.
Members(kind, o) ==
    {<<KeyOf(kind, f), Content(kind, o, f)>> : f \in Written(kind, o) \ Odd(kind)}
        \cup OddMembers(kind, o)
=============================================================================
