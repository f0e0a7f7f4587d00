----------------------------- MODULE ItemsShown -----------------------------
(***************************************************************************)
(* What the items on the screen have to do with those that were sent:      *)
(* Items with the conversions of Values, which the configurations give to  *)
(* its constants.                                                          *)
(***************************************************************************)
EXTENDS Values, Items

ShownType ==
    [str |-> "str", bool |-> "bool", int |-> "int", uint |-> "int", double |-> "float",
     ts |-> "time", bytes |-> "bytes", reqId |-> "req", resId |-> "res", scopeId |-> "scope",
     spanId |-> "span"]

\* Values for which the page shows the mark and what is marked: it does not
\* look for flags, and takes an empty content and the time 0 for no mark.
Unseen(v) == v[1] = "flags" \/ v = Zero("ts") \/ v = <<"bytes", <<>>>>

UnseenAs(v) == <<"map", {<<<<1, Mark[v[1]]>>, <<IF v[1] = "ts" THEN "int" ELSE "str", v[2]>>>>}>>

\* The reference to a span that a struct has, or the trace that a log has.
RefOf(v) ==
    LET o == v[2]
        both == {<<<<0, "span">>, <<"span", o.trace[2] \o o.span[2]>>>>}
    IN  CASE v[1] = "link" -> both
          [] v[1] = "exemplar" -> IF o.trace = Zero("traceId") /\ o.span = Zero("spanId") THEN {} ELSE both
          [] v[1] = "log" ->
                IF o.trace = Zero("traceId") THEN {}
                ELSE IF o.span = Zero("spanId") THEN {<<<<0, "trace">>, <<"str", o.trace[2]>>>>}
                ELSE both
          [] OTHER -> {}

\* Fields that the page does not show, or not as they are: those of RefOf; of
\* a metric all that is in its row of the list instead, and the conflict (see
\* ConflictIsShown); what the buckets of a histogram are made of.
Apart(v) ==
    CASE v[1] \in {"link", "log", "exemplar"} -> {"trace", "span"}
      [] v[1] = "metric" -> DOMAIN metric \ {"meta", "streams"}
      [] v[1] = "histogramPoint" /\ v[2].buckets # List -> {"buckets", "bounds"}
      [] v[1] = "exponentialHistogramPoint" -> {"zeros", "zeroThre", "posOff", "pos", "negOff", "neg"}
      [] OTHER -> {}

\* What the buckets of a histogram have counted, from the lowest to the
\* highest.  For the count of zeros an exponential one has its scale
\* (objects.go:695).
Counted(v) ==
    LET counted(s) == SelectSeq(s, LAMBDA x : x # Zero("uint"))
    IN  CASE v[1] = "histogramPoint" -> counted(v[2].buckets[2])
          [] v[1] = "exponentialHistogramPoint" ->
                counted(Reverse(v[2].neg[2]) \o <<AsUint(v[2].scale)>> \o v[2].pos[2])

\* The members that stand for fields that are apart.
ShowsApart(m, v) ==
    CASE v[1] \in {"histogramPoint", "exponentialHistogramPoint"} ->
            /\ m[1] = <<0, "buckets">> /\ Len(m[2][2]) = Len(Counted(v))
            /\ \A i \in DOMAIN Counted(v) :
                <<<<0, "cnt">>, <<"int", Counted(v)[i][2]>>>> \in m[2][2][i][2]
      [] v[1] = "summaryPoint" ->
            /\ m[1] \in {<<0, "min">>, <<0, "max">>}
            /\ \E q \in Range(v[2].quantiles[2]) : m[2] = <<"float", q[2].v[2]>>
      [] OTHER -> m \in RefOf(v)

\* What is on the screen, x, shows v.
RECURSIVE Shows(_, _)
Shows(x, v) ==
    CASE v[1] = "array" ->
            /\ x[1] = "array" /\ Len(x[2]) = Len(v[2])
            /\ \A i \in DOMAIN v[2] : Shows(x[2][i], v[2][i])
      [] v[1] = "map" ->
            /\ x[1] = "map" /\ Cardinality(x[2]) = Len(v[2])
            /\ \A p \in Range(v[2]) : \E m \in x[2] : m[1] = p[1] /\ Shows(m[2], p[2])
      [] v[1] = "headers" ->
            /\ x[1] = "map" /\ Cardinality(x[2]) = Len(v[2])
            /\ \A p \in Range(v[2]) : \E m \in x[2] :
                m[1] = p[1] /\ (Shows(m[2], p[2]) \/ (Len(p[2][2]) = 1 /\ Shows(m[2], p[2][2][1])))
      [] IsStruct(v) ->
            LET At(f) == {m \in x[2] : m[1] = KeyOf(v[1], f)}
                fields == DOMAIN v[2] \ Apart(v)
            IN  /\ x[1] = "map"
                /\ \A f \in fields :
                    IF At(f) = {} THEN v[2][f] = Structs[v[1]][f]
                    ELSE \A m \in At(f) : Shows(m[2], v[2][f])
                /\ RefOf(v) \subseteq x[2]
                /\ v[1] \in {"histogramPoint", "exponentialHistogramPoint"} /\ Counted(v) # <<>> =>
                    \E m \in x[2] : m[1] = <<0, "buckets">>
                /\ \A m \in x[2] \ UNION {At(f) : f \in fields} : ShowsApart(m, v)
      [] OTHER -> x = IF Unseen(v) THEN UnseenAs(v) ELSE <<ShownType[v[1]], v[2]>>

\* The page shows an item as it was sent, through four conversions and what
\* metrics.js makes of a metric: every field that says something, but for
\* those that are Apart, under its key, with its type and its value down to
\* the last nested attribute, and nothing else, whatever the names of a
\* sender's attributes; of a histogram every bucket that has counted something,
\* in order.  Flags, the time 0 and empty bytes come with their value but not
\* with their type (value.go:62-95, 158-270, objects.go:143-741, props.js:3-109,
\* metrics.js:78-200).
ShownAsSent == stage = "shown" => Shows(item, sent)

\* Text in UTF-8, finite numbers, every value of a known type; of a stream,
\* points, values of one type, and bounds for what was counted.
WellFormed(v) ==
    \A x \in Parts(v) :
        CASE x[1] = "str" -> ValidString(x[2])
          [] x[1] = "double" -> x[2] \notin Unspeakable
          [] x[1] = "metricStream" ->
                LET pts == Range(x[2].points[2])
                    With(f) == {p \in pts : f \in DOMAIN p[2] /\ p[2][f] # Structs[p[1]][f]}
                IN  /\ pts # {}
                    /\ Cardinality({p[2].value[1] : p \in With("value")}) <= 1
                    /\ \A p \in With("buckets") \ With("bounds") :
                        Range(p[2].buckets[2]) \subseteq {Zero("uint")}
          [] OTHER -> x[1] # "empty"

\* A well-formed item gets to the page: no stage finds something it cannot
\* hold, neither in the item nor in its row of the list, which is cut out of
\* it (storage.go:236-258, value.go:84, 180-183, utils.js:44-53).
WellFormedIsShown ==
    WellFormed(sent) => stage \notin {"panicked", "broken", "unreadable", "not drawn"}

\* A value with the pairs of its maps in the opposite order.
RECURSIVE Reordered(_)
Reordered(v) ==
    CASE v[1] = "array" -> <<"array", [i \in DOMAIN v[2] |-> Reordered(v[2][i])]>>
      [] v[1] \in {"map", "headers"} ->
            <<v[1], Reverse([i \in DOMAIN v[2] |-> <<v[2][i][1], Reordered(v[2][i][2])>>])>>
      [] IsStruct(v) -> <<v[1], [f \in DOMAIN v[2] |-> Reordered(v[2][f])]>>
      [] OTHER -> v

\* The same with another value of one field.
Changed(v) ==
    UNION {{<<v[1], [v[2] EXCEPT ![f] = w]>> :
                w \in {x \in {Str, <<"str", <<"a", "a">>>>, Zero("int"), <<"int", <<"2">>>>} :
                        x[1] = v[2][f][1] /\ x # v[2][f]}} : f \in DOMAIN v[2]}

\* Resources, scopes and requests are told apart by what is hashed of them:
\* the order in which a sender lists attributes and headers does not matter,
\* a change of one text or number does (value.go:87-95, 122-156,
\* objects.go:122-142, 175-179, 204-210).
OneIdentity ==
    stage = "stored" /\ sent[1] \in {"resource", "scope", "requestMeta"} =>
        /\ hashInto(convertValue(Reordered(sent))) = hashInto(item)
        /\ \A v \in Changed(sent) : hashInto(convertValue(v)) # hashInto(item)

\* A metric for which different descriptions or metadata came (storage.go:461)
\* is shown with a note that says so (metrics.js:93-98).  Does not hold.
ConflictIsShown ==
    stage = "shown" /\ sent[1] = "metric" /\ sent[2].conflict # False =>
        <<<<0, "conflict">>, <<"bool", <<"true">>>>>> \in item[2]
=============================================================================
