---------------------------- MODULE ItemsProofs ----------------------------
(***************************************************************************)
(* Proofs about Items, whatever the conversions make of values, and about  *)
(* the members that the encoders of Objects write.                         *)
(***************************************************************************)
EXTENDS Items, Utf8Proofs

-----------------------------------------------------------------------------
(* The row of a log *)

\* The stages leave the row as receive has cut it, and only what receive
\* objects to makes it panic.
RowInv ==
    /\ sent \in Sent
    /\ row # Nil => IsLog /\ \E s \in Bodies(sent[2]) : row = Row(sent[2], s)
    /\ stage = "panicked" => ~Converts(sent) \/ (IsLog /\ Unsummed(sent[2]))

LEMMA RowInvInit == Init => RowInv
  BY DEF Init, RowInv

LEMMA RowInvStep == RowInv /\ [Next]_vars => RowInv'
  <1> SUFFICES ASSUME RowInv, [Next]_vars
               PROVE  RowInv'
    OBVIOUS
  <1>1. CASE receive
    <2>1. sent' = sent /\ stage' = "stored"
      BY <1>1 DEF receive
    <2>2. IsLog => \E s \in Bodies(sent[2]) : row' = Row(sent[2], s)
      BY <1>1 DEF receive
    <2>3. ~IsLog => row' = row
      BY <1>1 DEF receive
    <2>4. IsLog' = IsLog
      BY <2>1 DEF IsLog
    <2>5. row' # Nil => IsLog /\ \E s \in Bodies(sent[2]) : row' = Row(sent[2], s)
      BY <2>2, <2>3 DEF RowInv
    <2> QED
      BY <2>1, <2>4, <2>5 DEF RowInv
  <1>2. CASE receivePanics
    BY <1>2 DEF receivePanics, RowInv, IsLog
  <1>3. CASE answer \/ answerPanics \/ parse \/ parseThrows \/ show \/ showThrows
    <2>1. sent' = sent /\ row' = row /\ stage' # "panicked"
      BY <1>3 DEF answer, answerPanics, parse, parseThrows, show, showThrows
    <2> QED
      BY <2>1 DEF RowInv, IsLog
  <1>4. CASE UNCHANGED vars
    BY <1>4 DEF vars, RowInv, IsLog
  <1> QED
    BY <1>1, <1>2, <1>3, <1>4 DEF Next

\* A log with a text of its own is summed up from that text.
LEMMA BodiesLemma ==
    ASSUME NEW o, o.event # Str \/ o.body[1] = "str"
    PROVE  Bodies(o) = {RowText(o)}
  <1>1. CASE o.event # Str
    BY <1>1 DEF Bodies, RowText
  <1>2. CASE o.event = Str
    <2>1. o.body[1] = "str" /\ o.body # Nil
      BY <1>2 DEF Nil
    <2> QED
      BY <1>2, <2>1 DEF Bodies, RowText
  <1> QED
    BY <1>1, <1>2

LEMMA RowLemma == RowInv => RowIsFirstLine
  <1> SUFFICES ASSUME RowInv, IsLog, sent[2].event # Str \/ sent[2].body[1] = "str",
                      ValidString(RowText(sent[2]))
               PROVE  /\ row # Nil => row[2].simpleBody[2] = FirstLine(RowText(sent[2]))
                      /\ stage = "panicked" => ~Converts(sent)
    BY DEF RowIsFirstLine
  <1> DEFINE o == sent[2]
             text == RowText(o)
  <1>1. text \in Seq(STRING)
    BY SentAssumption DEF RowInv, IsLog, RowText
  <1>2. Bodies(o) = {text}
    BY BodiesLemma
  <1>3. ASSUME row # Nil
        PROVE  row[2].simpleBody[2] = FirstLine(text)
    <2>1. row = Row(o, text)
      BY <1>2, <1>3 DEF RowInv
    <2>2. row[2].simpleBody[2] = cut(text)
      BY <2>1 DEF Row
    <2>3. cut(text) = FirstLine(text)
      BY <1>1, CutIsFirstLine
    <2> QED
      BY <2>2, <2>3
  <1>4. ~Unsummed(o)
    <2>1. ~(o.event = Str /\ o.body[1] \notin {"nil", "str"} /\ ~Encodes(o.body))
      OBVIOUS
    <2>2. TooLong(text) => Stops(text) # {}
      BY <1>1, CutStops
    <2> QED
      BY <1>2, <2>1, <2>2 DEF Unsummed
  <1> QED
    BY <1>3, <1>4 DEF RowInv

\* The row of a log is the first line of its text, cut to what fits, and a log
\* is never lost for its text, if that is UTF-8 (storage.go:236-258), for any
\* text and limit and whatever else is in the log.
THEOREM FirstLines == Spec => []RowIsFirstLine
  BY RowInvInit, RowInvStep, RowLemma, PTL DEF Spec

-----------------------------------------------------------------------------
(* The members of a struct *)

Fields(kind) == DOMAIN Structs[kind]

\* The keys that some encoders write in place of a field's own.
OddKeys(kind) ==
    CASE kind \in {"link", "exemplar"} -> {<<0, "span">>}
      [] kind = "log" -> {<<0, "span">>, <<0, "trace">>}
      [] kind = "metric" -> {<<0, "mono">>}
      [] kind = "exponentialHistogramPoint" -> {<<0, "zeros">>}
      [] OTHER -> {}

LEMMA KindsLemma ==
    DOMAIN Structs =
        {"resource", "scope", "requestMeta", "spanSummary", "span", "event", "link", "logSummary",
         "log", "metric", "metricStream", "numberPoint", "exemplar", "histogramPoint",
         "exponentialHistogramPoint", "summaryPoint", "quantileValue"}
  BY DEF Structs

LEMMA RenamedLemma ==
    /\ DOMAIN Keys =
        {"attrDropped", "statusMsg", "eventsDropped", "linksDropped", "simpleTime", "simpleBody",
         "timeObs", "sevText", "type_", "points", "timeStart", "exemplars", "count", "zeroThre",
         "posOff", "negOff"}
    /\ \A f, g \in DOMAIN Keys : Keys[f] = Keys[g] => f = g
    /\ \A f \in DOMAIN Keys :
        Keys[f] \in {"attr.dropped", "status.msg", "events.dropped", "links.dropped", "time", "body",
                     "time.obs", "sev.text", "type", "pts", "time.start", "examplars", "cnt",
                     "zeros.thre", "pos.off", "neg.off"}
    /\ \A f \in DOMAIN Keys : Keys[f] = "time" => f = "simpleTime"
    /\ \A f \in DOMAIN Keys : Keys[f] = "body" => f = "simpleBody"
  BY DEF Keys

\* No two fields of a struct have the same key.
LEMMA KeysLemma ==
    ASSUME NEW kind \in DOMAIN Structs, NEW f \in Fields(kind), NEW g \in Fields(kind),
           KeyOf(kind, f) = KeyOf(kind, g)
    PROVE  f = g
  <1> USE RenamedLemma DEF KeyOf, Fields, Structs
  <1>1. CASE kind = "resource"
    BY <1>1 DEF resource
  <1>2. CASE kind = "scope"
    BY <1>2 DEF scope
  <1>3. CASE kind = "requestMeta"
    BY <1>3 DEF requestMeta
  <1>4. CASE kind = "spanSummary"
    BY <1>4 DEF spanSummary
  <1>5. CASE kind = "span"
    BY <1>5 DEF span
  <1>6. CASE kind = "event"
    BY <1>6 DEF event
  <1>7. CASE kind = "link"
    BY <1>7 DEF link
  <1>8. CASE kind = "logSummary"
    BY <1>8 DEF logSummary
  <1>9. CASE kind = "log"
    BY <1>9 DEF log
  <1>10. CASE kind = "metric"
    BY <1>10 DEF metric
  <1>11. CASE kind = "metricStream"
    BY <1>11 DEF metricStream
  <1>12. CASE kind = "numberPoint"
    BY <1>12 DEF numberPoint
  <1>13. CASE kind = "exemplar"
    BY <1>13 DEF exemplar
  <1>14. CASE kind = "histogramPoint"
    BY <1>14 DEF histogramPoint
  <1>15. CASE kind = "exponentialHistogramPoint"
    BY <1>15 DEF exponentialHistogramPoint
  <1>16. CASE kind = "summaryPoint"
    BY <1>16 DEF summaryPoint
  <1>17. CASE kind = "quantileValue"
    BY <1>17 DEF quantileValue
  <1> HIDE DEF Structs
  <1> QED
    BY KindsLemma, <1>1, <1>2, <1>3, <1>4, <1>5, <1>6, <1>7, <1>8, <1>9,
       <1>10, <1>11, <1>12, <1>13, <1>14, <1>15, <1>16, <1>17

\* What is written in place of a field has a key that no other field has.
LEMMA OddLemma ==
    ASSUME NEW kind \in DOMAIN Structs
    PROVE  /\ \A f \in Fields(kind) \ Odd(kind) : KeyOf(kind, f) \notin OddKeys(kind)
           /\ \A o : \A m \in OddMembers(kind, o) : m[1] \in OddKeys(kind)
  <1>1. \A f \in Fields(kind) \ Odd(kind) : KeyOf(kind, f) \notin OddKeys(kind)
    <2> SUFFICES ASSUME NEW f \in Fields(kind) \ Odd(kind)
                 PROVE  KeyOf(kind, f) \notin OddKeys(kind)
      OBVIOUS
    <2> USE RenamedLemma DEF KeyOf, Fields, Structs, Odd, OddKeys
    <2>1. CASE kind = "link"
      BY <2>1 DEF link
    <2>2. CASE kind = "log"
      BY <2>2 DEF log
    <2>3. CASE kind = "metric"
      BY <2>3 DEF metric
    <2>4. CASE kind = "exemplar"
      BY <2>4 DEF exemplar
    <2>5. CASE kind = "exponentialHistogramPoint"
      BY <2>5 DEF exponentialHistogramPoint
    <2>6. CASE kind \notin {"link", "log", "metric", "exemplar", "exponentialHistogramPoint"}
      BY <2>6
    <2> QED
      BY <2>1, <2>2, <2>3, <2>4, <2>5, <2>6
  <1>2. ASSUME NEW o, NEW m \in OddMembers(kind, o)
        PROVE  m[1] \in OddKeys(kind)
    <2>1. \A r \in SpanRef(o) : r[1] = <<0, "span">>
      BY DEF SpanRef
    <2>2. CASE kind = "link"
      BY <2>1, <2>2 DEF OddMembers, OddKeys
    <2>3. CASE kind = "log"
      <3>1. m \in SpanRef(o) \/ m = <<<<0, "trace">>, <<"str", o.trace[2]>>>>
        BY <2>3 DEF OddMembers
      <3> QED
        BY <2>1, <2>3, <3>1 DEF OddKeys
    <2>4. CASE kind = "metric"
      BY <2>4 DEF OddMembers, OddKeys
    <2>5. CASE kind = "exemplar"
      BY <2>1, <2>5 DEF OddMembers, OddKeys
    <2>6. CASE kind = "exponentialHistogramPoint"
      BY <2>6 DEF OddMembers, OddKeys
    <2>7. CASE kind \notin {"link", "log", "metric", "exemplar", "exponentialHistogramPoint"}
      BY <2>7 DEF OddMembers
    <2> QED
      BY <2>2, <2>3, <2>4, <2>5, <2>6, <2>7
  <1> QED
    BY <1>1, <1>2

\* There is one such member at most.
LEMMA OneOddLemma ==
    ASSUME NEW kind \in DOMAIN Structs, NEW o, NEW m \in OddMembers(kind, o),
           NEW n \in OddMembers(kind, o)
    PROVE  m = n
  <1>1. \A x, y \in SpanRef(o) : x = y
    BY DEF SpanRef
  <1>2. CASE kind \in {"link", "exemplar"}
    BY <1>1, <1>2 DEF OddMembers
  <1>3. CASE kind = "log"
    BY <1>1, <1>3 DEF OddMembers
  <1>4. CASE kind = "metric"
    BY <1>4 DEF OddMembers
  <1>5. CASE kind = "exponentialHistogramPoint"
    BY <1>5 DEF OddMembers
  <1>6. CASE kind \notin {"link", "log", "metric", "exemplar", "exponentialHistogramPoint"}
    BY <1>6 DEF OddMembers
  <1> QED
    BY <1>2, <1>3, <1>4, <1>5, <1>6

\* A field that is written under its own key is the only one there.
LEMMA OwnKeyLemma ==
    ASSUME NEW kind \in DOMAIN Structs, NEW o, DOMAIN o = Fields(kind),
           NEW f \in Fields(kind) \ Odd(kind), NEW m \in Members(kind, o), m[1] = KeyOf(kind, f)
    PROVE  f \in Written(kind, o) /\ m = <<KeyOf(kind, f), Content(kind, o, f)>>
  <1>1. m \notin OddMembers(kind, o)
    BY OddLemma
  <1>2. PICK g \in Written(kind, o) \ Odd(kind) : m = <<KeyOf(kind, g), Content(kind, o, g)>>
    BY <1>1 DEF Members
  <1>3. g = f
    BY <1>2, KeysLemma DEF Written
  <1> QED
    BY <1>2, <1>3

\* Keys stay apart, whatever names a sender has chosen: two of them do not
\* become one, none becomes a mark, and the page shows each as it was sent
\* (value.go:240-250, props.js:102-106).
THEOREM KeysApart ==
    ASSUME NEW k \in Nat \X STRING, NEW l \in Nat \X STRING
    PROVE  /\ key(k) = key(l) => k = l
           /\ key(k)[1] # 1
           /\ shownKey(key(k)) = k
  <1>1. /\ k[1] \in Nat /\ l[1] \in Nat
        /\ k = <<k[1], k[2]>> /\ l = <<l[1], l[2]>>
    OBVIOUS
  <1>2. \A i, j \in Nat : /\ i + 1 = j + 1 => i = j
                          /\ (i + 1) - 1 = i
                          /\ i > 0 => i + 1 # 1 /\ i + 1 >= 2
                          /\ ~(i > 0) => i = 0
    OBVIOUS
  <1>3. key(k)[1] # 1
    BY <1>1, <1>2 DEF key
  <1>4. shownKey(key(k)) = k
    BY <1>1, <1>2 DEF key, shownKey
  <1>5. shownKey(key(l)) = l
    BY <1>1, <1>2 DEF key, shownKey
  <1> QED
    BY <1>3, <1>4, <1>5

\* The keys of a struct have no underscore for mapifier.key to double.
LEMMA PlainLemma ==
    ASSUME NEW kind \in DOMAIN Structs, NEW o, NEW m \in Members(kind, o)
    PROVE  key(m[1]) = m[1]
  <1>1. CASE m \in OddMembers(kind, o)
    <2>1. m[1] \in OddKeys(kind)
      BY <1>1, OddLemma
    <2>2. m[1] \in {<<0, "span">>, <<0, "trace">>, <<0, "mono">>, <<0, "zeros">>}
      BY <2>1 DEF OddKeys
    <2> QED
      BY <2>2 DEF key
  <1>2. CASE m \notin OddMembers(kind, o)
    <2>1. PICK f : m[1] = KeyOf(kind, f)
      BY <1>2 DEF Members
    <2>2. m[1][1] = 0
      BY <2>1 DEF KeyOf
    <2> QED
      BY <2>2 DEF key
  <1> QED
    BY <1>1, <1>2

\* No encoder writes two members of a JSON object under one key: what a page
\* reads of a struct does not depend on their order (value.go:240-255,
\* objects.go:143-741).
THEOREM MembersOnce ==
    ASSUME NEW kind \in DOMAIN Structs, NEW o, DOMAIN o = Fields(kind),
           NEW m \in Members(kind, o), NEW n \in Members(kind, o), key(m[1]) = key(n[1])
    PROVE  m = n
  <1>1. m[1] = n[1]
    BY PlainLemma
  <1>2. CASE m \in OddMembers(kind, o) /\ n \in OddMembers(kind, o)
    BY <1>2, OneOddLemma
  <1>3. ASSUME NEW x \in Members(kind, o), x \notin OddMembers(kind, o),
               NEW y \in Members(kind, o), x[1] = y[1]
        PROVE  x = y
    <2>1. PICK f \in Written(kind, o) \ Odd(kind) : x = <<KeyOf(kind, f), Content(kind, o, f)>>
      BY <1>3 DEF Members
    <2>2. f \in Fields(kind) \ Odd(kind) /\ y[1] = KeyOf(kind, f)
      BY <1>3, <2>1 DEF Written
    <2> QED
      BY <2>1, <2>2, OwnKeyLemma
  <1> QED
    BY <1>1, <1>2, <1>3

\* Headers as gRPC and HTTP have them: a list of texts for each key.
HeaderMaps ==
    {"headers"} \X Seq((Nat \X STRING) \X ({"array"} \X Seq({"str"} \X Seq(STRING))))

\* A header with one value is not taken for one with a list.
LEMMA HeaderValueLemma ==
    ASSUME NEW v \in {"array"} \X Seq({"str"} \X Seq(STRING)),
           NEW w \in {"array"} \X Seq({"str"} \X Seq(STRING)),
           HeaderValue(v) = HeaderValue(w)
    PROVE  v = w
  <1> DEFINE Texts == {"str"} \X Seq(STRING)
  <1>1. v[2] \in Seq(Texts) /\ w[2] \in Seq(Texts) /\ v = <<"array", v[2]>> /\ w = <<"array", w[2]>>
    OBVIOUS
  <1>2. CASE Len(v[2]) = 1 /\ Len(w[2]) = 1
    <2>1. v[2][1] = w[2][1]
      BY <1>2 DEF HeaderValue
    <2>2. v[2] = w[2]
      BY <1>1, <1>2, <2>1
    <2> QED
      BY <1>1, <2>2
  <1>3. CASE Len(v[2]) # 1 /\ Len(w[2]) # 1
    BY <1>3 DEF HeaderValue
  <1>4. \A x \in Seq(Texts) : Len(x) = 1 => x[1] \in Texts
    <2>1. ASSUME NEW x \in Seq(Texts), Len(x) = 1
          PROVE  x[1] \in Texts
      <3>1. 1 \in 1 .. Len(x)
        BY <2>1
      <3> HIDE DEF Texts
      <3> QED
        BY <3>1, ElementOfSeq
    <2> QED
      BY <2>1
  <1>5. \A t \in Texts : t[1] = "str"
    OBVIOUS
  <1>6. CASE Len(v[2]) = 1 /\ Len(w[2]) # 1
    BY <1>1, <1>4, <1>5, <1>6 DEF HeaderValue
  <1>7. CASE Len(v[2]) # 1 /\ Len(w[2]) = 1
    BY <1>1, <1>4, <1>5, <1>7 DEF HeaderValue
  <1> QED
    BY <1>2, <1>3, <1>6, <1>7

LEMMA HeadersLemma ==
    ASSUME NEW o, NEW p, o.headers \in HeaderMaps, p.headers \in HeaderMaps,
           Content("requestMeta", o, "headers") = Content("requestMeta", p, "headers")
    PROVE  o.headers = p.headers
  <1> DEFINE Values == {"array"} \X Seq({"str"} \X Seq(STRING))
             Pairs == (Nat \X STRING) \X Values
             h == o.headers[2]
             k == p.headers[2]
             Of(s) == [i \in DOMAIN s |-> <<s[i][1], HeaderValue(s[i][2])>>]
  <1>1. h \in Seq(Pairs) /\ k \in Seq(Pairs) /\ o.headers = <<"headers", h>> /\ p.headers = <<"headers", k>>
    BY DEF HeaderMaps
  <1>2. Of(h) = Of(k)
    BY DEF Content
  <1> HIDE DEF h, k, Values
  <1>3. DOMAIN h = DOMAIN k
    <2>1. DOMAIN Of(h) = DOMAIN h /\ DOMAIN Of(k) = DOMAIN k
      OBVIOUS
    <2> QED
      BY <1>2, <2>1
  <1>4. ASSUME NEW i \in DOMAIN h
        PROVE  h[i] = k[i]
    <2>1. h[i] \in Pairs /\ k[i] \in Pairs
      BY <1>1, <1>3
    <2>2. Of(h)[i] = <<h[i][1], HeaderValue(h[i][2])>> /\ Of(k)[i] = <<k[i][1], HeaderValue(k[i][2])>>
      BY <1>3
    <2>3. h[i][1] = k[i][1] /\ HeaderValue(h[i][2]) = HeaderValue(k[i][2])
      BY <1>2, <2>2
    <2>4. h[i][2] = k[i][2]
      BY <2>1, <2>3, HeaderValueLemma DEF Values
    <2> QED
      BY <2>1, <2>3, <2>4
  <1>5. h = k
    BY <1>1, <1>3, <1>4
  <1> QED
    BY <1>1, <1>5

\* Two structs of a kind with the same JSON agree in every field, but for those
\* that are not written by themselves: leaving out the fields with their usual
\* values, and the list around the value of a header, loses nothing.
THEOREM MembersTell ==
    ASSUME NEW kind \in DOMAIN Structs,
           NEW o, DOMAIN o = Fields(kind), NEW p, DOMAIN p = Fields(kind),
           kind = "requestMeta" => {o.headers, p.headers} \subseteq {Nil} \cup HeaderMaps,
           Members(kind, o) = Members(kind, p)
    PROVE  \A f \in Fields(kind) \ Odd(kind) : o[f] = p[f]
  <1> TAKE f \in Fields(kind) \ Odd(kind)
  <1>1. ASSUME NEW x, DOMAIN x = Fields(kind), NEW y, DOMAIN y = Fields(kind),
               Members(kind, x) = Members(kind, y), f \in Written(kind, x)
        PROVE  f \in Written(kind, y) /\ Content(kind, x, f) = Content(kind, y, f)
    <2> DEFINE m == <<KeyOf(kind, f), Content(kind, x, f)>>
    <2>1. m \in Members(kind, y) /\ m[1] = KeyOf(kind, f)
      BY <1>1 DEF Members
    <2>2. f \in Written(kind, y) /\ m = <<KeyOf(kind, f), Content(kind, y, f)>>
      BY <1>1, <2>1, OwnKeyLemma
    <2> QED
      BY <2>2
  <1>2. CASE f \notin Written(kind, o)
    <2>1. f \notin Written(kind, p)
      BY <1>1, <1>2
    <2> QED
      BY <1>2, <2>1 DEF Written
  <1>3. CASE f \in Written(kind, o)
    <2>1. f \in Written(kind, p) /\ Content(kind, o, f) = Content(kind, p, f)
      BY <1>1, <1>3
    <2>2. CASE kind = "requestMeta" /\ f = "headers"
      <3>1. o.headers # Nil /\ p.headers # Nil
        BY <1>3, <2>1, <2>2 DEF Written, Always, Structs, requestMeta
      <3> QED
        BY <2>1, <2>2, <3>1, HeadersLemma
    <2>3. CASE ~(kind = "requestMeta" /\ f = "headers")
      BY <2>1, <2>3 DEF Content
    <2> QED
      BY <2>2, <2>3
  <1> QED
    BY <1>2, <1>3
=============================================================================
