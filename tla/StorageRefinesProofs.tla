------------------------ MODULE StorageRefinesProofs ------------------------
(***************************************************************************)
(* Storage implements Telemetry, for any number of calls, any batches, any *)
(* hash function and any number of resets: each of its steps is a step of  *)
(* the abstract store, or changes nothing a sender or a reader can see.    *)
(***************************************************************************)
EXTENDS StorageRefines, StorageKeptProofs

(***************************************************************************)
(* What the readers see                                                    *)
(***************************************************************************)

\* A function of nothing is the empty sequence.
LEMMA EmptyFunction ==
    ASSUME NEW f, f = [x \in DOMAIN f |-> f[x]], DOMAIN f = {}
    PROVE  f = <<>>
  <1>1. f \in [1 .. 0 -> {}]
    OBVIOUS
  <1>2. f \in Seq({}) /\ Len(f) = 0
    BY <1>1
  <1> QED
    BY <1>2, EmptySeq

\* The keys of the spans, before a step and after it.
LEMMA SpanKeyMember ==
    ASSUME NEW k
    PROVE  /\ k \in SpanKeys <=>
                \E t \in DOMAIN traces : \E s \in DOMAIN traces[t] : k = <<t, s>>
           /\ k \in SpanKeys' <=>
                \E t \in DOMAIN traces' : \E s \in DOMAIN traces'[t] : k = <<t, s>>
  BY DEF SpanKeys

\* The keys of the series, before a step and after it.
LEMMA SeriesKeyMember ==
    ASSUME NEW k
    PROVE  /\ k \in SeriesKeys <=>
                \E id \in DOMAIN metrics : \E st \in DOMAIN heap[metrics[id]].streams :
                    /\ heap[metrics[id]].streams[st].points # <<>>
                    /\ k = <<id, st>>
           /\ k \in SeriesKeys' <=>
                \E id \in DOMAIN metrics' : \E st \in DOMAIN heap'[metrics'[id]].streams :
                    /\ heap'[metrics'[id]].streams[st].points # <<>>
                    /\ k = <<id, st>>
  BY DEF SeriesKeys, Metric, Points

\* Nothing is kept where nothing is registered.
LEMMA NothingKept ==
    /\ traces = <<>> /\ metrics = <<>> => Spans = <<>> /\ Series = <<>>
    /\ traces' = <<>> /\ metrics' = <<>> => Spans' = <<>> /\ Series' = <<>>
  <1>1. traces = <<>> => SpanKeys = {}
    BY EmptyLemma, SpanKeyMember
  <1>2. metrics = <<>> => SeriesKeys = {}
    BY EmptyLemma, SeriesKeyMember
  <1>3. traces' = <<>> => SpanKeys' = {}
    BY EmptyLemma, SpanKeyMember
  <1>4. metrics' = <<>> => SeriesKeys' = {}
    BY EmptyLemma, SeriesKeyMember
  <1>5. /\ Spans = [k \in DOMAIN Spans |-> Spans[k]] /\ DOMAIN Spans = SpanKeys
        /\ Spans' = [k \in DOMAIN Spans' |-> Spans'[k]] /\ DOMAIN Spans' = SpanKeys'
        /\ Series = [k \in DOMAIN Series |-> Series[k]] /\ DOMAIN Series = SeriesKeys
        /\ Series' = [k \in DOMAIN Series' |-> Series'[k]] /\ DOMAIN Series' = SeriesKeys'
    BY DEF Spans, Series
  <1> QED
    BY <1>1, <1>2, <1>3, <1>4, <1>5, EmptyFunction

\* The initial states are those of the abstract store.
LEMMA AbstractInit ==
    ASSUME Init
    PROVE  Abstract!Init
  <1>1. \A c \in Call : n[c] = 1 /\ pc[c] = "idle" /\ cut[c] = "none"
    BY DEF Init
  <1>2. Taken = [c \in Call |-> {}]
    <2>1. \A c \in Call : Passed(c) = {}
      BY <1>1 DEF Passed
    <2> QED
      BY <2>1 DEF Taken
  <1>3. Status = [c \in Call |-> "new"]
    BY <1>1 DEF Status
  <1>4. Overtaken = {}
    BY <1>1 DEF Overtaken
  <1>5. Spans = <<>> /\ Series = <<>>
    BY NothingKept DEF Init
  <1>6. DOMAIN sent = Call /\ logs = <<>>
    BY DEF Init
  <1> QED
    BY <1>2, <1>3, <1>4, <1>5, <1>6 DEF Abstract!Init

\* A step that stores no span shows the same spans; one that does adds it
\* under its key, unless there is one.
LEMMA SpansStep ==
    ASSUME NEW c \in Call, Step(c)
    PROVE  /\ ~ receiveSpan(c) => Spans' = Spans
           /\ receiveSpan(c) =>
                LET key == <<Entry(c).trace, Entry(c).span>>
                IN  Spans' = [k \in DOMAIN Spans \cup {key} |->
                                IF k \in DOMAIN Spans THEN Spans[k]
                                ELSE WithContext(c, Entry(c).val)]
  <1>1. ASSUME ~ receiveSpan(c)
        PROVE  Spans' = Spans
    <2>1. traces' = traces
      BY <1>1 DEF Step, receiveRequestMeta, receiveResource, receiveScope, receiveLog,
                  receiveMetric, receivePoint, appendPoint, beginDump, endDump, convertPanic, printPanic, Unwind,
                  respond, MoveTo, store
    <2> QED
      BY <2>1 DEF Spans, SpanKeys
  <1>2. ASSUME receiveSpan(c)
        PROVE  LET key == <<Entry(c).trace, Entry(c).span>>
               IN  Spans' = [k \in DOMAIN Spans \cup {key} |->
                               IF k \in DOMAIN Spans THEN Spans[k]
                               ELSE WithContext(c, Entry(c).val)]
    <2> DEFINE tr == Entry(c).trace
               sp == Entry(c).span
               key == <<tr, sp>>
               v == WithContext(c, Entry(c).val)
               new == Register(SpansOf(tr), sp, v)
    <2>1. traces' = [t \in DOMAIN traces \cup {tr} |-> IF t = tr THEN new ELSE traces[t]]
      BY <1>2 DEF receiveSpan
    <2>2. /\ DOMAIN new = DOMAIN SpansOf(tr) \cup {sp}
          /\ \A s \in DOMAIN SpansOf(tr) : new[s] = SpansOf(tr)[s]
          /\ sp \notin DOMAIN SpansOf(tr) => new[sp] = v
      BY RegisterLemma
    <2>3. /\ tr \in DOMAIN traces => SpansOf(tr) = traces[tr]
          /\ tr \notin DOMAIN traces => DOMAIN SpansOf(tr) = {}
      BY EmptyLemma DEF SpansOf
    <2> HIDE DEF new, tr, sp, v
    <2>4. SpanKeys' = SpanKeys \cup {key}
      <3>1. ASSUME NEW k \in SpanKeys'
            PROVE  k \in SpanKeys \/ k = key
        <4>1. PICK t \in DOMAIN traces' : \E s \in DOMAIN traces'[t] : k = <<t, s>>
          BY SpanKeyMember
        <4>2. PICK s \in DOMAIN traces'[t] : k = <<t, s>>
          BY <4>1
        <4> QED
          BY <2>1, <2>2, <2>3, <4>2, SpanKeyMember
      <3>2. ASSUME NEW k \in SpanKeys
            PROVE  k \in SpanKeys'
        <4>1. PICK t \in DOMAIN traces : \E s \in DOMAIN traces[t] : k = <<t, s>>
          BY SpanKeyMember
        <4>2. PICK s \in DOMAIN traces[t] : k = <<t, s>>
          BY <4>1
        <4>3. t \in DOMAIN traces' /\ s \in DOMAIN traces'[t]
          BY <2>1, <2>2, <2>3
        <4> QED
          BY <4>2, <4>3, SpanKeyMember
      <3>3. key \in SpanKeys'
        <4>1. tr \in DOMAIN traces' /\ sp \in DOMAIN traces'[tr]
          BY <2>1, <2>2
        <4> QED
          BY <4>1, SpanKeyMember
      <3> QED
        BY <3>1, <3>2, <3>3
    <2>5. ASSUME NEW k \in SpanKeys
          PROVE  traces'[k[1]][k[2]] = traces[k[1]][k[2]]
      <3>1. PICK t \in DOMAIN traces : \E s \in DOMAIN traces[t] : k = <<t, s>>
        BY SpanKeyMember
      <3>2. PICK s \in DOMAIN traces[t] : k = <<t, s>>
        BY <3>1
      <3>3. traces'[t][s] = traces[t][s]
        BY <2>1, <2>2, <2>3
      <3> QED
        BY <3>2, <3>3
    <2>6. key \notin SpanKeys => traces'[key[1]][key[2]] = v
      <3>1. key \notin SpanKeys => sp \notin DOMAIN SpansOf(tr)
        BY <2>3, SpanKeyMember
      <3>2. key[1] = tr /\ key[2] = sp
        OBVIOUS
      <3> QED
        BY <2>1, <2>2, <3>1, <3>2
    <2> HIDE DEF key
    <2>7. Spans' = [k \in SpanKeys \cup {key} |->
                      IF k \in SpanKeys THEN traces[k[1]][k[2]] ELSE v]
      BY <2>4, <2>5, <2>6 DEF Spans
    <2>8. /\ DOMAIN Spans = SpanKeys
          /\ \A k \in SpanKeys : Spans[k] = traces[k[1]][k[2]]
      BY DEF Spans
    <2>9. Spans' = [k \in DOMAIN Spans \cup {key} |-> IF k \in DOMAIN Spans THEN Spans[k] ELSE v]
      BY <2>7, <2>8
    <2> QED
      BY <2>9 DEF key, tr, sp, v
  <1> QED
    BY <1>1, <1>2

\* When the metrics that can be read keep their points, the series are the same.
LEMMA SeriesStay ==
    ASSUME \A id \in DOMAIN metrics : \A st \in DOMAIN heap[metrics[id]].streams :
                /\ id \in DOMAIN metrics' /\ st \in DOMAIN heap'[metrics'[id]].streams
                /\ heap'[metrics'[id]].streams[st] = heap[metrics[id]].streams[st],
           \A id \in DOMAIN metrics' : \A st \in DOMAIN heap'[metrics'[id]].streams :
                heap'[metrics'[id]].streams[st].points # <<>> =>
                    id \in DOMAIN metrics /\ st \in DOMAIN heap[metrics[id]].streams
    PROVE  Series' = Series
  <1>1. \A k : k \in SeriesKeys' <=> k \in SeriesKeys
    BY SeriesKeyMember
  <1>2. ASSUME NEW k \in SeriesKeys
        PROVE  Points(k[1], k[2])' = Points(k[1], k[2])
    <2>1. PICK id \in DOMAIN metrics : \E st \in DOMAIN heap[metrics[id]].streams : k = <<id, st>>
      BY SeriesKeyMember
    <2>2. PICK st \in DOMAIN heap[metrics[id]].streams : k = <<id, st>>
      BY <2>1
    <2>3. heap'[metrics'[id]].streams[st] = heap[metrics[id]].streams[st]
      OBVIOUS
    <2> QED
      BY <2>2, <2>3 DEF Points, Metric
  <1> QED
    BY <1>1, <1>2 DEF Series

\* A point that is appended to a metric that can be read comes last in its
\* series; nothing else changes what can be read of the points.
LEMMA SeriesStep ==
    ASSUME IInv, NEW c \in Call, Exact(c), Step(c)
    PROVE  LET id == MetricIdAt(sent[c], n[c])
               key == <<id, hashValue(Entry(c).attr)>>
               found == id \in DOMAIN metrics /\ metrics[id] = cur[c]
               before == IF key \in DOMAIN Series THEN Series[key] ELSE <<>>
           IN  /\ ~ (appendPoint(c) /\ found) => Series' = Series
               /\ appendPoint(c) /\ found =>
                    Series' = [k \in DOMAIN Series \cup {key} |->
                                 IF k = key THEN Append(before, AsPoint(sent[c], n[c]))
                                 ELSE Series[k]]
  <1> DEFINE mid == MetricIdAt(sent[c], n[c])
             r == cur[c]
             sid == hashValue(Entry(c).attr)
             key == <<mid, sid>>
             found == mid \in DOMAIN metrics /\ metrics[mid] = r
             before == IF key \in DOMAIN Series THEN Series[key] ELSE <<>>
             p == AsPoint(sent[c], n[c])
             old == heap[r].streams[sid].points
  <1>1. CASE ~ appendPoint(c)
    <2>1. ASSUME NEW id \in DOMAIN metrics, NEW st \in DOMAIN heap[metrics[id]].streams
          PROVE  /\ id \in DOMAIN metrics' /\ st \in DOMAIN heap'[metrics'[id]].streams
                 /\ heap'[metrics'[id]].streams[st] = heap[metrics[id]].streams[st]
      <3>1. id \in DOMAIN metrics' /\ metrics'[id] = metrics[id] /\ metrics[id] \in 1 .. Len(heap)
        BY <1>1, StreamsStep
      <3>2. /\ DOMAIN heap[metrics[id]].streams \subseteq DOMAIN heap'[metrics[id]].streams
            /\ \A s \in DOMAIN heap[metrics[id]].streams :
                    heap'[metrics[id]].streams[s] = heap[metrics[id]].streams[s]
        BY <1>1, <3>1, StreamsStep
      <3> QED
        BY <3>1, <3>2
    <2>2. ASSUME NEW id \in DOMAIN metrics', NEW st \in DOMAIN heap'[metrics'[id]].streams,
                 heap'[metrics'[id]].streams[st].points # <<>>
          PROVE  id \in DOMAIN metrics /\ st \in DOMAIN heap[metrics[id]].streams
      <3>1. id \in DOMAIN metrics
        BY <1>1, StreamsStep
      <3>2. metrics'[id] = metrics[id] /\ metrics[id] \in 1 .. Len(heap)
        BY <1>1, <3>1, StreamsStep
      <3>3. st \in DOMAIN heap[metrics[id]].streams
        BY <1>1, <2>2, <3>2, StreamsStep
      <3> QED
        BY <3>1, <3>3
    <2>3. Series' = Series
      BY <2>1, <2>2, SeriesStay
    <2> QED
      BY <1>1, <2>3
  <1>2. CASE appendPoint(c)
    <2>1. /\ pc[c] \in {"run", "append"} /\ n[c] <= Len(sent[c].entries)
          /\ Entry(c).op = "point" /\ metrics' = metrics
      BY <1>2 DEF appendPoint, IInv, TypeOK
    <2>2. /\ r \in 1 .. Len(heap)
          /\ \A id \in DOMAIN metrics : metrics[id] = r => id = mid
          /\ ids[c].req = hashValue(sent[c].meta)
      BY <2>1, StoresContext
    <2>3. \A id \in DOMAIN metrics : metrics[id] \in 1 .. Len(heap)
      BY DEF IInv, TypeOK
    <2>4. /\ sid \in DOMAIN heap[r].streams /\ IsList(old)
          /\ heap'[r].streams[sid].points = Append(old, p)
          /\ DOMAIN heap'[r].streams = DOMAIN heap[r].streams
          /\ \A s \in DOMAIN heap[r].streams :
                s # sid => heap'[r].streams[s] = heap[r].streams[s]
          /\ \A q \in 1 .. Len(heap) : q # r => heap'[q] = heap[q]
      <3>1. p = [val |-> Entry(c).val, req |-> ids[c].req]
        BY <2>2 DEF AsPoint, Entry
      <3> QED
        BY <1>2, <3>1, PointAppended
    <2>5. CASE ~ found
      <3>1. \A id \in DOMAIN metrics : heap'[metrics'[id]] = heap[metrics[id]]
        BY <2>1, <2>2, <2>3, <2>4, <2>5
      <3>2. Series' = Series
        BY <2>1, <3>1, SeriesStay
      <3> QED
        BY <2>5, <3>2
    <2>6. CASE found
      <3>1. Append(old, p) # <<>>
        <4> DEFINE new == Append(old, p)
        <4>1. Len(new) # 0
          <5> HIDE DEF old, p
          <5> QED
            BY <2>4, AppendLemma
        <4>2. Len(<<>>) = 0
          BY EmptyLemma
        <4> HIDE DEF new
        <4>3. new # <<>>
          BY <4>1, <4>2, Zenon
        <4> QED
          BY <4>3 DEF new
      <3>2. mid \in DOMAIN metrics /\ metrics[mid] = r
        BY <2>6
      <3>3. key \in SeriesKeys <=> old # <<>>
        <4>1. ASSUME key \in SeriesKeys
              PROVE  old # <<>>
          <5> HIDE DEF mid, sid, r
          <5>1. PICK id \in DOMAIN metrics : \E st \in DOMAIN heap[metrics[id]].streams :
                    heap[metrics[id]].streams[st].points # <<>> /\ key = <<id, st>>
            BY <4>1, SeriesKeyMember
          <5>2. PICK st \in DOMAIN heap[metrics[id]].streams :
                    heap[metrics[id]].streams[st].points # <<>> /\ key = <<id, st>>
            BY <5>1
          <5> QED
            BY <3>2, <5>2
        <4>2. ASSUME old # <<>>
              PROVE  key \in SeriesKeys
          <5>1. /\ sid \in DOMAIN heap[metrics[mid]].streams
                /\ heap[metrics[mid]].streams[sid].points # <<>>
            BY <2>4, <3>2, <4>2
          <5> HIDE DEF mid, sid, r
          <5> QED
            BY <3>2, <5>1, SeriesKeyMember
        <4> QED
          BY <4>1, <4>2
      <3>4. ASSUME NEW k, k = key
            PROVE  Points(k[1], k[2]) = old /\ Points(k[1], k[2])' = Append(old, p)
        <4>1. k[1] = mid /\ k[2] = sid
          BY <3>4
        <4>2. heap'[metrics'[mid]].streams[sid].points = Append(old, p)
          BY <2>1, <2>4, <3>2
        <4>3. heap[metrics[mid]].streams[sid].points = old
          BY <3>2
        <4> HIDE DEF mid, sid, r, old, p
        <4> QED
          BY <4>1, <4>2, <4>3 DEF Points, Metric
      <3>5. ASSUME NEW id \in DOMAIN metrics, NEW st, <<id, st>> # key
            PROVE  /\ st \in DOMAIN heap'[metrics'[id]].streams
                        <=> st \in DOMAIN heap[metrics[id]].streams
                   /\ st \in DOMAIN heap[metrics[id]].streams =>
                        heap'[metrics'[id]].streams[st] = heap[metrics[id]].streams[st]
        <4>1. CASE id = mid
          <5>1. st # sid
            BY <3>5, <4>1
          <5> HIDE DEF mid, r, sid
          <5> QED
            BY <2>1, <2>4, <3>2, <4>1, <5>1
        <4>2. CASE id # mid
          <5>1. metrics[id] # r
            BY <2>2, <4>2
          <5> QED
            BY <2>1, <2>3, <2>4, <5>1
        <4> QED
          BY <4>1, <4>2
      <3>6. key \in SeriesKeys'
        <4>1. /\ mid \in DOMAIN metrics' /\ sid \in DOMAIN heap'[metrics'[mid]].streams
              /\ heap'[metrics'[mid]].streams[sid].points # <<>>
          BY <2>1, <2>4, <3>1, <3>2
        <4> QED
          BY <4>1, SeriesKeyMember
      <3> HIDE DEF key, mid, r, sid, old, p
      <3>7. ASSUME NEW k, k # key
            PROVE  /\ k \in SeriesKeys' <=> k \in SeriesKeys
                   /\ k \in SeriesKeys => Points(k[1], k[2])' = Points(k[1], k[2])
        <4>1. ASSUME k \in SeriesKeys'
              PROVE  k \in SeriesKeys
          <5>1. PICK id \in DOMAIN metrics' : \E st \in DOMAIN heap'[metrics'[id]].streams :
                    heap'[metrics'[id]].streams[st].points # <<>> /\ k = <<id, st>>
            BY <4>1, SeriesKeyMember
          <5>2. PICK st \in DOMAIN heap'[metrics'[id]].streams :
                    heap'[metrics'[id]].streams[st].points # <<>> /\ k = <<id, st>>
            BY <5>1
          <5>3. id \in DOMAIN metrics /\ <<id, st>> # key
            BY <2>1, <3>7, <5>2
          <5>4. /\ st \in DOMAIN heap[metrics[id]].streams
                /\ heap[metrics[id]].streams[st].points # <<>>
            BY <3>5, <5>2, <5>3
          <5> QED
            BY <5>2, <5>3, <5>4, SeriesKeyMember
        <4>2. ASSUME k \in SeriesKeys
              PROVE  k \in SeriesKeys' /\ Points(k[1], k[2])' = Points(k[1], k[2])
          <5>1. PICK id \in DOMAIN metrics : \E st \in DOMAIN heap[metrics[id]].streams :
                    heap[metrics[id]].streams[st].points # <<>> /\ k = <<id, st>>
            BY <4>2, SeriesKeyMember
          <5>2. PICK st \in DOMAIN heap[metrics[id]].streams :
                    heap[metrics[id]].streams[st].points # <<>> /\ k = <<id, st>>
            BY <5>1
          <5>3. /\ id \in DOMAIN metrics' /\ st \in DOMAIN heap'[metrics'[id]].streams
                /\ heap'[metrics'[id]].streams[st] = heap[metrics[id]].streams[st]
            BY <2>1, <3>5, <3>7, <5>2
          <5>4. Points(k[1], k[2])' = Points(k[1], k[2])
            BY <5>2, <5>3 DEF Points, Metric
          <5>5. k \in SeriesKeys'
            BY <5>2, <5>3, SeriesKeyMember
          <5> QED
            BY <5>4, <5>5
        <4> QED
          BY <4>1, <4>2
      <3>8. SeriesKeys' = SeriesKeys \cup {key}
        BY <3>6, <3>7
      <3>9. /\ DOMAIN Series = SeriesKeys
            /\ \A k \in SeriesKeys : Series[k] = Points(k[1], k[2])
        BY DEF Series
      <3>10. before = old
        BY <3>3, <3>4, <3>9
      <3> HIDE DEF before
      <3>11. Series' = [k \in SeriesKeys' |-> Points(k[1], k[2])']
        BY DEF Series
      <3>12. Series' = [k \in DOMAIN Series \cup {key} |->
                          IF k = key THEN Append(before, p) ELSE Series[k]]
        BY <3>4, <3>7, <3>8, <3>9, <3>10, <3>11
      <3> QED
        BY <1>2, <2>6, <3>12 DEF key, mid, r, sid, p, before
    <2> QED
      BY <2>5, <2>6
  <1> QED
    BY <1>1, <1>2

(***************************************************************************)
(* What the senders see                                                    *)
(***************************************************************************)

\* Where a call is, for its sender, and what a step makes of that.
LEMMA StatusStep ==
    ASSUME TypeOK, NEW c \in Call, Step(c)
    PROVE  /\ receiveRequestMeta(c) =>
                Status[c] = "new" /\ Status' = [Status EXCEPT ![c] = "open"]
           /\ ~ receiveRequestMeta(c) => Status[c] = "open"
           /\ respond(c) => Status' = [Status EXCEPT ![c] = "answered"]
           /\ convertPanic(c) \/ printPanic(c) =>
                Status' = [Status EXCEPT ![c] = "failed"] \/ Status' = Status
           /\ Passes(c) \/ receivePoint(c) \/ beginDump(c) \/ endDump(c) => Status' = Status
  <1> DEFINE S(x) == CASE x = "idle" -> "new" [] x = "done" -> "answered"
                       [] x = "failed" -> "failed" [] OTHER -> "open"
  <1>1. Status = [d \in Call |-> S(pc[d])] /\ Status' = [d \in Call |-> S(pc'[d])]
    BY DEF Status
  <1>2. /\ S("idle") = "new" /\ S("done") = "answered" /\ S("failed") = "failed"
        /\ \A x \in {"run", "append", "panic", "dump", "dumping"} : S(x) = "open"
    OBVIOUS
  <1>3. \A d \in Call : d # c => pc'[d] = pc[d]
    BY StepIsLocal
  <1>5. ~ receiveRequestMeta(c) => pc[c] \in {"run", "append", "panic", "dump", "dumping"}
    BY PanicLemma
       DEF Step, receiveResource, receiveScope, receiveSpan, receiveLog,
           receiveMetric, receivePoint, appendPoint, At, InLoop, beginDump, endDump,
           respond, MoveTo
  <1>4. pc[c] = "idle" <=> receiveRequestMeta(c)
    BY <1>5 DEF receiveRequestMeta
  <1>6. receiveRequestMeta(c) => pc'[c] \in {"run", "panic"}
    BY DEF receiveRequestMeta, AfterPrint, TypeOK
  <1>7. respond(c) => pc'[c] = "done"
    BY DEF respond, MoveTo, TypeOK
  <1>8. convertPanic(c) \/ printPanic(c) => pc'[c] = "failed" \/ pc'[c] = pc[c]
    BY PanicLemma DEF TypeOK
  <1>9. Passes(c) \/ receivePoint(c) \/ beginDump(c) \/ endDump(c) =>
            /\ pc'[c] \in {"run", "append", "panic", "dump", "dumping"}
            /\ pc[c] \in {"run", "append", "panic", "dump", "dumping"}
    BY <1>5 DEF Passes, receivePoint, At, InLoop, beginDump, endDump, MoveTo, TypeOK
  <1> HIDE DEF S
  <1>10. \A v : S(pc'[c]) = v => Status' = [Status EXCEPT ![c] = v]
    BY <1>1, <1>3
  <1>11. S(pc'[c]) = S(pc[c]) => Status' = Status
    BY <1>1, <1>3
  <1>12. Status[c] = S(pc[c])
    BY <1>1
  <1> QED
    BY <1>2, <1>4, <1>5, <1>6, <1>7, <1>8, <1>9, <1>10, <1>11, <1>12

\* What has been taken of a call: it goes on in the order of the batch.
LEMMA TakenStep ==
    ASSUME IInv, NEW c \in Call, Step(c)
    PROVE  LET stores == Passes(c) /\ Entry(c).op \in {"span", "log", "point"}
           IN  /\ stores =>
                    /\ n[c] \in Abstract!Remaining(c)
                    /\ \A j \in Abstract!Remaining(c) : n[c] <= j
                    /\ Taken' = [Taken EXCEPT ![c] = @ \cup {n[c]}]
               /\ ~ stores => Taken' = Taken
               /\ respond(c) => Abstract!Remaining(c) = {}
  <1>1. /\ sent' = sent
        /\ \A d \in Call : d # c => n'[d] = n[d]
    BY StepIsLocal DEF IInv
  <1>2. n[c] \in Nat \ {0} /\ Len(sent[c].entries) \in Nat
    BY BatchAssumption DEF IInv, TypeOK
  <1>3. /\ Taken = [d \in Call |-> Positions(sent[d]) \cap Passed(d)]
        /\ Taken' = [d \in Call |-> Positions(sent[d]) \cap Passed(d)']
    BY <1>1 DEF Taken
  <1>4. \A d \in Call : d # c => Passed(d)' = Passed(d)
    BY <1>1 DEF Passed
  <1>5. Abstract!Remaining(c) = {j \in Positions(sent[c]) : j \notin Passed(c)}
    BY <1>3 DEF Abstract!Remaining
  <1>6. \A j \in Positions(sent[c]) :
            /\ j \in 1 .. Len(sent[c].entries) /\ (j \in Passed(c) <=> j < n[c])
            /\ sent[c].entries[j].op \in {"span", "log", "point"}
    BY DEF Positions, Passed
  <1>7. CASE Passes(c)
    <2>1. n[c] \in 1 .. Len(sent[c].entries) /\ Passed(c)' = Passed(c) \cup {n[c]}
      BY <1>1, <1>2, <1>7 DEF Passes, Passed
    <2>2. ~ respond(c)
      BY <1>2, <2>1 DEF respond
    <2>3. CASE Entry(c).op \in {"span", "log", "point"}
      <3>1. n[c] \in Positions(sent[c])
        BY <2>1, <2>3 DEF Positions, Entry
      <3>2. n[c] \in Abstract!Remaining(c) /\ \A j \in Abstract!Remaining(c) : n[c] <= j
        BY <1>2, <1>5, <1>6, <3>1
      <3>3. Taken' = [Taken EXCEPT ![c] = @ \cup {n[c]}]
        BY <1>3, <1>4, <2>1, <3>1
      <3> QED
        BY <1>7, <2>2, <2>3, <3>2, <3>3
    <2>4. CASE Entry(c).op \notin {"span", "log", "point"}
      <3>1. n[c] \notin Positions(sent[c])
        BY <2>4 DEF Positions, Entry
      <3>2. Taken' = Taken
        BY <1>3, <1>4, <2>1, <3>1
      <3> QED
        BY <2>2, <2>4, <3>2
    <2> QED
      BY <2>3, <2>4
  <1>8. CASE ~ Passes(c)
    <2>1. n'[c] = n[c]
      BY <1>8, PassLemma DEF Remains, Step, IInv
    <2>2. Passed(c)' = Passed(c)
      BY <1>1, <2>1 DEF Passed
    <2>3. Taken' = Taken
      BY <1>3, <1>4, <2>2
    <2>4. respond(c) => Abstract!Remaining(c) = {}
      BY <1>2, <1>5, <1>6 DEF respond
    <2> QED
      BY <1>8, <2>3, <2>4
  <1> QED
    BY <1>7, <1>8

(***************************************************************************)
(* The steps                                                               *)
(***************************************************************************)

\* What no step of the abstract store is needed for.
Hidden ==
    /\ UNCHANGED <<sent, logs>> /\ Overtaken' = Overtaken
    /\ Taken' = Taken /\ Status' = Status /\ Spans' = Spans /\ Series' = Series

\* Every step of the goroutines, the runtime and the reset is one of the
\* abstract store, or hidden.
LEMMA AbstractStep ==
    ASSUME StoreInv, [Next]_vars
    PROVE  [Abstract!Next]_Abstract!vars
  <1>1. Hidden => [Abstract!Next]_Abstract!vars
    BY DEF Hidden, Abstract!vars, Abstract!telemetry
  <1>2. UNCHANGED <<store, call, cut>> => Hidden
    BY DEF Hidden, store, call, Overtaken, Taken, Passed, Status, Spans, SpanKeys, Series,
           SeriesKeys, Points, Metric
  <1>3. CASE UNCHANGED vars
    BY <1>1, <1>2, <1>3 DEF vars
  <1>4. CASE \E c, d \in Call : race(c, d)
    BY <1>1, <1>2, <1>4 DEF race
  <1>5. CASE reset
    <2>1. Spans' = <<>> /\ logs' = <<>> /\ Series' = <<>>
      BY <1>5, NothingKept DEF reset
    <2>2. UNCHANGED <<sent, pc, n>>
      BY <1>5 DEF reset, noteReset, call
    <2>3. Overtaken' = {c \in Call : Status[c] = "open"}
      <3>1. ASSUME NEW c \in Call
            PROVE  cut'[c] = "during" <=> Status[c] = "open"
        <4>1. pc[c] = "idle" => cut[c] = "none"
          BY DEF StoreInv, IInv, Locals
        <4>2. cut'[c] = CASE pc[c] = "idle" -> cut[c]
                          [] pc[c] \in {"done", "failed"} -> "after"
                          [] OTHER -> "during"
          BY <1>5 DEF reset, noteReset
        <4> QED
          BY <4>1, <4>2 DEF Status
      <3> QED
        BY <3>1 DEF Overtaken
    <2>4. Taken' = Taken /\ Status' = Status
      BY <2>2 DEF Taken, Passed, Status
    <2>5. Abstract!Reset
      BY <2>1, <2>2, <2>3, <2>4 DEF Abstract!Reset
    <2> QED
      BY <2>5 DEF Abstract!Next
  <1>6. ASSUME NEW c \in Call, Step(c)
        PROVE  [Abstract!Next]_Abstract!vars
    <2> DEFINE b == sent[c]
               i == n[c]
               x == Item(b, i)
    <2>1. IInv /\ TypeOK /\ Exact(c)
      BY DEF StoreInv, IInv
    <2>2. sent' = sent /\ Overtaken' = Overtaken
      BY <1>6, <2>1, StepIsLocal DEF Overtaken
    <2>3. logs' = logs \/ receiveLog(c)
      BY <1>6 DEF Step, receiveRequestMeta, receiveResource, receiveScope, receiveSpan,
                  receiveMetric, receivePoint, appendPoint, beginDump, endDump, convertPanic, printPanic, Unwind,
                  respond, MoveTo, store
    <2>4. Remains(c) => ~ Passes(c)
      BY <2>1 DEF Remains, Passes, TypeOK
    <2>5. ASSUME Remains(c)
          PROVE  logs' = logs /\ Taken' = Taken /\ Spans' = Spans /\ Series' = Series
      <3>1. ~ receiveLog(c) /\ ~ receiveSpan(c) /\ ~ appendPoint(c)
        BY <1>6, <2>1, <2>4, <2>5, PassLemma
      <3> QED
        BY <1>6, <2>1, <2>3, <2>4, <2>5, <3>1, TakenStep, SpansStep, SeriesStep
    <2>6. CASE receiveRequestMeta(c)
      <3>1. Remains(c) /\ Status[c] = "new" /\ Status' = [Status EXCEPT ![c] = "open"]
        BY <1>6, <2>1, <2>6, PassLemma, StatusStep
      <3>2. Abstract!Begin(c)
        BY <2>2, <2>5, <3>1 DEF Abstract!Begin, Abstract!telemetry
      <3> QED
        BY <3>2 DEF Abstract!Next
    <2>7. CASE receivePoint(c) \/ beginDump(c) \/ endDump(c)
      <3>1. Remains(c) /\ Status' = Status
        BY <1>6, <2>1, <2>7, PassLemma, StatusStep
      <3> QED
        BY <1>1, <2>2, <2>5, <3>1 DEF Hidden
    <2>8. CASE respond(c)
      <3>1. /\ Remains(c) /\ Abstract!Remaining(c) = {}
            /\ Status[c] = "open" /\ Status' = [Status EXCEPT ![c] = "answered"]
        <4>1. ~ receiveRequestMeta(c)
          BY <2>8 DEF respond, MoveTo, receiveRequestMeta
        <4> QED
          BY <1>6, <2>1, <2>8, <4>1, PassLemma, StatusStep, TakenStep
      <3>2. Abstract!Answer(c)
        BY <2>2, <2>5, <3>1 DEF Abstract!Answer, Abstract!telemetry
      <3> QED
        BY <3>2 DEF Abstract!Next
    <2>9. CASE convertPanic(c) \/ printPanic(c)
      <3>1. /\ Remains(c) /\ Status[c] = "open"
            /\ Status' = [Status EXCEPT ![c] = "failed"] \/ Status' = Status
        <4>1. ~ receiveRequestMeta(c)
          BY <2>9, PanicLemma DEF receiveRequestMeta
        <4> QED
          BY <1>6, <2>1, <2>9, <4>1, PassLemma, StatusStep
      <3>2. CASE Status' = [Status EXCEPT ![c] = "failed"]
        <4>1. Abstract!Fail(c)
          BY <2>2, <2>5, <3>1, <3>2 DEF Abstract!Fail, Abstract!telemetry
        <4> QED
          BY <4>1 DEF Abstract!Next
      <3>3. CASE Status' = Status
        BY <1>1, <2>2, <2>5, <3>1, <3>3 DEF Hidden
      <3> QED
        BY <3>1, <3>2, <3>3
    <2>10. CASE receiveResource(c) \/ receiveScope(c) \/ receiveMetric(c)
      <3>1. Passes(c) /\ Entry(c).op \in {"res", "scope", "metric"}
        BY <1>6, <2>1, <2>10, PassLemma DEF receiveResource, receiveScope, receiveMetric, At
      <3>2. ~ receiveLog(c) /\ ~ receiveSpan(c) /\ ~ appendPoint(c)
        BY <2>1, <3>1 DEF receiveLog, receiveSpan, appendPoint, At, TypeOK
      <3>3. Status' = Status
        BY <1>6, <2>1, <3>1, StatusStep
      <3>4. Taken' = Taken
        BY <1>6, <2>1, <3>1, TakenStep
      <3> QED
        BY <1>1, <1>6, <2>1, <2>2, <2>3, <3>2, <3>3, <3>4, SpansStep, SeriesStep DEF Hidden
    <2>11. ASSUME Passes(c), Entry(c).op \in {"span", "log", "point"},
                  \/ Abstract!KeepSpan(x) \/ Abstract!KeepLog(x)
                  \/ Abstract!KeepPoint(x) \/ Abstract!LosePoint(c, x)
           PROVE  [Abstract!Next]_Abstract!vars
      <3>1. /\ i \in Abstract!Remaining(c) /\ \A j \in Abstract!Remaining(c) : i <= j
            /\ Taken' = [Taken EXCEPT ![c] = @ \cup {i}]
        BY <1>6, <2>1, <2>11, TakenStep
      <3>2. Status[c] = "open" /\ Status' = Status
        <4>1. ~ receiveRequestMeta(c)
          BY <2>11 DEF Passes, receiveRequestMeta
        <4> QED
          BY <1>6, <2>1, <2>11, <4>1, StatusStep
      <3> HIDE DEF x, i
      <3>3. Abstract!Take(c)
        BY <2>2, <2>11, <3>1, <3>2 DEF Abstract!Take, x
      <3> QED
        BY <3>3 DEF Abstract!Next
    <2>12. Entry(c) = b.entries[i]
      BY DEF Entry
    <2>13. CASE receiveSpan(c)
      <3>1. Passes(c) /\ Entry(c).op = "span"
        BY <1>6, <2>1, <2>13, PassLemma DEF receiveSpan, At
      <3>2. ~ receiveLog(c) /\ ~ appendPoint(c)
        BY <2>1, <3>1 DEF receiveLog, appendPoint, At, TypeOK
      <3>3. WithContext(c, Entry(c).val) = AsStored(b, i)
        BY <2>1, <3>1, StoresContext DEF Passes
      <3>4. x = [kind |-> "span", key |-> <<Entry(c).trace, Entry(c).span>>, val |-> AsStored(b, i)]
        BY <2>12, <3>1 DEF Item
      <3>5. logs' = logs /\ Series' = Series
        BY <1>6, <2>1, <2>3, <3>2, SeriesStep
      <3>6. Abstract!KeepSpan(x)
        <4> DEFINE key == <<Entry(c).trace, Entry(c).span>>
        <4>1. Spans' = [k \in DOMAIN Spans \cup {key} |->
                          IF k \in DOMAIN Spans THEN Spans[k] ELSE AsStored(b, i)]
          BY <1>6, <2>13, <3>3, SpansStep
        <4>2. x.kind = "span" /\ x.key = key /\ x.val = AsStored(b, i)
          BY <3>4
        <4> HIDE DEF x, key
        <4> QED
          BY <3>5, <4>1, <4>2 DEF Abstract!KeepSpan
      <3> QED
        BY <2>11, <3>1, <3>6
    <2>14. CASE receiveLog(c)
      <3>1. Passes(c) /\ Entry(c).op = "log"
        BY <1>6, <2>1, <2>14, PassLemma DEF receiveLog, At
      <3>2. ~ receiveSpan(c) /\ ~ appendPoint(c)
        BY <2>1, <3>1 DEF receiveSpan, appendPoint, At, TypeOK
      <3>3. WithContext(c, Entry(c).val) = AsStored(b, i)
        BY <2>1, <3>1, StoresContext DEF Passes
      <3>4. x = [kind |-> "log", val |-> AsStored(b, i)]
        BY <2>12, <3>1 DEF Item
      <3>5. Spans' = Spans /\ Series' = Series
        BY <1>6, <2>1, <3>2, SpansStep, SeriesStep
      <3>6. Abstract!KeepLog(x)
        BY <2>14, <3>3, <3>4, <3>5 DEF Abstract!KeepLog, receiveLog
      <3> QED
        BY <2>11, <3>1, <3>6
    <2>15. CASE appendPoint(c)
      <3> DEFINE id == MetricIdAt(b, i)
                 key == <<id, hashValue(Entry(c).attr)>>
                 found == id \in DOMAIN metrics /\ metrics[id] = cur[c]
      <3>1. Passes(c) /\ Entry(c).op = "point"
        BY <1>6, <2>1, <2>15, PassLemma DEF appendPoint, TypeOK
      <3>2. ~ receiveSpan(c) /\ ~ receiveLog(c)
        BY <2>1, <3>1 DEF receiveSpan, receiveLog, At
      <3>3. x = [kind |-> "point", key |-> key, val |-> AsPoint(b, i)]
        BY <2>12, <3>1 DEF Item
      <3>4. Spans' = Spans /\ logs' = logs
        BY <1>6, <2>3, <3>2, SpansStep
      <3>5. CASE found
        <4>1. Series' = [k \in DOMAIN Series \cup {key} |->
                          IF k = key
                          THEN Append(IF key \in DOMAIN Series THEN Series[key] ELSE <<>>,
                                      AsPoint(b, i))
                          ELSE Series[k]]
          BY <1>6, <2>1, <2>15, <3>5, SeriesStep
        <4>2. Abstract!KeepPoint(x)
          <5>1. x.kind = "point" /\ x.key = key /\ x.val = AsPoint(b, i)
            BY <3>3
          <5> HIDE DEF x, key
          <5> QED
            BY <3>4, <4>1, <5>1 DEF Abstract!KeepPoint, Abstract!PointsAt
        <4> QED
          BY <2>11, <3>1, <4>2
      <3>6. CASE ~ found
        <4>1. Series' = Series
          BY <1>6, <2>1, <2>15, <3>6, SeriesStep
        <4>2. c \in Overtaken
          <5>1. cut[c] # "none"
            BY <2>1, <3>1, <3>6, StoresContext DEF Passes
          <5>2. cut[c] # "after"
            BY <2>1, <2>15 DEF IInv, Locals, appendPoint
          <5> QED
            BY <2>1, <5>1, <5>2 DEF TypeOK, Overtaken
        <4>3. Abstract!LosePoint(c, x)
          BY <3>3, <3>4, <4>1, <4>2 DEF Abstract!LosePoint, Abstract!telemetry
        <4> QED
          BY <2>11, <3>1, <4>3
      <3> QED
        BY <3>5, <3>6
    <2> QED
      BY <1>6, <2>6, <2>7, <2>8, <2>9, <2>10, <2>13, <2>14, <2>15 DEF Step
  <1> QED
    BY <1>3, <1>4, <1>5, <1>6 DEF Next

\* The store implements Telemetry: to its senders and its readers it is one
\* that takes each item in a single step, once, in order and under its own
\* call's ids, however goroutines and resets interleave.
THEOREM Implements == Spec => StoresAtOnce
  <1>1. Init => Abstract!Init
    BY AbstractInit
  <1>2. StoreInv /\ [Next]_vars => [Abstract!Next]_Abstract!vars
    BY AbstractStep
  <1> QED
    BY <1>1, <1>2, Invariant, PTL DEF Spec, StoresAtOnce, Abstract!Spec
=============================================================================
