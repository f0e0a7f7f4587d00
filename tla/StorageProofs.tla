--------------------------- MODULE StorageProofs ---------------------------
(***************************************************************************)
(* Proofs about Storage, for any number of calls, any batches, any hash    *)
(* function and any number of resets.                                      *)
(***************************************************************************)
EXTENDS StorageInv, SequenceTheorems, TLAPS

(***************************************************************************)
(* The operators the registries and lists are built with                   *)
(***************************************************************************)

\* Registering under a key keeps what is there and adds at most that key.
LEMMA RegisterLemma ==
    ASSUME NEW f, NEW k, NEW v
    PROVE  /\ DOMAIN Register(f, k, v) = DOMAIN f \cup {k}
           /\ \A x \in DOMAIN f : Register(f, k, v)[x] = f[x]
           /\ k \notin DOMAIN f => Register(f, k, v)[k] = v
  BY DEF Register

\* A sequence over any set is a list.
LEMMA ListLemma ==
    ASSUME NEW S, NEW t \in Seq(S)
    PROVE  IsList(t)
  <1> DEFINE T == {t[i] : i \in DOMAIN t}
  <1>1. Len(t) \in Nat /\ t \in [1 .. Len(t) -> S] /\ DOMAIN t = 1 .. Len(t)
    BY LenProperties
  <1>2. t = [i \in 1 .. Len(t) |-> t[i]]
    BY <1>1
  <1>3. \A i \in 1 .. Len(t) : t[i] \in T
    BY <1>1
  <1> HIDE DEF T
  <1>4. t \in [1 .. Len(t) -> T]
    BY <1>2, <1>3
  <1>5. t \in UNION {[1 .. k -> T] : k \in Nat}
    BY <1>1, <1>4
  <1>6. t \in Seq(T)
    BY <1>5, SeqDef, Zenon
  <1> QED
    BY <1>6 DEF IsList, T

\* Appending to a list keeps its elements and adds one.
LEMMA AppendLemma ==
    ASSUME NEW s, IsList(s), NEW x
    PROVE  /\ Len(s) \in Nat
           /\ Len(Append(s, x)) = Len(s) + 1
           /\ DOMAIN s = 1 .. Len(s)
           /\ DOMAIN Append(s, x) = 1 .. Len(s) + 1
           /\ \A i \in 1 .. Len(s) : Append(s, x)[i] = s[i]
           /\ Append(s, x)[Len(s) + 1] = x
           /\ IsList(Append(s, x))
  <1> DEFINE S == {s[i] : i \in DOMAIN s} \cup {x}
             t == Append(s, x)
  <1>1. s \in Seq(S)
    BY DEF IsList
  <1>2. t \in Seq(S) /\ Len(t) = Len(s) + 1 /\ Len(s) \in Nat
    BY <1>1, x \in S, LenProperties, AppendProperties
  <1>3. \A i \in 1 .. Len(s) : t[i] = s[i]
    BY <1>1
  <1>4. t[Len(s) + 1] = x
    BY <1>1
  <1>5. DOMAIN t = 1 .. Len(t) /\ DOMAIN s = 1 .. Len(s)
    BY <1>1, <1>2
  <1>6. IsList(t)
    BY <1>2, ListLemma
  <1> QED
    BY <1>2, <1>3, <1>4, <1>5, <1>6

\* The empty list.
LEMMA EmptyLemma == DOMAIN <<>> = {} /\ Len(<<>>) = 0 /\ IsList(<<>>)
  BY EmptySeq DEF IsList

\* Assigning to an element of a list changes that element alone.
LEMMA UpdateLemma ==
    ASSUME NEW s, IsList(s), NEW r, NEW v
    PROVE  LET t == [s EXCEPT ![r] = v]
           IN  /\ Len(s) \in Nat
               /\ Len(t) = Len(s)
               /\ DOMAIN s = 1 .. Len(s)
               /\ \A i \in 1 .. Len(s) : t[i] = IF i = r THEN v ELSE s[i]
               /\ IsList(t)
  <1> DEFINE S == {s[i] : i \in DOMAIN s} \cup {v}
             t == [s EXCEPT ![r] = v]
  <1>1. s \in Seq(S) /\ DOMAIN s = 1 .. Len(s) /\ Len(s) \in Nat
    BY DEF IsList
  <1>2. CASE r \in 1 .. Len(s)
    <2>1. /\ t \in Seq(S) /\ Len(t) = Len(s)
          /\ \A i \in 1 .. Len(s) : t[i] = IF i = r THEN v ELSE s[i]
      BY <1>1, <1>2, v \in S, ExceptSeq
    <2>2. IsList(t)
      BY <2>1, ListLemma
    <2> QED
      BY <1>1, <2>1, <2>2
  <1>3. CASE r \notin 1 .. Len(s)
    <2>1. t = s
      BY <1>1, <1>3
    <2> QED
      BY <1>1, <1>3, <2>1 DEF IsList
  <1> QED
    BY <1>2, <1>3

(***************************************************************************)
(* The metric objects                                                      *)
(***************************************************************************)

\* What TypeOK and Lists say of a metric object.
MetricShape(m) ==
    /\ DOMAIN m = {"mi", "desc", "meta", "conflict", "streams"}
    /\ \A st \in DOMAIN m.streams :
        /\ DOMAIN m.streams[st] = {"attr", "points"}
        /\ IsList(m.streams[st].points)

\* What may become of a metric object: it keeps its identity, its metadata,
\* its streams and their points.
MetricGrows(m, m2) ==
    /\ m2.mi = m.mi /\ m2.meta = m.meta
    /\ \A st \in DOMAIN m.streams :
        /\ st \in DOMAIN m2.streams
        /\ m2.streams[st].attr = m.streams[st].attr
        /\ Keeps(m.streams[st].points, m2.streams[st].points)

\* Merging the description and metadata of a metric received again.
LEMMA MergedLemma ==
    ASSUME NEW m, MetricShape(m), NEW e
    PROVE  MetricShape(Merged(m, e)) /\ MetricGrows(m, Merged(m, e))
  <1> DEFINE m2 == Merged(m, e)
  <1>1. DOMAIN m2 = DOMAIN m /\ m2.mi = m.mi /\ m2.meta = m.meta /\ m2.streams = m.streams
    BY DEF Merged, MetricShape
  <1> QED
    BY <1>1 DEF MetricShape, MetricGrows, Keeps

\* Adding a stream, unless there is one with that id.
LEMMA StreamLemma ==
    ASSUME NEW m, MetricShape(m), NEW k, NEW a
    PROVE  LET m2 == [m EXCEPT !.streams = Register(@, k, [attr |-> a, points |-> <<>>])]
           IN  MetricShape(m2) /\ MetricGrows(m, m2)
  <1> DEFINE v == [attr |-> a, points |-> <<>>]
             m2 == [m EXCEPT !.streams = Register(@, k, v)]
  <1>1. DOMAIN m2 = DOMAIN m /\ m2.mi = m.mi /\ m2.meta = m.meta
    BY DEF MetricShape
  <1>2. m2.streams = Register(m.streams, k, v)
    BY DEF MetricShape
  <1>3. /\ DOMAIN m2.streams = DOMAIN m.streams \cup {k}
        /\ \A st \in DOMAIN m.streams : m2.streams[st] = m.streams[st]
        /\ k \notin DOMAIN m.streams => m2.streams[k] = v
    <2> HIDE DEF m2, v
    <2> QED
      BY <1>2 DEF Register
  <1>4. DOMAIN v = {"attr", "points"} /\ IsList(v.points)
    BY DEF IsList
  <1> QED
    BY <1>1, <1>3, <1>4 DEF MetricShape, MetricGrows, Keeps

\* Appending a point to a stream.
LEMMA PointLemma ==
    ASSUME NEW m, MetricShape(m), NEW k, NEW p
    PROVE  LET m2 == [m EXCEPT !.streams[k].points = Append(@, p)]
           IN  MetricShape(m2) /\ MetricGrows(m, m2)
  <1> DEFINE m2 == [m EXCEPT !.streams[k].points = Append(@, p)]
  <1>1. DOMAIN m2 = DOMAIN m /\ m2.mi = m.mi /\ m2.meta = m.meta
    BY DEF MetricShape
  <1>2. /\ DOMAIN m2.streams = DOMAIN m.streams
        /\ \A st \in DOMAIN m.streams : st # k => m2.streams[st] = m.streams[st]
    BY DEF MetricShape
  <1>3. CASE k \notin DOMAIN m.streams
    BY <1>1, <1>2, <1>3 DEF MetricShape, MetricGrows, Keeps
  <1>4. CASE k \in DOMAIN m.streams
    <2> DEFINE old == m.streams[k]
               new == m2.streams[k]
    <2>1. DOMAIN old = {"attr", "points"} /\ IsList(old.points)
      BY <1>4 DEF MetricShape
    <2>2. new = [old EXCEPT !.points = Append(@, p)]
      BY <1>4 DEF MetricShape
    <2>3. DOMAIN new = {"attr", "points"} /\ new.attr = old.attr
      BY <2>1, <2>2
    <2>4. new.points = Append(old.points, p)
      BY <2>1, <2>2
    <2>5. IsList(new.points) /\ Keeps(old.points, new.points)
      BY <2>1, <2>4, AppendLemma DEF Keeps
    <2> QED
      BY <1>1, <1>2, <2>3, <2>5 DEF MetricShape, MetricGrows, Keeps
  <1> QED
    BY <1>3, <1>4

\* No metric object is ever removed, or loses what it has.
HeapGrows ==
    /\ IsList(heap')
    /\ Len(heap) \in Nat /\ Len(heap') \in Nat /\ Len(heap) <= Len(heap')
    /\ \A r \in 1 .. Len(heap') : MetricShape(heap'[r])
    /\ \A r \in 1 .. Len(heap) : MetricGrows(heap[r], heap'[r])

\* The list of metrics when one of them grows.
LEMMA HeapUpdate ==
    ASSUME TypeOK, Lists, NEW r, NEW m,
           heap' = [heap EXCEPT ![r] = m],
           r \in 1 .. Len(heap) => MetricShape(m) /\ MetricGrows(heap[r], m)
    PROVE  HeapGrows
  <1>1. /\ Len(heap) \in Nat /\ Len(heap') = Len(heap) /\ IsList(heap')
        /\ \A i \in 1 .. Len(heap) : heap'[i] = IF i = r THEN m ELSE heap[i]
    BY UpdateLemma DEF Lists
  <1>2. \A i \in 1 .. Len(heap) : MetricShape(heap[i])
    BY DEF TypeOK, Lists, MetricShape
  <1>3. \A i \in 1 .. Len(heap) : MetricGrows(heap[i], heap[i])
    BY DEF MetricGrows, Keeps
  <1> QED
    BY <1>1, <1>2, <1>3 DEF HeapGrows

\* Every step of a call leaves the metric objects at least what they were.
LEMMA HeapStep ==
    ASSUME TypeOK, Lists, Next
    PROVE  HeapGrows
  <1>1. \A i \in 1 .. Len(heap) : MetricShape(heap[i])
    BY DEF TypeOK, Lists, MetricShape
  <1>2. Len(heap) \in Nat /\ DOMAIN heap = 1 .. Len(heap)
    BY DEF Lists, IsList
  <1>3. CASE heap' = heap
    BY <1>1, <1>2, <1>3 DEF HeapGrows, MetricGrows, Keeps, Lists
  <1>4. ASSUME NEW c \in Call, receiveMetric(c)
        PROVE  HeapGrows
    <2> DEFINE e == Entry(c)
               mi == MetricIdentity(ids[c].res, ids[c].scope, e.name)
               r == metrics[hashValue(mi)]
    <2>1. CASE hashValue(mi) \in DOMAIN metrics
      <3>1. heap' = [heap EXCEPT ![r] = Merged(heap[r], e)] /\ r \in 1 .. Len(heap)
        BY <1>4, <2>1 DEF receiveMetric, TypeOK
      <3>2. MetricShape(Merged(heap[r], e)) /\ MetricGrows(heap[r], Merged(heap[r], e))
        BY <1>1, <3>1, MergedLemma
      <3> QED
        BY <3>1, <3>2, HeapUpdate
    <2>2. CASE hashValue(mi) \notin DOMAIN metrics
      <3>1. heap' = Append(heap, NewMetric(mi, e))
        BY <1>4, <2>2 DEF receiveMetric
      <3>2. MetricShape(NewMetric(mi, e))
        BY DEF MetricShape, NewMetric
      <3>3. /\ Len(heap') = Len(heap) + 1 /\ IsList(heap')
            /\ \A i \in 1 .. Len(heap) : heap'[i] = heap[i]
            /\ heap'[Len(heap) + 1] = NewMetric(mi, e)
        BY <3>1, AppendLemma DEF Lists
      <3>4. \A i \in 1 .. Len(heap) : MetricGrows(heap[i], heap'[i])
        BY <3>3 DEF MetricGrows, Keeps
      <3> QED
        BY <1>1, <1>2, <3>2, <3>3, <3>4 DEF HeapGrows
    <2> QED
      BY <2>1, <2>2
  <1>5. ASSUME NEW c \in Call, receivePoint(c)
        PROVE  HeapGrows
    <2> DEFINE r == cur[c]
               attr == Entry(c).attr
               m == [heap[r] EXCEPT !.streams =
                        Register(@, hashValue(attr), [attr |-> attr, points |-> <<>>])]
    <2>1. heap' = [heap EXCEPT ![r] = m]
      BY <1>5 DEF receivePoint
    <2>2. r \in 1 .. Len(heap) => MetricShape(m) /\ MetricGrows(heap[r], m)
      BY <1>1, StreamLemma
    <2> QED
      BY <2>1, <2>2, HeapUpdate
  <1>6. ASSUME NEW c \in Call, appendPoint(c)
        PROVE  HeapGrows
    <2> DEFINE r == cur[c]
               e == Entry(c)
               p == [val |-> e.val, req |-> ids[c].req]
               m == [heap[r] EXCEPT !.streams[hashValue(e.attr)].points = Append(@, p)]
    <2>1. heap' = [heap EXCEPT ![r] = m]
      BY <1>6 DEF appendPoint
    <2>2. r \in 1 .. Len(heap) => MetricShape(m) /\ MetricGrows(heap[r], m)
      BY <1>1, PointLemma
    <2> QED
      BY <2>1, <2>2, HeapUpdate
  <1>7. ASSUME NEW c \in Call, Step(c)
        PROVE  heap' = heap \/ receiveMetric(c) \/ receivePoint(c) \/ appendPoint(c)
    BY <1>7 DEF Step, receiveRequestMeta, receiveResource, receiveScope, receiveSpan,
                receiveLog, beginDump, endDump, convertPanic, printPanic, Unwind, respond, MoveTo, store
  <1> QED
    BY <1>3, <1>4, <1>5, <1>6, <1>7 DEF Next, race, reset, noteReset, resetContext, store

(***************************************************************************)
(* Type correctness                                                        *)
(***************************************************************************)

\* Where the goroutines are: the part of TypeOK that walking a batch changes.
InBatch ==
    /\ pc \in [Call -> {"idle", "run", "append", "panic", "dump", "dumping",
                      "done", "failed"}]
    /\ n \in [Call -> Nat \ {0}]
    /\ \A c \in Call :
        /\ n[c] <= Len(sent[c].entries) + 1
        /\ pc[c] = "append" => n[c] <= Len(sent[c].entries) /\ Entry(c).op = "point"

\* The rest of TypeOK and Lists but for the metric objects.
Locations ==
    /\ DOMAIN ids = Call /\ \A c \in Call : DOMAIN ids[c] = {"req", "res", "scope"}
    /\ cur \in [Call -> 0 .. Len(heap)]
    /\ \A id \in DOMAIN metrics : metrics[id] \in 1 .. Len(heap)
    /\ IsList(logs)

\* Where a call goes at the end of a loop body, printing or not.
Advanced(c) ==
    /\ n' = [n EXCEPT ![c] = @ + 1]
    /\ \E p \in {"run", "panic", "dump"} : pc' = [pc EXCEPT ![c] = p]

\* The loop bodies end so.
LEMMA BodyAdvances ==
    ASSUME NEW c \in Call,
           \/ receiveResource(c) \/ receiveScope(c) \/ receiveSpan(c)
           \/ receiveLog(c) \/ receiveMetric(c) \/ appendPoint(c)
    PROVE  /\ Advanced(c) /\ sent' = sent /\ up' = up
           /\ InLoop(c) \/ pc[c] = "append"
  <1>1. (\E v : Advance(c, v)) \/ AdvanceMetric(c)
    BY DEF receiveResource, receiveScope, receiveSpan, receiveLog, receiveMetric, appendPoint
  <1>2. Advanced(c)
    BY <1>1 DEF Advance, AdvanceMetric, AfterPrint, Advanced
  <1> QED
    BY <1>2 DEF receiveResource, receiveScope, receiveSpan, receiveLog, receiveMetric,
                appendPoint, At

\* A panic leaves everything but the position of its call, or the process.
LEMMA PanicLemma ==
    ASSUME NEW c \in Call, convertPanic(c) \/ printPanic(c)
    PROVE  /\ UNCHANGED <<store, sent, n, ids, cur, resets, cut>>
           /\ pc[c] \in {"run", "append", "panic", "dumping"}
           /\ \/ up' = up /\ pc' = [pc EXCEPT ![c] = "failed"]
              \/ /\ up' = FALSE /\ pc' = pc /\ sent[c].via = "grpc"
  BY DEF convertPanic, printPanic, Unwind, ConvertPanics, PrintPanics, InLoop

\* Going to the next entry of the batch keeps the call inside it.
LEMMA AdvanceLemma ==
    ASSUME TypeOK, NEW c \in Call, Advanced(c), InLoop(c) \/ pc[c] = "append",
           UNCHANGED sent
    PROVE  InBatch'
  <1>1. Len(sent[c].entries) \in Nat /\ n[c] <= Len(sent[c].entries)
    BY BatchAssumption DEF TypeOK, InLoop
  <1>2. /\ n' = [n EXCEPT ![c] = n[c] + 1]
        /\ \E p \in {"run", "panic", "dump"} : pc' = [pc EXCEPT ![c] = p]
    BY DEF Advanced
  <1>3. \A d \in Call : Len(sent[d].entries) \in Nat
    BY BatchAssumption DEF TypeOK
  <1> QED
    BY <1>1, <1>2, <1>3 DEF TypeOK, InBatch, Entry

\* So does everything else.
LEMMA PositionsStep ==
    ASSUME TypeOK, Next
    PROVE  InBatch'
  <1>1. \A c \in Call : Len(sent[c].entries) \in Nat
    BY BatchAssumption DEF TypeOK
  <1>2. CASE UNCHANGED <<pc, n, sent>>
    BY <1>2 DEF TypeOK, InBatch, Entry
  <1>3. ASSUME NEW c \in Call, UNCHANGED <<n, sent>>,
               NEW p \in {"run", "panic", "dumping", "done", "failed"},
               pc' = [pc EXCEPT ![c] = p]
        PROVE  InBatch'
    BY <1>3 DEF TypeOK, InBatch, Entry
  <1>4. ASSUME NEW c \in Call, Step(c)
        PROVE  InBatch'
    <2>1. CASE receiveRequestMeta(c)
      BY <1>3, <2>1 DEF receiveRequestMeta, AfterPrint
    <2>2. CASE \/ receiveResource(c) \/ receiveScope(c) \/ receiveSpan(c)
               \/ receiveLog(c) \/ receiveMetric(c) \/ appendPoint(c)
      BY <2>2, AdvanceLemma, BodyAdvances
    <2>3. CASE receivePoint(c)
      BY <2>3 DEF receivePoint, At, InLoop, TypeOK, InBatch, Entry
    <2>4. CASE beginDump(c) \/ endDump(c) \/ respond(c)
      BY <1>3, <2>4 DEF beginDump, endDump, respond, MoveTo
    <2>5. CASE convertPanic(c) \/ printPanic(c)
      BY <1>2, <1>3, <2>5, PanicLemma
    <2> QED
      BY <1>4, <2>1, <2>2, <2>3, <2>4, <2>5 DEF Step
  <1> QED
    BY <1>2, <1>4 DEF Next, race, reset, noteReset, resetContext, call

\* The indices a step leaves in metrics and in the calls' variables.
LEMMA LocationsStep ==
    ASSUME TypeOK, Lists, Next
    PROVE  Locations'
  <1>1. /\ cur \in [Call -> 0 .. Len(heap')]
        /\ \A id \in DOMAIN metrics : metrics[id] \in 1 .. Len(heap')
    <2>1. Len(heap) \in Nat /\ Len(heap') \in Nat /\ Len(heap) <= Len(heap')
      BY HeapStep DEF HeapGrows
    <2>2. 0 .. Len(heap) \subseteq 0 .. Len(heap') /\ 1 .. Len(heap) \subseteq 1 .. Len(heap')
      BY <2>1
    <2> QED
      BY <2>2 DEF TypeOK
  <1>2. CASE UNCHANGED <<ids, cur, metrics, logs>>
    BY <1>1, <1>2 DEF TypeOK, Lists, Locations
  <1>3. CASE reset
    BY <1>1, <1>3 DEF reset, noteReset, resetContext, call, TypeOK, Locations, IsList
  <1>4. ASSUME NEW c \in Call,
               receiveRequestMeta(c) \/ receiveResource(c) \/ receiveScope(c)
        PROVE  Locations'
    <2>1. \E v : \/ ids' = [ids EXCEPT ![c] = [@ EXCEPT !.req = v]]
                \/ ids' = [ids EXCEPT ![c] = [@ EXCEPT !.res = v]]
                \/ ids' = [ids EXCEPT ![c] = [@ EXCEPT !.scope = v]]
      BY <1>4 DEF receiveRequestMeta, receiveResource, receiveScope
    <2>2. DOMAIN ids' = Call /\ \A d \in Call : DOMAIN ids'[d] = {"req", "res", "scope"}
      BY <2>1 DEF TypeOK
    <2> QED
      BY <1>1, <1>4, <2>2 DEF receiveRequestMeta, receiveResource, receiveScope, Lists, Locations
  <1>5. ASSUME NEW c \in Call, receiveLog(c)
        PROVE  Locations'
    <2>1. IsList(logs')
      BY <1>5, AppendLemma DEF receiveLog, Lists
    <2> QED
      BY <1>1, <1>5, <2>1 DEF receiveLog, TypeOK, Locations
  <1>6. ASSUME NEW c \in Call, receiveMetric(c)
        PROVE  Locations'
    <2> DEFINE id == hashValue(MetricIdentity(ids[c].res, ids[c].scope, Entry(c).name))
    <2>1. CASE id \in DOMAIN metrics
      <3>1. /\ cur' = [cur EXCEPT ![c] = metrics[id]]
            /\ UNCHANGED <<metrics, ids, logs>>
        BY <1>6, <2>1 DEF receiveMetric
      <3>2. metrics[id] \in 0 .. Len(heap')
        BY <1>1, <2>1
      <3> QED
        BY <1>1, <3>1, <3>2 DEF TypeOK, Lists, Locations
    <2>2. CASE id \notin DOMAIN metrics
      <3>1. heap' = Append(heap, NewMetric(MetricIdentity(ids[c].res, ids[c].scope, Entry(c).name), Entry(c)))
        BY <1>6, <2>2 DEF receiveMetric
      <3>2. Len(heap') = Len(heap) + 1 /\ Len(heap) \in Nat
        BY <3>1, AppendLemma DEF Lists
      <3>3. cur' = [cur EXCEPT ![c] = Len(heap) + 1] /\ metrics' = Register(metrics, id, Len(heap) + 1)
        BY <1>6, <2>2 DEF receiveMetric
      <3> QED
        BY <1>1, <1>6, <3>2, <3>3 DEF receiveMetric, Register, TypeOK, Lists, Locations
    <2> QED
      BY <2>1, <2>2
  <1>7. ASSUME NEW c \in Call, Step(c)
        PROVE  \/ UNCHANGED <<ids, cur, metrics, logs>>
               \/ receiveRequestMeta(c) \/ receiveResource(c) \/ receiveScope(c)
               \/ receiveLog(c) \/ receiveMetric(c)
    BY <1>7 DEF Step, receiveSpan, receivePoint, appendPoint,
                beginDump, endDump, convertPanic, printPanic, Unwind, respond, MoveTo, store
  <1> QED
    BY <1>2, <1>3, <1>4, <1>5, <1>6, <1>7 DEF Next, race, store, call

\* The initial state has the shape of TypeOK, and its slices are empty lists.
LEMMA TypeInit ==
    ASSUME Init
    PROVE  TypeOK /\ Lists
  <1>1. up \in BOOLEAN /\ sent \in [Call -> Batch]
    BY DEF Init
  <1>2. \A c \in Call : Len(sent[c].entries) \in Nat
    BY <1>1, BatchAssumption
  <1>3. DOMAIN metrics = {} /\ Len(heap) = 0 /\ IsList(heap) /\ IsList(logs)
    BY EmptyLemma DEF Init
  <1>4. InBatch
    <2>1. pc = [c \in Call |-> "idle"] /\ n = [c \in Call |-> 1]
      BY DEF Init
    <2> QED
      BY <1>2, <2>1 DEF InBatch
  <1>5. DOMAIN ids = Call /\ \A c \in Call : DOMAIN ids[c] = {"req", "res", "scope"}
    BY DEF Init
  <1>6. cur \in [Call -> 0 .. Len(heap)]
    <2>1. cur = [c \in Call |-> 0]
      BY DEF Init
    <2> QED
      BY <1>3, <2>1
  <1>7. cut \in [Call -> {"none", "during", "after"}]
    BY DEF Init
  <1>8. resets \in 0 .. MaxReset
    <2>1. resets = 0
      BY DEF Init
    <2> QED
      BY <2>1, BatchAssumption
  <1> QED
    BY <1>1, <1>3, <1>4, <1>5, <1>6, <1>7, <1>8 DEF TypeOK, Lists, InBatch

\* Every step preserves that.
LEMMA TypeStep ==
    ASSUME TypeOK, Lists, [Next]_vars
    PROVE  TypeOK' /\ Lists'
  <1>1. CASE UNCHANGED vars
    BY <1>1 DEF vars, store, call, TypeOK, Lists, Entry
  <1>2. CASE Next
    <2>1. HeapGrows /\ InBatch' /\ Locations'
      BY <1>2, HeapStep, PositionsStep, LocationsStep
    <2>2. up' \in BOOLEAN /\ sent' = sent
      BY <1>2 DEF TypeOK, Next, Step, receiveRequestMeta, receiveResource, receiveScope,
                  receiveSpan, receiveLog, receiveMetric, receivePoint, appendPoint,
                  beginDump, endDump, convertPanic, printPanic, Unwind, respond, MoveTo, race, reset, noteReset, resetContext, call
    <2>3. resets' \in 0 .. MaxReset /\ cut' \in [Call -> {"none", "during", "after"}]
      <3>1. CASE reset
        BY <3>1, BatchAssumption DEF reset, noteReset, resetContext, TypeOK
      <3>2. CASE UNCHANGED <<resets, cut>>
        BY <3>2 DEF TypeOK
      <3> QED
        BY <1>2, <3>1, <3>2
        DEF Next, Step, receiveRequestMeta, receiveResource, receiveScope,
            receiveSpan, receiveLog, receiveMetric, receivePoint, appendPoint,
            beginDump, endDump, convertPanic, printPanic, Unwind, respond, MoveTo, race, call
    <2> QED
      BY <2>1, <2>2, <2>3 DEF TypeOK, Lists, HeapGrows, MetricShape, InBatch, Locations
  <1> QED
    BY <1>1, <1>2

\* In every state the program can reach, the store and the calls have the
\* shape TypeOK gives: no call is past the end of its batch, and every
\* *metric, in the map or in a call's variable, is one that was made.
THEOREM TypeCorrect == Spec => []TypeOK
  <1>1. Init => TypeOK /\ Lists
    BY TypeInit
  <1>2. (TypeOK /\ Lists) /\ [Next]_vars => (TypeOK /\ Lists)'
    BY TypeStep
  <1> QED
    BY <1>1, <1>2, PTL DEF Spec

(***************************************************************************)
(* What the UI was given once                                              *)
(***************************************************************************)

\* Between resets the registries, the logs and the spans of every trace only
\* grow.
LEMMA RegistriesGrow ==
    ASSUME TypeOK, Lists, Next, resets' = resets
    PROVE  /\ Keeps(requests, requests') /\ Keeps(resources, resources')
           /\ Keeps(scopes, scopes') /\ Keeps(metrics, metrics') /\ Keeps(logs, logs')
           /\ \A t \in DOMAIN traces : t \in DOMAIN traces' /\ Keeps(traces[t], traces'[t])
  <1> DEFINE Grow ==
              /\ Keeps(requests, requests') /\ Keeps(resources, resources')
              /\ Keeps(scopes, scopes') /\ Keeps(metrics, metrics') /\ Keeps(logs, logs')
              /\ \A t \in DOMAIN traces : t \in DOMAIN traces' /\ Keeps(traces[t], traces'[t])
  <1>1. CASE UNCHANGED <<requests, resources, scopes, traces, logs, metrics>>
    BY <1>1 DEF Keeps
  <1>2. ~ reset
    BY DEF reset, noteReset, TypeOK
  <1>3. ASSUME NEW c \in Call, Step(c)
        PROVE  Grow
    <2>1. CASE receiveRequestMeta(c)
      BY <2>1 DEF receiveRequestMeta, Register, Keeps
    <2>2. CASE receiveResource(c)
      BY <2>2 DEF receiveResource, Register, Keeps
    <2>3. CASE receiveScope(c)
      BY <2>3 DEF receiveScope, Register, Keeps
    <2>4. CASE receiveSpan(c)
      BY <2>4 DEF receiveSpan, Register, SpansOf, Keeps
    <2>5. CASE receiveLog(c)
      <3>1. Keeps(logs, logs')
        BY <2>5, AppendLemma DEF receiveLog, Lists, Keeps
      <3> QED
        BY <2>5, <3>1 DEF receiveLog, Keeps
    <2>6. CASE receiveMetric(c)
      <3>1. Keeps(metrics, metrics')
        BY <2>6 DEF receiveMetric, Register, Keeps
      <3> QED
        BY <2>6, <3>1 DEF receiveMetric, Keeps
    <2>7. CASE \/ receivePoint(c) \/ appendPoint(c) \/ beginDump(c) \/ endDump(c)
               \/ convertPanic(c) \/ printPanic(c) \/ respond(c)
      BY <1>1, <2>7 DEF receivePoint, appendPoint, beginDump, endDump, convertPanic, printPanic, Unwind,
                        respond, MoveTo, store
    <2> QED
      BY <1>3, <2>1, <2>2, <2>3, <2>4, <2>5, <2>6, <2>7 DEF Step
  <1> QED
    BY <1>1, <1>2, <1>3 DEF Next, race, store

\* What an id, an index or a stream gave the UI once it goes on giving until
\* the next reset: the side panel and the graphs, which ask again for what
\* they show, never find it replaced or gone.
THEOREM Stable == Spec => StableUntilReset
  <1> DEFINE Stays ==
        /\ Keeps(requests, requests') /\ Keeps(resources, resources')
        /\ Keeps(scopes, scopes') /\ Keeps(metrics, metrics') /\ Keeps(logs, logs')
        /\ \A t \in DOMAIN traces : t \in DOMAIN traces' /\ Keeps(traces[t], traces'[t])
        /\ \A id \in DOMAIN metrics :
            /\ Metric(id).mi = Metric(id)'.mi /\ Metric(id).meta = Metric(id)'.meta
            /\ \A st \in DOMAIN Metric(id).streams :
                /\ st \in DOMAIN Metric(id)'.streams
                /\ Keeps(Points(id, st), Points(id, st)')
  <1>1. ASSUME TypeOK, Lists, Next, resets' = resets
        PROVE  Stays
    <2>1. HeapGrows
      BY <1>1, HeapStep
    <2>2. /\ Keeps(requests, requests') /\ Keeps(resources, resources')
          /\ Keeps(scopes, scopes') /\ Keeps(metrics, metrics') /\ Keeps(logs, logs')
          /\ \A t \in DOMAIN traces : t \in DOMAIN traces' /\ Keeps(traces[t], traces'[t])
      BY <1>1, RegistriesGrow
    <2>3. ASSUME NEW id \in DOMAIN metrics
          PROVE  MetricGrows(Metric(id), Metric(id)')
      <3>1. metrics'[id] = metrics[id] /\ metrics[id] \in 1 .. Len(heap)
        BY <1>1, <2>2 DEF Keeps, TypeOK
      <3> QED
        BY <2>1, <3>1 DEF HeapGrows, Metric
    <2> QED
      BY <2>2, <2>3 DEF MetricGrows, Points
  <1>2. Init => TypeOK /\ Lists
    BY TypeInit
  <1>3. (TypeOK /\ Lists) /\ [Next]_vars => (TypeOK /\ Lists)'
    BY TypeStep
  <1>4. (TypeOK /\ Lists) /\ [Next]_vars => [resets' = resets => Stays]_vars
    BY <1>1
  <1> QED
    BY <1>2, <1>3, <1>4, PTL DEF Spec, StableUntilReset

(***************************************************************************)
(* What a goroutine keeps between two critical sections                    *)
(***************************************************************************)

\* The order the nested loops give the entries of a batch.
LEMMA NestingLemma ==
    ASSUME TypeOK, NEW c \in Call, n[c] <= Len(sent[c].entries)
    PROVE  /\ Len(sent[c].entries) \in Nat /\ n[c] \in Nat \ {0}
           /\ Entry(c).op # "res" => n[c] > 1
           /\ Entry(c).op \notin {"res", "scope"} => LastOp(c) # "res"
           /\ Entry(c).op = "point" => LastOp(c) \in {"metric", "point"}
  <1>1. /\ Len(sent[c].entries) \in Nat /\ n[c] \in Nat \ {0}
        /\ WellNested(sent[c].entries)
    BY BatchAssumption DEF TypeOK
  <1>2. Entry(c).op # "res" => n[c] > 1
    BY <1>1 DEF WellNested, Entry
  <1>3. Entry(c).op \in DOMAIN Follows
    BY <1>1 DEF WellNested, Entry
  <1>4. n[c] > 1 => LastOp(c) \in Follows[Entry(c).op]
    BY <1>1 DEF WellNested, Entry, LastOp
  <1>5. Entry(c).op \in {"res", "scope", "span", "log", "metric", "point"}
    BY <1>3 DEF Follows
  <1>6. /\ Follows["span"] = {"scope", "span"} /\ Follows["log"] = {"scope", "log"}
        /\ Follows["metric"] = {"scope", "metric", "point"} /\ Follows["point"] = {"metric", "point"}
    BY DEF Follows
  <1> QED
    BY <1>1, <1>2, <1>4, <1>5, <1>6

\* Locals of a call that does not move, when another one does.
LEMMA LocalsOfOthers ==
    ASSUME TypeOK, Lists, NEW c \in Call, Locals(c), Next, resets' = resets,
           pc'[c] = pc[c], n'[c] = n[c], ids'[c] = ids[c], cur'[c] = cur[c],
           sent' = sent, cut' = cut
    PROVE  Locals(c)'
  <1>1. /\ DOMAIN requests \subseteq DOMAIN requests' /\ DOMAIN resources \subseteq DOMAIN resources'
        /\ DOMAIN scopes \subseteq DOMAIN scopes'
    BY RegistriesGrow DEF Keeps
  <1>2. /\ HeapGrows
        /\ \A r \in 1 .. Len(heap) : r \in 1 .. Len(heap')
    BY HeapStep DEF HeapGrows
  <1>3. n[c] > 1 => Holds(c, "res", ids[c].res, resources)'
    BY <1>1 DEF Locals, Holds
  <1>4. n[c] > 1 /\ LastOp(c) # "res" => Holds(c, "scope", ids[c].scope, scopes)'
    BY <1>1 DEF Locals, Holds
  <1>5. LastOp(c)' = LastOp(c) /\ Entry(c)' = Entry(c)
    BY DEF LastOp, Entry
  <1>6. pc[c] = "append" => hashValue(Entry(c).attr) \in DOMAIN heap'[cur[c]].streams
    <2>1. SUFFICES ASSUME pc[c] = "append" PROVE hashValue(Entry(c).attr) \in DOMAIN heap'[cur[c]].streams
      OBVIOUS
    <2>2. n[c] <= Len(sent[c].entries) /\ Entry(c).op = "point"
      BY <2>1 DEF TypeOK
    <2>3. n[c] > 1 /\ LastOp(c) \in {"metric", "point"}
      BY <2>2, NestingLemma
    <2> QED
      BY <1>2, <2>1, <2>3 DEF Locals, HeapGrows, MetricGrows
  <1> QED
    BY <1>1, <1>2, <1>3, <1>4, <1>5, <1>6 DEF Locals

\* Locals of the call that goes to its next entry: its ids are those of the
\* loops it has entered, and registered if no reset came in between.
LEMMA LocalsOfAdvance ==
    ASSUME TypeOK, Lists, NEW c \in Call, Locals(c), Next, resets' = resets,
           pc[c] \in {"run", "append"}, n[c] <= Len(sent[c].entries), Advanced(c),
           sent' = sent, cut' = cut, ids'[c].req = ids[c].req,
           \/ /\ Entry(c).op = "res"
              /\ ids'[c].res = hashValue(Entry(c).val) /\ ids'[c].res \in DOMAIN resources'
           \/ /\ Entry(c).op # "res" /\ ids'[c].res = ids[c].res,
           \/ Entry(c).op = "res"
           \/ /\ Entry(c).op = "scope"
              /\ ids'[c].scope = hashValue(Entry(c).val) /\ ids'[c].scope \in DOMAIN scopes'
           \/ /\ Entry(c).op \notin {"res", "scope"} /\ ids'[c].scope = ids[c].scope,
           Entry(c).op \in {"metric", "point"} => cur'[c] \in 1 .. Len(heap')
    PROVE  Locals(c)'
  <1>1. /\ DOMAIN requests \subseteq DOMAIN requests' /\ DOMAIN resources \subseteq DOMAIN resources'
        /\ DOMAIN scopes \subseteq DOMAIN scopes'
    BY RegistriesGrow DEF Keeps
  <1>2. n'[c] = n[c] + 1 /\ pc'[c] \in {"run", "panic", "dump"} /\ n[c] \in Nat \ {0}
    BY DEF Advanced, TypeOK
  <1>3. LastOp(c)' = Entry(c).op
    BY <1>2 DEF LastOp, Entry
  <1>4. /\ Entry(c).op # "res" => n[c] > 1
        /\ Entry(c).op \notin {"res", "scope"} => LastOp(c) # "res"
    BY NestingLemma
  <1>5. Holds(c, "res", ids[c].res, resources)'
    <2>1. CASE Entry(c).op = "res"
      BY <1>2, <2>1 DEF Holds, Entry
    <2>2. CASE Entry(c).op # "res"
      BY <1>1, <1>2, <1>4, <2>2 DEF Holds, Locals
    <2> QED
      BY <2>1, <2>2
  <1>6. Entry(c).op # "res" => Holds(c, "scope", ids[c].scope, scopes)'
    <2>1. CASE Entry(c).op = "scope"
      <3>1. ids'[c].scope = hashValue(Entry(c).val) /\ ids'[c].scope \in DOMAIN scopes'
        BY <2>1
      <3>2. n[c] \in 1 .. n'[c] - 1
        BY <1>2
      <3> QED
        BY <2>1, <3>1, <3>2 DEF Holds, Entry
    <2>2. CASE Entry(c).op \notin {"res", "scope"}
      BY <1>1, <1>2, <1>4, <2>2 DEF Holds, Locals
    <2> QED
      BY <2>1, <2>2
  <1> QED
    BY <1>1, <1>2, <1>3, <1>5, <1>6 DEF Locals

\* The other steps of a call move it inside a loop body, or end it.
LEMMA LocalsOfMove ==
    ASSUME TypeOK, Lists, NEW c \in Call, Locals(c), Next, resets' = resets,
           pc[c] \notin {"idle", "done", "failed"}, n'[c] = n[c], ids'[c] = ids[c],
           cur'[c] = cur[c], sent' = sent, cut' = cut, pc'[c] # "idle",
           pc'[c] = "append" => hashValue(Entry(c).attr) \in DOMAIN heap'[cur[c]].streams
    PROVE  Locals(c)'
  <1>1. /\ DOMAIN requests \subseteq DOMAIN requests' /\ DOMAIN resources \subseteq DOMAIN resources'
        /\ DOMAIN scopes \subseteq DOMAIN scopes'
    BY RegistriesGrow DEF Keeps
  <1>2. \A r \in 1 .. Len(heap) : r \in 1 .. Len(heap')
    BY HeapStep DEF HeapGrows
  <1>3. n[c] > 1 => Holds(c, "res", ids[c].res, resources)'
    BY <1>1 DEF Locals, Holds
  <1>4. n[c] > 1 /\ LastOp(c) # "res" => Holds(c, "scope", ids[c].scope, scopes)'
    BY <1>1 DEF Locals, Holds
  <1>5. LastOp(c)' = LastOp(c) /\ Entry(c)' = Entry(c)
    BY DEF LastOp, Entry
  <1> QED
    BY <1>1, <1>2, <1>3, <1>4, <1>5 DEF Locals

\* Only the call that steps changes its variables, and no call changes the
\* history.
LEMMA StepIsLocal ==
    ASSUME TypeOK, NEW c \in Call, Step(c)
    PROVE  /\ sent' = sent /\ cut' = cut /\ resets' = resets
           /\ \A d \in Call : d # c => /\ pc'[d] = pc[d] /\ n'[d] = n[d]
                                     /\ ids'[d] = ids[d] /\ cur'[d] = cur[d]
  <1>1. CASE receiveRequestMeta(c)
    BY <1>1 DEF receiveRequestMeta, TypeOK
  <1>2. CASE receiveResource(c) \/ receiveScope(c) \/ receiveSpan(c) \/ receiveLog(c)
    <2>1. Advanced(c)
      BY <1>2, BodyAdvances
    <2> QED
      BY <1>2, <2>1 DEF receiveResource, receiveScope, receiveSpan, receiveLog, Advanced, TypeOK
  <1>3. CASE receiveMetric(c) \/ appendPoint(c)
    <2>1. Advanced(c)
      BY <1>3, BodyAdvances
    <2> QED
      BY <1>3, <2>1 DEF receiveMetric, appendPoint, Advanced, TypeOK
  <1>4. CASE receivePoint(c)
    BY <1>4 DEF receivePoint, TypeOK
  <1>5. CASE beginDump(c) \/ endDump(c) \/ respond(c)
    BY <1>5 DEF beginDump, endDump, respond, MoveTo, TypeOK
  <1>6. CASE convertPanic(c) \/ printPanic(c)
    <2>1. /\ n' = n /\ ids' = ids /\ cur' = cur /\ sent' = sent /\ cut' = cut /\ resets' = resets
          /\ pc' = pc \/ pc' = [pc EXCEPT ![c] = "failed"]
      BY <1>6, PanicLemma
    <2> QED
      BY <2>1 DEF TypeOK
  <1> QED
    BY <1>1, <1>2, <1>3, <1>4, <1>5, <1>6 DEF Step

\* The variables of every call stay those of the loops it is in.
LEMMA LocalsStep ==
    ASSUME TypeOK, Lists, \A c \in Call : Locals(c), Next,
           NEW d \in Call
    PROVE  Locals(d)'
  <1>1. CASE reset
    <2>1. /\ pc' = pc /\ n' = n /\ ids' = ids /\ cur' = cur /\ sent' = sent /\ heap' = heap
          /\ pc[d] = "idle" => cut'[d] = cut[d]
          /\ pc[d] # "idle" => cut'[d] # "none"
          /\ pc[d] \notin {"idle", "done", "failed"} => cut'[d] = "during"
      BY <1>1 DEF reset, noteReset, resetContext, call
    <2>2. LastOp(d)' = LastOp(d) /\ Entry(d)' = Entry(d)
      BY <2>1 DEF LastOp, Entry
    <2>3. n[d] > 1 => pc[d] # "idle"
      BY DEF Locals
    <2>4. n[d] > 1 => Holds(d, "res", ids[d].res, resources)'
      BY <2>1, <2>3 DEF Locals, Holds
    <2>5. n[d] > 1 /\ LastOp(d) # "res" => Holds(d, "scope", ids[d].scope, scopes)'
      BY <2>1, <2>3 DEF Locals, Holds
    <2> QED
      BY <2>1, <2>2, <2>4, <2>5 DEF Locals
  <1>2. ASSUME NEW c, NEW e, race(c, e)
        PROVE  Locals(d)'
    BY <1>2, LocalsOfOthers DEF race, call
  <1>3. ASSUME NEW c \in Call, Step(c), c # d
        PROVE  Locals(d)'
    BY <1>3, StepIsLocal, LocalsOfOthers
  <1>4. ASSUME Step(d)
        PROVE  Locals(d)'
    <2>1. sent' = sent /\ cut' = cut /\ resets' = resets
      BY <1>4, StepIsLocal
    <2>2. CASE receiveRequestMeta(d)
      <3>1. /\ pc[d] = "idle" /\ pc'[d] \in {"run", "panic"} /\ n' = n /\ n[d] = 1
            /\ cut'[d] = "none"
        BY <2>1, <2>2 DEF receiveRequestMeta, AfterPrint, TypeOK, Locals
      <3>2. ids'[d].req = hashValue(sent[d].meta) /\ ids'[d].req \in DOMAIN requests'
        BY <2>2 DEF receiveRequestMeta, Register, TypeOK
      <3> QED
        BY <2>1, <3>1, <3>2 DEF Locals
    <2>3. CASE receiveResource(d)
      <3>1. /\ Entry(d).op = "res" /\ ids'[d].req = ids[d].req
            /\ ids'[d].res = hashValue(Entry(d).val) /\ ids'[d].res \in DOMAIN resources'
        BY <2>3 DEF receiveResource, At, Register, TypeOK
      <3>2. pc[d] = "run" /\ n[d] <= Len(sent[d].entries) /\ Advanced(d)
        BY <2>3, BodyAdvances DEF receiveResource, At, InLoop
      <3> QED
        BY <2>1, <3>1, <3>2, LocalsOfAdvance
    <2>4. CASE receiveScope(d)
      <3>1. /\ Entry(d).op = "scope" /\ ids'[d].req = ids[d].req /\ ids'[d].res = ids[d].res
            /\ ids'[d].scope = hashValue(Entry(d).val) /\ ids'[d].scope \in DOMAIN scopes'
        BY <2>4 DEF receiveScope, At, Register, TypeOK
      <3>2. pc[d] = "run" /\ n[d] <= Len(sent[d].entries) /\ Advanced(d)
        BY <2>4, BodyAdvances DEF receiveScope, At, InLoop
      <3> QED
        BY <2>1, <3>1, <3>2, LocalsOfAdvance
    <2>5. CASE receiveSpan(d) \/ receiveLog(d)
      <3>1. Entry(d).op \in {"span", "log"} /\ ids' = ids
        BY <2>5 DEF receiveSpan, receiveLog, At
      <3>2. pc[d] = "run" /\ n[d] <= Len(sent[d].entries) /\ Advanced(d)
        BY <2>5, BodyAdvances DEF receiveSpan, receiveLog, At, InLoop
      <3> QED
        BY <2>1, <3>1, <3>2, LocalsOfAdvance
    <2>6. CASE receiveMetric(d)
      <3>1. Entry(d).op = "metric" /\ ids' = ids
        BY <2>6 DEF receiveMetric, At
      <3>2. pc[d] = "run" /\ n[d] <= Len(sent[d].entries) /\ Advanced(d)
        BY <2>6, BodyAdvances DEF receiveMetric, At, InLoop
      <3>3. cur'[d] \in 1 .. Len(heap')
        <4>1. cur'[d] # 0
          BY <2>6 DEF receiveMetric, TypeOK, Lists, IsList
        <4> QED
          BY <4>1, LocationsStep, HeapStep DEF Locations, HeapGrows
      <3> QED
        BY <2>1, <3>1, <3>2, <3>3, LocalsOfAdvance
    <2>7. CASE receivePoint(d)
      <3>1. /\ pc[d] = "run" /\ n[d] <= Len(sent[d].entries) /\ Entry(d).op = "point"
            /\ pc'[d] = "append" /\ n' = n /\ ids' = ids /\ cur' = cur
        BY <2>7 DEF receivePoint, At, InLoop, TypeOK
      <3>2. cur[d] \in 1 .. Len(heap)
        BY <3>1, NestingLemma DEF Locals
      <3>3. hashValue(Entry(d).attr) \in DOMAIN heap'[cur[d]].streams
        BY <2>7, <3>2 DEF receivePoint, Register, TypeOK, Lists, IsList
      <3> QED
        BY <2>1, <3>1, <3>3, LocalsOfMove
    <2>8. CASE appendPoint(d)
      <3>1. /\ pc[d] = "append" /\ n[d] <= Len(sent[d].entries) /\ Entry(d).op = "point"
            /\ Advanced(d) /\ ids' = ids /\ cur' = cur
        BY <2>8, BodyAdvances DEF appendPoint, TypeOK
      <3>2. cur[d] \in 1 .. Len(heap)
        BY <3>1, NestingLemma DEF Locals
      <3>3. cur'[d] \in 1 .. Len(heap')
        BY <3>1, <3>2, HeapStep DEF HeapGrows
      <3> QED
        BY <2>1, <3>1, <3>3, LocalsOfAdvance
    <2>9. CASE beginDump(d) \/ endDump(d) \/ respond(d)
      <3>1. /\ pc[d] \notin {"idle", "done", "failed"} /\ pc'[d] \notin {"idle", "append"}
            /\ n' = n /\ ids' = ids /\ cur' = cur
        BY <2>9 DEF beginDump, endDump, respond, MoveTo, TypeOK
      <3> QED
        BY <2>1, <3>1, LocalsOfMove
    <2>10. CASE convertPanic(d) \/ printPanic(d)
      <3>1. /\ pc[d] \in {"run", "append", "panic", "dumping"} /\ n' = n /\ ids' = ids /\ cur' = cur
            /\ heap' = heap /\ pc'[d] \in {pc[d], "failed"}
        BY <2>10, PanicLemma DEF TypeOK, store
      <3> QED
        BY <2>1, <3>1, LocalsOfMove DEF Locals
    <2> QED
      BY <1>4, <2>2, <2>3, <2>4, <2>5, <2>6, <2>7, <2>8, <2>9, <2>10 DEF Step
  <1> QED
    BY <1>1, <1>2, <1>3, <1>4 DEF Next

(***************************************************************************)
(* What the UI can list                                                    *)
(***************************************************************************)

\* The ids a goroutine puts into what it stores resolve, or a reset explains
\* why they do not.
LEMMA ContextOK ==
    ASSUME TypeOK, NEW c \in Call, Locals(c), pc[c] \in {"run", "append"},
           n[c] <= Len(sent[c].entries), Entry(c).op \notin {"res", "scope"}
    PROVE  ids[c].req \in ReqIds /\ ids[c].res \in ResIds /\ ids[c].scope \in ScopeIds
  <1>1. /\ n[c] > 1 /\ LastOp(c) # "res"
        /\ Len(sent[c].entries) \in Nat /\ n[c] \in Nat \ {0}
    BY NestingLemma
  <1>2. cut[c] \in {"none", "during"}
    BY DEF TypeOK, Locals
  <1>3. ids[c].req \in ReqIds
    BY <1>2 DEF Locals, ReqIds, Overtaken
  <1>4. \A i \in 1 .. n[c] - 1 : i \in 1 .. Len(sent[c].entries)
    BY <1>1
  <1>5. ids[c].res \in ResIds
    BY <1>1, <1>2, <1>4 DEF Locals, Holds, ResIds, LostIds, Overtaken
  <1>6. ids[c].scope \in ScopeIds
    BY <1>1, <1>2, <1>4 DEF Locals, Holds, ScopeIds, LostIds, Overtaken
  <1> QED
    BY <1>3, <1>5, <1>6

\* What FiledUnderOwnHash and DanglingNeedsReset say of a metric.
MetricFiled(m, id) ==
    /\ hashValue(m.mi) = id
    /\ \A st \in DOMAIN m.streams : hashValue(m.streams[st].attr) = st

MetricOK(m) ==
    /\ m.mi[1] \in ResIds /\ m.mi[2] \in ScopeIds
    /\ \A st \in DOMAIN m.streams : \A k \in DOMAIN m.streams[st].points :
        m.streams[st].points[k].req \in ReqIds

\* The metric of a known id, after a step that assigns to the metric objects.
LEMMA MetricsStep ==
    ASSUME TypeOK, Lists, FiledUnderOwnHash, DanglingNeedsReset,
           NEW c \in Call, Locals(c), Step(c), NEW id \in DOMAIN metrics'
    PROVE  MetricFiled(heap'[metrics'[id]], id) /\ MetricOK(heap'[metrics'[id]])
  <1>1. \A i \in DOMAIN metrics : /\ MetricFiled(heap[metrics[i]], i) /\ MetricOK(heap[metrics[i]])
                                /\ metrics[i] \in 1 .. Len(heap)
                                /\ MetricShape(heap[metrics[i]])
    BY DEF FiledUnderOwnHash, DanglingNeedsReset, Metric, Points, MetricFiled, MetricOK,
           TypeOK, Lists, MetricShape
  <1>2. CASE UNCHANGED <<heap, metrics>>
    BY <1>1, <1>2
  <1>3. CASE receiveMetric(c)
    <2> DEFINE e == Entry(c)
               mi == MetricIdentity(ids[c].res, ids[c].scope, e.name)
               mid == hashValue(mi)
               r == metrics[mid]
    <2>1. CASE mid \in DOMAIN metrics
      <3>1. heap' = [heap EXCEPT ![r] = Merged(heap[r], e)] /\ metrics' = metrics
        BY <1>3, <2>1 DEF receiveMetric
      <3>2. \A i \in 1 .. Len(heap) : heap'[i] = IF i = r THEN Merged(heap[r], e) ELSE heap[i]
        BY <3>1, UpdateLemma DEF Lists
      <3>3. /\ Merged(heap[r], e).mi = heap[r].mi
            /\ Merged(heap[r], e).streams = heap[r].streams
        BY <1>1, <2>1 DEF Merged, MetricShape
      <3>4. metrics'[id] \in 1 .. Len(heap) /\ metrics'[id] = metrics[id]
        BY <1>1, <3>1
      <3>5. /\ heap'[metrics'[id]].mi = heap[metrics[id]].mi
            /\ heap'[metrics'[id]].streams = heap[metrics[id]].streams
        BY <3>2, <3>3, <3>4
      <3>6. MetricFiled(heap[metrics[id]], id) /\ MetricOK(heap[metrics[id]])
        BY <1>1, <3>1
      <3> QED
        BY <3>5, <3>6 DEF MetricFiled, MetricOK
    <2>2. CASE mid \notin DOMAIN metrics
      <3>1. heap' = Append(heap, NewMetric(mi, e)) /\ metrics' = Register(metrics, mid, Len(heap) + 1)
        BY <1>3, <2>2 DEF receiveMetric
      <3>2. /\ \A i \in 1 .. Len(heap) : heap'[i] = heap[i]
            /\ heap'[Len(heap) + 1] = NewMetric(mi, e)
        BY <3>1, AppendLemma DEF Lists
      <3>3. CASE id \in DOMAIN metrics
        BY <1>1, <3>1, <3>2, <3>3 DEF Register
      <3>4. CASE id \notin DOMAIN metrics
        <4>1. id = mid /\ heap'[metrics'[id]] = NewMetric(mi, e)
          BY <3>1, <3>2, <3>4 DEF Register
        <4>2. ids[c].res \in ResIds /\ ids[c].scope \in ScopeIds
          BY <1>3, ContextOK DEF receiveMetric, At, InLoop
        <4>3. NewMetric(mi, e).mi = mi /\ DOMAIN NewMetric(mi, e).streams = {}
          BY EmptyLemma DEF NewMetric
        <4>4. mi[1] = ids[c].res /\ mi[2] = ids[c].scope
          BY DEF MetricIdentity
        <4> QED
          BY <4>1, <4>2, <4>3, <4>4 DEF MetricFiled, MetricOK
      <3> QED
        BY <3>3, <3>4
    <2> QED
      BY <2>1, <2>2
  <1>4. CASE receivePoint(c)
    <2> DEFINE r == cur[c]
               attr == Entry(c).attr
               k == hashValue(attr)
               v == [attr |-> attr, points |-> <<>>]
               m == [heap[r] EXCEPT !.streams = Register(@, k, v)]
    <2>1. heap' = [heap EXCEPT ![r] = m] /\ metrics' = metrics
      BY <1>4 DEF receivePoint
    <2>2. \A i \in 1 .. Len(heap) : heap'[i] = IF i = r THEN m ELSE heap[i]
      BY <2>1, UpdateLemma DEF Lists
    <2>3. metrics[id] \in 1 .. Len(heap) /\ MetricShape(heap[metrics[id]])
      BY <1>1, <2>1
    <2>4. ASSUME metrics[id] = r
          PROVE  MetricFiled(m, id) /\ MetricOK(m)
      <3>1. m.mi = heap[r].mi /\ m.streams = Register(heap[r].streams, k, v)
        BY <2>3, <2>4 DEF MetricShape
      <3>2. /\ DOMAIN m.streams = DOMAIN heap[r].streams \cup {k}
            /\ \A st \in DOMAIN heap[r].streams : m.streams[st] = heap[r].streams[st]
            /\ k \notin DOMAIN heap[r].streams => m.streams[k] = v
        <4> HIDE DEF m, v
        <4> QED
          BY <3>1 DEF Register
      <3>3. v.attr = attr /\ DOMAIN v.points = {}
        BY EmptyLemma
      <3>4. MetricFiled(heap[r], id) /\ MetricOK(heap[r])
        BY <1>1, <2>1, <2>4
      <3> HIDE DEF m, v
      <3> QED
        BY <3>1, <3>2, <3>3, <3>4 DEF MetricFiled, MetricOK
    <2> HIDE DEF m
    <2> QED
      BY <1>1, <2>1, <2>2, <2>3, <2>4
  <1>5. CASE appendPoint(c)
    <2> DEFINE r == cur[c]
               e == Entry(c)
               k == hashValue(e.attr)
               p == [val |-> e.val, req |-> ids[c].req]
               m == [heap[r] EXCEPT !.streams[k].points = Append(@, p)]
    <2>1. heap' = [heap EXCEPT ![r] = m] /\ metrics' = metrics
      BY <1>5 DEF appendPoint
    <2>2. \A i \in 1 .. Len(heap) : heap'[i] = IF i = r THEN m ELSE heap[i]
      BY <2>1, UpdateLemma DEF Lists
    <2>3. metrics[id] \in 1 .. Len(heap) /\ MetricShape(heap[metrics[id]])
      BY <1>1, <2>1
    <2>4. ASSUME metrics[id] = r
          PROVE  MetricFiled(m, id) /\ MetricOK(m)
      <3>1. /\ m.mi = heap[r].mi /\ DOMAIN m.streams = DOMAIN heap[r].streams
            /\ \A st \in DOMAIN heap[r].streams : st # k => m.streams[st] = heap[r].streams[st]
        BY <2>3, <2>4 DEF MetricShape
      <3>2. k \in DOMAIN heap[r].streams =>
                /\ m.streams[k].attr = heap[r].streams[k].attr
                /\ m.streams[k].points = Append(heap[r].streams[k].points, p)
        BY <2>3, <2>4 DEF MetricShape
      <3>3. MetricFiled(heap[r], id) /\ MetricOK(heap[r])
        BY <1>1, <2>1, <2>4
      <3>4. p.req \in ReqIds
        <4>1. n[c] <= Len(sent[c].entries) /\ Entry(c).op = "point" /\ pc[c] = "append"
          BY <1>5 DEF appendPoint, TypeOK
        <4> QED
          BY <4>1, ContextOK
      <3>5. MetricFiled(m, id)
        <4> HIDE DEF m
        <4> QED
          BY <3>1, <3>2, <3>3 DEF MetricFiled
      <3>6. ASSUME k \in DOMAIN heap[r].streams, NEW j \in DOMAIN m.streams[k].points
            PROVE  m.streams[k].points[j].req \in ReqIds
        <4> DEFINE old == heap[r].streams[k].points
        <4>1. IsList(old)
          BY <2>3, <2>4, <3>6 DEF MetricShape
        <4>2. m.streams[k].points = Append(old, p)
          BY <3>2, <3>6
        <4>3. /\ \A i \in DOMAIN old : Append(old, p)[i] = old[i]
              /\ \A i \in DOMAIN Append(old, p) : i \in DOMAIN old \/ Append(old, p)[i] = p
          <5> HIDE DEF old, p
          <5>1. /\ Len(old) \in Nat /\ DOMAIN old = 1 .. Len(old)
                /\ DOMAIN Append(old, p) = 1 .. Len(old) + 1
                /\ \A i \in 1 .. Len(old) : Append(old, p)[i] = old[i]
                /\ Append(old, p)[Len(old) + 1] = p
            BY <4>1, AppendLemma
          <5> QED
            BY <5>1
        <4>4. \A i \in DOMAIN old : old[i].req \in ReqIds
          BY <3>3, <3>6 DEF MetricOK
        <4> HIDE DEF m, old, p
        <4> QED
          BY <3>4, <3>6, <4>2, <4>3, <4>4
      <3>7. MetricOK(m)
        <4> HIDE DEF m
        <4> QED
          BY <3>1, <3>3, <3>6 DEF MetricOK
      <3> QED
        BY <3>5, <3>7
    <2> HIDE DEF m
    <2> QED
      BY <1>1, <2>1, <2>2, <2>3, <2>4
  <1>6. UNCHANGED <<heap, metrics>> \/ receiveMetric(c) \/ receivePoint(c) \/ appendPoint(c)
    BY DEF Step, receiveRequestMeta, receiveResource, receiveScope, receiveSpan,
           receiveLog, beginDump, endDump, convertPanic, printPanic, Unwind, respond, MoveTo, store
  <1> QED
    BY <1>2, <1>3, <1>4, <1>5, <1>6

\* Values stay under their own hash, whichever call registers one.
RegistryFiled(m) == \A id \in DOMAIN m : hashValue(m[id]) = id

\* Every step of a call files what it stores under its own hash.
LEMMA FiledStep ==
    ASSUME IInv, NEW c \in Call, Step(c)
    PROVE  FiledUnderOwnHash'
  <1>1. /\ \E v : requests' = requests \/ requests' = Register(requests, hashValue(v), v)
        /\ \E v : resources' = resources \/ resources' = Register(resources, hashValue(v), v)
        /\ \E v : scopes' = scopes \/ scopes' = Register(scopes, hashValue(v), v)
    BY DEF Step, receiveRequestMeta, receiveResource, receiveScope,
           receiveSpan, receiveLog, receiveMetric, receivePoint, appendPoint, beginDump,
           endDump, convertPanic, printPanic, Unwind, respond, MoveTo, store
  <1>2. \A m, v : RegistryFiled(m) => RegistryFiled(Register(m, hashValue(v), v))
    BY DEF RegistryFiled, Register
  <1>3. RegistryFiled(requests') /\ RegistryFiled(resources') /\ RegistryFiled(scopes')
    BY <1>1, <1>2 DEF IInv, FiledUnderOwnHash, RegistryFiled
  <1>4. \A id \in DOMAIN metrics' : MetricFiled(heap'[metrics'[id]], id)
    BY MetricsStep DEF IInv
  <1> QED
    BY <1>3, <1>4 DEF FiledUnderOwnHash, RegistryFiled, MetricFiled, Metric

\* A span or log is stored with ids that resolve, and those of the others
\* keep resolving.
LEMMA DanglingStep ==
    ASSUME IInv, Next, NEW c \in Call, Step(c)
    PROVE  DanglingNeedsReset'
  <1> DEFINE OK(v) == v.req \in ReqIds /\ v.res \in ResIds /\ v.scope \in ScopeIds
  <1>1. ReqIds \subseteq ReqIds' /\ ResIds \subseteq ResIds' /\ ScopeIds \subseteq ScopeIds'
    <2>1. /\ DOMAIN requests \subseteq DOMAIN requests' /\ DOMAIN resources \subseteq DOMAIN resources'
          /\ DOMAIN scopes \subseteq DOMAIN scopes' /\ sent' = sent /\ cut' = cut
      BY StepIsLocal, RegistriesGrow DEF IInv, Keeps
    <2> QED
      BY <2>1 DEF ReqIds, ResIds, ScopeIds, LostIds, Overtaken
  <1>2. Entry(c).op \in {"span", "log"} /\ At(c, Entry(c).op) => OK(WithContext(c, Entry(c).val))
    BY ContextOK DEF IInv, At, InLoop, WithContext
  <1>3. \A t \in DOMAIN traces' : \A s \in DOMAIN traces'[t] : OK(traces'[t][s])
    <2>1. \A t \in DOMAIN traces : \A s \in DOMAIN traces[t] : OK(traces[t][s])
      BY DEF IInv, DanglingNeedsReset
    <2>2. CASE receiveSpan(c)
      <3> DEFINE e == Entry(c)
                 v == WithContext(c, e.val)
                 spans == Register(SpansOf(e.trace), e.span, v)
      <3>1. OK(v)
        BY <1>2, <2>2 DEF receiveSpan, At
      <3>2. traces' = [t \in DOMAIN traces \cup {e.trace} |->
                            IF t = e.trace THEN spans ELSE traces[t]]
        BY <2>2 DEF receiveSpan
      <3>3. \A s \in DOMAIN SpansOf(e.trace) : OK(SpansOf(e.trace)[s])
        BY <2>1, EmptyLemma DEF SpansOf
      <3> HIDE DEF v, OK
      <3>4. \A s \in DOMAIN spans : OK(spans[s])
        BY <3>1, <3>3 DEF Register
      <3> QED
        BY <2>1, <3>2, <3>4
    <2>3. CASE traces' = traces
      BY <2>1, <2>3
    <2> QED
      BY <2>2, <2>3 DEF Step, receiveRequestMeta, receiveResource, receiveScope, receiveLog,
             receiveMetric, receivePoint, appendPoint, beginDump, endDump, convertPanic, printPanic, Unwind,
             respond, MoveTo, store
  <1>4. \A k \in 1 .. Len(logs') : OK(logs'[k])
    <2>1. \A k \in 1 .. Len(logs) : OK(logs[k])
      BY DEF IInv, DanglingNeedsReset
    <2>2. CASE receiveLog(c)
      <3> DEFINE v == WithContext(c, Entry(c).val)
      <3>1. OK(v) /\ logs' = Append(logs, v)
        BY <1>2, <2>2 DEF receiveLog, At
      <3> HIDE DEF v, OK
      <3>2. /\ Len(logs) \in Nat /\ Len(logs') = Len(logs) + 1 /\ logs'[Len(logs) + 1] = v
            /\ \A k \in 1 .. Len(logs) : logs'[k] = logs[k]
        BY <3>1, AppendLemma DEF IInv, Lists
      <3> QED
        BY <2>1, <3>1, <3>2
    <2>3. CASE logs' = logs
      BY <2>1, <2>3
    <2> QED
      BY <2>2, <2>3 DEF Step, receiveRequestMeta, receiveResource, receiveScope, receiveSpan,
             receiveMetric, receivePoint, appendPoint, beginDump, endDump, convertPanic, printPanic, Unwind,
             respond, MoveTo, store
  <1>5. \A id \in DOMAIN metrics' : MetricOK(heap'[metrics'[id]])
    BY MetricsStep DEF IInv
  <1> QED
    BY <1>1, <1>3, <1>4, <1>5 DEF DanglingNeedsReset, Metric, Points, MetricOK

\* The invariant holds at the start,
LEMMA InvInit ==
    ASSUME Init
    PROVE  IInv
  <1>1. TypeOK /\ Lists
    BY TypeInit
  <1>2. /\ DOMAIN requests = {} /\ DOMAIN resources = {} /\ DOMAIN scopes = {}
        /\ DOMAIN traces = {} /\ DOMAIN metrics = {} /\ Len(logs) = 0
    BY EmptyLemma DEF Init
  <1>3. \A c \in Call : pc[c] = "idle" /\ n[c] = 1 /\ cut[c] = "none"
    BY DEF Init
  <1> QED
    BY <1>1, <1>2, <1>3 DEF IInv, Locals, FiledUnderOwnHash, DanglingNeedsReset

\* a step that changes neither the store nor a call preserves it,
LEMMA InvUnchanged ==
    ASSUME UNCHANGED <<store, call, cut>>
    PROVE  /\ FiledUnderOwnHash => FiledUnderOwnHash'
           /\ DanglingNeedsReset => DanglingNeedsReset'
           /\ \A c \in Call : Locals(c) => Locals(c)'
  <1>1. FiledUnderOwnHash => FiledUnderOwnHash'
    BY DEF store, FiledUnderOwnHash, Metric
  <1>2. ReqIds' = ReqIds /\ ResIds' = ResIds /\ ScopeIds' = ScopeIds
    BY DEF store, call, ReqIds, ResIds, ScopeIds, LostIds, Overtaken
  <1>3. DanglingNeedsReset => DanglingNeedsReset'
    BY <1>2 DEF store, DanglingNeedsReset, Metric, Points
  <1>4. ASSUME NEW c \in Call, Locals(c)
        PROVE  Locals(c)'
    <2>1. LastOp(c)' = LastOp(c) /\ Entry(c)' = Entry(c)
      BY DEF call, LastOp, Entry
    <2>2. n[c] > 1 => Holds(c, "res", ids[c].res, resources)'
      BY <1>4 DEF store, call, Locals, Holds
    <2>3. n[c] > 1 /\ LastOp(c) # "res" => Holds(c, "scope", ids[c].scope, scopes)'
      BY <1>4 DEF store, call, Locals, Holds
    <2> QED
      BY <1>4, <2>1, <2>2, <2>3 DEF store, call, Locals
  <1> QED
    BY <1>1, <1>3, <1>4

\* and so does every other step.
LEMMA InvStep ==
    ASSUME IInv, [Next]_vars
    PROVE  IInv'
  <1>1. CASE UNCHANGED vars
    BY <1>1, TypeStep, InvUnchanged DEF vars, IInv
  <1>2. CASE Next
    <2>1. TypeOK' /\ Lists'
      BY TypeStep DEF IInv
    <2>2. \A c \in Call : Locals(c)'
      BY <1>2, LocalsStep DEF IInv
    <2>3. FiledUnderOwnHash' /\ DanglingNeedsReset'
      <3>1. CASE reset
        <4>1. /\ DOMAIN requests' = {} /\ DOMAIN resources' = {} /\ DOMAIN scopes' = {}
              /\ DOMAIN traces' = {} /\ DOMAIN metrics' = {} /\ Len(logs') = 0
          BY <3>1, EmptyLemma DEF reset, noteReset, resetContext
        <4> QED
          BY <4>1 DEF FiledUnderOwnHash, DanglingNeedsReset
      <3>2. ASSUME NEW c \in Call, Step(c)
            PROVE  FiledUnderOwnHash' /\ DanglingNeedsReset'
        BY <1>2, <3>2, FiledStep, DanglingStep
      <3>3. CASE \E c, d \in Call : race(c, d)
        BY <3>3, InvUnchanged DEF race, IInv
      <3> QED
        BY <1>2, <3>1, <3>2, <3>3 DEF Next
    <2> QED
      BY <2>1, <2>2, <2>3 DEF IInv
  <1> QED
    BY <1>1, <1>2

\* Whatever the hash function and the interleaving, an object is found under
\* its own hash, in the registries, the metrics and their streams.
THEOREM Filed == Spec => []FiledUnderOwnHash
  <1>1. Init => IInv
    BY InvInit
  <1>2. IInv /\ [Next]_vars => IInv'
    BY InvStep
  <1>3. IInv => FiledUnderOwnHash
    BY DEF IInv
  <1> QED
    BY <1>1, <1>2, <1>3, PTL DEF Spec

\* The UI meets an id that does not resolve only after a reset has overtaken
\* the call that stored it: without resets, every span, log, metric and point
\* can be shown with its request, resource and scope.
THEOREM Resolvable == Spec => []DanglingNeedsReset
  <1>1. Init => IInv
    BY InvInit
  <1>2. IInv /\ [Next]_vars => IInv'
    BY InvStep
  <1>3. IInv => DanglingNeedsReset
    BY DEF IInv
  <1> QED
    BY <1>1, <1>2, <1>3, PTL DEF Spec
=============================================================================
