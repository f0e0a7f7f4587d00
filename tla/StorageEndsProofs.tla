------------------------- MODULE StorageEndsProofs -------------------------
(***************************************************************************)
(* Proofs of how calls and the process end, with and without -verbose.     *)
(***************************************************************************)
EXTENDS StorageKeptProofs

(***************************************************************************)
(* Where a call goes                                                       *)
(***************************************************************************)

\* What each step of a call does to its position and to those of others.
LEMMA MoveLemma ==
    ASSUME TypeOK, NEW c \in Call, Step(c)
    PROVE  /\ sent' = sent
           /\ \A d \in Call \ {c} : pc'[d] = pc[d] /\ n'[d] = n[d]
           /\ \/ pc[c] = "idle" /\ pc'[c] \in {"run", "panic"} /\ n'[c] = n[c]
              \/ pc[c] = "run" /\ pc'[c] \in {"append", "done", "failed"} /\ n'[c] = n[c]
              \/ pc[c] \in {"append", "panic"} /\ pc'[c] = "failed" /\ n'[c] = n[c]
              \/ pc[c] = "dump" /\ pc'[c] = "dumping" /\ n'[c] = n[c]
              \/ pc[c] = "dumping" /\ pc'[c] \in {"run", "failed"} /\ n'[c] = n[c]
              \/ /\ pc[c] \in {"run", "append"} /\ n'[c] = n[c] + 1
                 /\ n[c] <= Len(sent[c].entries)
                 /\ \/ pc'[c] \in {"run", "panic"}
                    \/ pc'[c] = "dump" /\ Verbose /\ Entry(c).op \in {"metric", "point"}
              \/ ~up' /\ pc'[c] = pc[c] /\ n'[c] = n[c]
  <1> USE DEF TypeOK
  <1>1. sent' = sent /\ \A d \in Call \ {c} : pc'[d] = pc[d] /\ n'[d] = n[d]
    BY StepIsLocal
  <1>2. CASE receiveRequestMeta(c)
    BY <1>1, <1>2 DEF receiveRequestMeta, AfterPrint
  <1>3. CASE receiveResource(c) \/ receiveScope(c) \/ receiveSpan(c) \/ receiveLog(c)
    <2>1. (\E v : Advance(c, v)) /\ pc[c] = "run" /\ n[c] <= Len(sent[c].entries)
      BY <1>3 DEF receiveResource, receiveScope, receiveSpan, receiveLog, At, InLoop
    <2> QED
      BY <1>1, <2>1 DEF Advance, AfterPrint
  <1>4. CASE receiveMetric(c) \/ appendPoint(c)
    <2>1. /\ AdvanceMetric(c) /\ pc[c] \in {"run", "append"} /\ n[c] <= Len(sent[c].entries)
          /\ Entry(c).op \in {"metric", "point"}
      BY <1>4 DEF receiveMetric, appendPoint, At, InLoop
    <2> QED
      BY <1>1, <2>1 DEF AdvanceMetric
  <1>5. CASE receivePoint(c)
    BY <1>1, <1>5 DEF receivePoint, At, InLoop
  <1>6. CASE beginDump(c) \/ endDump(c) \/ respond(c)
    BY <1>1, <1>6 DEF beginDump, endDump, respond, MoveTo
  <1>7. CASE convertPanic(c) \/ printPanic(c)
    <2>1. n' = n /\ pc[c] \in {"run", "append", "panic", "dumping"}
      BY <1>7, PanicLemma
    <2>2. pc'[c] = "failed" \/ (~up' /\ pc' = pc)
      BY <1>7, PanicLemma
    <2> QED
      BY <1>1, <2>1, <2>2
  <1> QED
    BY <1>2, <1>3, <1>4, <1>5, <1>6, <1>7 DEF Step

(***************************************************************************)
(* Every step of a call brings it nearer to its end                        *)
(***************************************************************************)

\* Every step is one of a call, which has fewer steps left after it unless it
\* ended the process, or is none of any call.
LEMMA AdvanceStep ==
    ASSUME TypeOK, Next
    PROVE  \/ \E c \in Call : /\ StepsLeft(c)' < StepsLeft(c)
                              /\ \A d \in Call \ {c} : StepsLeft(d)' = StepsLeft(d)
           \/ /\ resets' > resets \/ up' # up
              /\ \A d \in Call : StepsLeft(d)' = StepsLeft(d)
  <1>1. \A c \in Call : Len(sent[c].entries) \in Nat /\ n[c] \in Nat
    BY BatchAssumption DEF TypeOK
  <1>2. ASSUME NEW d \in Call, sent' = sent, pc'[d] = pc[d], n'[d] = n[d]
        PROVE  StepsLeft(d)' = StepsLeft(d)
    BY <1>2 DEF StepsLeft
  <1>3. ASSUME NEW c \in Call, Step(c)
        PROVE  \/ StepsLeft(c)' < StepsLeft(c) \/ (~up' /\ pc'[c] = pc[c] /\ n'[c] = n[c])
    <2>1. sent' = sent /\ n[c] <= Len(sent[c].entries) + 1
      BY <1>3, MoveLemma DEF TypeOK
    <2> DEFINE left == 4 * (Len(sent[c].entries) + 1 - n[c])
               left2 == 4 * (Len(sent[c].entries) + 1 - n'[c])
    <2>2. left \in Nat /\ (n'[c] = n[c] => left2 = left) /\ (n'[c] = n[c] + 1 => left2 = left - 4)
      <3>1. \A L, i \in Nat : i <= L + 1 => /\ 4 * (L + 1 - i) \in Nat
                                          /\ 4 * (L + 1 - (i + 1)) = 4 * (L + 1 - i) - 4
        OBVIOUS
      <3> QED
        BY <1>1, <2>1, <3>1
    <2>3. /\ pc[c] = "idle" => StepsLeft(c) = left + 5
          /\ pc[c] = "dump" => StepsLeft(c) = left + 4
          /\ pc[c] = "dumping" => StepsLeft(c) = left + 3
          /\ pc[c] = "run" => StepsLeft(c) = left + 2
          /\ pc[c] \in {"append", "panic"} => StepsLeft(c) = left + 1
      BY DEF StepsLeft
    <2>4. /\ pc'[c] = "dump" => StepsLeft(c)' = left2 + 4
          /\ pc'[c] = "dumping" => StepsLeft(c)' = left2 + 3
          /\ pc'[c] = "run" => StepsLeft(c)' = left2 + 2
          /\ pc'[c] \in {"append", "panic"} => StepsLeft(c)' = left2 + 1
          /\ pc'[c] \in {"done", "failed"} => StepsLeft(c)' = 0
      BY <2>1 DEF StepsLeft
    <2> HIDE DEF left, left2
    <2> QED
      BY <1>3, <2>2, <2>3, <2>4, MoveLemma
  <1>4. ASSUME NEW c \in Call, Step(c), up
        PROVE  \/ \E e \in Call : /\ StepsLeft(e)' < StepsLeft(e)
                                  /\ \A d \in Call \ {e} : StepsLeft(d)' = StepsLeft(d)
               \/ up' # up /\ \A d \in Call : StepsLeft(d)' = StepsLeft(d)
    <2>1. sent' = sent /\ \A d \in Call \ {c} : StepsLeft(d)' = StepsLeft(d)
      BY <1>2, <1>4, MoveLemma
    <2>2. CASE StepsLeft(c)' < StepsLeft(c)
      BY <2>1, <2>2
    <2>3. CASE ~up' /\ pc'[c] = pc[c] /\ n'[c] = n[c]
      <3>1. StepsLeft(c)' = StepsLeft(c)
        BY <1>2, <2>1, <2>3
      <3> QED
        BY <1>4, <2>1, <2>3, <3>1
    <2> QED
      BY <1>3, <1>4, <2>2, <2>3
  <1>5. ASSUME NEW c \in Call, NEW d \in Call, race(c, d), up
        PROVE  up' # up /\ \A e \in Call : StepsLeft(e)' = StepsLeft(e)
    BY <1>2, <1>5 DEF race, call
  <1>6. ASSUME reset
        PROVE  resets' > resets /\ \A e \in Call : StepsLeft(e)' = StepsLeft(e)
    BY <1>2, <1>6 DEF reset, noteReset, call, TypeOK
  <1> QED
    BY <1>4, <1>5, <1>6 DEF Next

\* However many calls there are and whatever they carry, none goes around a
\* loop for ever, is sent back by another or has to begin anything again:
\* what it carries bounds the number of steps it takes.
THEOREM Advances == Spec => EveryStepAdvances
  <1>1. Init => TypeOK /\ Lists
    BY TypeInit
  <1>2. (TypeOK /\ Lists) /\ [Next]_vars => (TypeOK /\ Lists)'
    BY TypeStep
  <1> DEFINE A == \/ \E c \in Call : /\ StepsLeft(c)' < StepsLeft(c)
                                     /\ \A d \in Call \ {c} : StepsLeft(d)' = StepsLeft(d)
                  \/ /\ resets' > resets \/ up' # up
                     /\ \A d \in Call : StepsLeft(d)' = StepsLeft(d)
  <1>3. TypeOK /\ [Next]_vars => [A]_vars
    BY AdvanceStep
  <1> HIDE DEF A
  <1>4. Spec => [][A]_vars
    BY <1>1, <1>2, <1>3, PTL DEF Spec
  <1> QED
    BY <1>4 DEF EveryStepAdvances, A

(***************************************************************************)
(* How the process ends with -verbose                                      *)
(***************************************************************************)

\* A call prints only with the flag, and only the metric it has just been at.
Printing ==
    \A d \in Call :
        pc[d] \in {"dump", "dumping"} => Verbose /\ n[d] > 1 /\ LastOp(d) \in {"metric", "point"}

LEMMA PrintingStep ==
    ASSUME TypeOK, Printing, Next
    PROVE  Printing'
  <1>1. ASSUME NEW c \in Call, Step(c), NEW d \in Call, pc'[d] \in {"dump", "dumping"}
        PROVE  Verbose /\ n'[d] > 1 /\ LastOp(d)' \in {"metric", "point"}
    <2>1. n[d] \in Nat \ {0} /\ sent' = sent
      BY <1>1, MoveLemma DEF TypeOK
    <2>2. CASE n'[d] = n[d] /\ pc[d] \in {"dump", "dumping"}
      BY <2>1, <2>2 DEF Printing, LastOp
    <2>3. CASE /\ d = c /\ n'[c] = n[c] + 1
               /\ Verbose /\ Entry(c).op \in {"metric", "point"}
      <3>1. n'[d] > 1 /\ n'[d] - 1 = n[c]
        BY <2>1, <2>3
      <3> QED
        BY <2>1, <2>3, <3>1 DEF LastOp, Entry
    <2> QED
      BY <1>1, <2>2, <2>3, MoveLemma
  <1>2. CASE UNCHANGED <<pc, n, sent>>
    BY <1>2 DEF Printing, LastOp
  <1> QED
    BY <1>1, <1>2 DEF Next, Printing, race, reset, noteReset, call

(***************************************************************************)
(* What cannot be printed came from a call                                 *)
(***************************************************************************)

\* A call has brought, or is about to, a string that cannot be printed into
\* the value of this kind and id.
RefusedValue(op, id) ==
    \E d \in Call : \E j \in 1 .. Len(sent[d].entries) :
        /\ pc[d] # "idle" /\ j <= n[d]
        /\ Refused(sent[d].entries[j])
        /\ sent[d].entries[j].op = op /\ hashValue(sent[d].entries[j].val) = id

RefusedMetric(id) ==
    \E d \in Call : \E j \in 1 .. Len(sent[d].entries) :
        /\ pc[d] # "idle" /\ j <= n[d]
        /\ Refused(sent[d].entries[j])
        /\ sent[d].entries[j].op \in {"metric", "point"} /\ MetricIdAt(sent[d], j) = id

\* What a call that panics at a print has just stored.
RefusedLast(c) ==
    \/ n[c] = 1 /\ sent[c].meta \in Unprintable
    \/ n[c] > 1 /\ \E d \in Call : \E j \in 1 .. Len(sent[d].entries) :
            /\ pc[d] # "idle" /\ j <= n[d]
            /\ Refused(sent[d].entries[j])
            /\ SameObject(c, n[c] - 1, d, j)

\* What is in the store and cannot be printed was brought by a call, to where
\* it is; and a call that panics at a print has met such a thing.
Sourced ==
    /\ \A id \in DOMAIN resources : resources[id] \in Unprintable => RefusedValue("res", id)
    /\ \A id \in DOMAIN scopes : scopes[id] \in Unprintable => RefusedValue("scope", id)
    /\ \A r \in 1 .. Len(heap) : ~Printable(heap[r]) => RefusedMetric(hashValue(heap[r].mi))
    /\ \A c \in Call : pc[c] = "panic" => Verbose /\ RefusedLast(c)

\* No call goes back.
Later ==
    /\ sent' = sent
    /\ \A d \in Call : /\ n[d] \in Nat /\ n'[d] \in Nat /\ n[d] <= n'[d]
                       /\ pc[d] # "idle" => pc'[d] # "idle"

\* So what a call has brought stays so.
LEMMA RefusedStays ==
    ASSUME Later
    PROVE  /\ \A op, id : RefusedValue(op, id) => RefusedValue(op, id)'
           /\ \A id : RefusedMetric(id) => RefusedMetric(id)'
           /\ \A c \in Call : n'[c] = n[c] /\ RefusedLast(c) => RefusedLast(c)'
  <1>1. ASSUME NEW d \in Call, NEW j \in 1 .. Len(sent[d].entries), pc[d] # "idle", j <= n[d]
        PROVE  pc'[d] # "idle" /\ j <= n'[d]
    <2>1. n[d] \in Nat /\ n'[d] \in Nat /\ n[d] <= n'[d] /\ j \in Nat /\ pc'[d] # "idle"
      BY <1>1 DEF Later
    <2> QED
      BY <1>1, <2>1
  <1>2. sent' = sent
    BY DEF Later
  <1>3. \A op, id : RefusedValue(op, id) => RefusedValue(op, id)'
    BY <1>1, <1>2 DEF RefusedValue
  <1>4. \A id : RefusedMetric(id) => RefusedMetric(id)'
    BY <1>1, <1>2 DEF RefusedMetric
  <1>5. ASSUME NEW c \in Call, n'[c] = n[c], RefusedLast(c)
        PROVE  RefusedLast(c)'
    <2>1. \A d \in Call : \A j \in 1 .. Len(sent[d].entries) :
              SameObject(c, n[c] - 1, d, j)' = SameObject(c, n[c] - 1, d, j)
      BY <1>2, <1>5 DEF SameObject, MetricIdAt, ContextId, Context
    <2> QED
      BY <1>1, <1>2, <1>5, <2>1 DEF RefusedLast
  <1> QED
    BY <1>3, <1>4, <1>5

LEMMA StepIsLater ==
    ASSUME TypeOK, [Next]_vars
    PROVE  Later
  <1>1. \A d \in Call : n[d] \in Nat
    BY DEF TypeOK
  <1>2. CASE UNCHANGED <<sent, pc, n>>
    BY <1>1, <1>2 DEF Later
  <1>3. ASSUME NEW c \in Call, Step(c)
        PROVE  Later
    <2>1. n'[c] = n[c] \/ n'[c] = n[c] + 1
      BY <1>3, MoveLemma
    <2>2. \A d \in Call : d # c => n'[d] = n[d] /\ pc'[d] = pc[d]
      BY <1>3, MoveLemma
    <2>3. pc[c] # "idle" => pc'[c] # "idle"
      BY <1>3, MoveLemma
    <2>4. sent' = sent
      BY <1>3, MoveLemma
    <2> QED
      BY <1>1, <2>1, <2>2, <2>3, <2>4 DEF Later
  <1> QED
    BY <1>2, <1>3 DEF Next, race, reset, noteReset, vars, call

\* A step of a call makes a metric object unprintable only by the entry the
\* call is at, which is of that metric.
LEMMA PrintableStep ==
    ASSUME IInv, NEW c \in Call, Exact(c), Step(c), NEW r \in 1 .. Len(heap'),
           ~Printable(heap'[r])
    PROVE  \/ r \in 1 .. Len(heap) /\ ~Printable(heap[r]) /\ heap'[r].mi = heap[r].mi
           \/ /\ pc[c] \in {"run", "append"} /\ n[c] <= Len(sent[c].entries)
              /\ Entry(c).op \in {"metric", "point"} /\ Refused(Entry(c))
              /\ MetricIdAt(sent[c], n[c]) = hashValue(heap'[r].mi)
  <1>1. \A i \in 1 .. Len(heap) : MetricShape(heap[i])
    BY DEF IInv, TypeOK, Lists, MetricShape
  <1>2. CASE heap' = heap
    BY <1>2
  <1>3. CASE receiveMetric(c)
    <2> DEFINE e == Entry(c)
               mi == MetricIdentity(ids[c].res, ids[c].scope, e.name)
               mid == hashValue(mi)
               k == metrics[mid]
    <2>1. /\ pc[c] = "run" /\ n[c] <= Len(sent[c].entries) /\ e.op = "metric"
          /\ mid = MetricIdAt(sent[c], n[c])
      BY <1>3, StoresContext DEF receiveMetric, At, InLoop
    <2>2. mi[3] = e.name
      BY DEF MetricIdentity
    <2>3. CASE mid \in DOMAIN metrics
      <3>1. heap' = [heap EXCEPT ![k] = Merged(heap[k], e)]
        BY <1>3, <2>3 DEF receiveMetric
      <3>2. /\ Len(heap') = Len(heap)
            /\ \A i \in 1 .. Len(heap) : heap'[i] = IF i = k THEN Merged(heap[k], e) ELSE heap[i]
        BY <3>1, UpdateLemma DEF IInv, Lists
      <3>3. hashValue(heap[k].mi) = mid /\ k \in 1 .. Len(heap)
        BY <2>3 DEF IInv, FiledUnderOwnHash, Metric, TypeOK
      <3>4. /\ Merged(heap[k], e).mi = heap[k].mi
            /\ Merged(heap[k], e).meta = heap[k].meta
            /\ Merged(heap[k], e).streams = heap[k].streams
            /\ Merged(heap[k], e).desc \in {heap[k].desc, e.desc}
        BY <1>1, <3>3 DEF Merged, MetricShape
      <3>5. ~Printable(Merged(heap[k], e)) => ~Printable(heap[k]) \/ e.desc \in Unprintable
        BY <3>4 DEF Printable
      <3> QED
        BY <2>1, <3>2, <3>3, <3>4, <3>5 DEF Refused
    <2>4. CASE mid \notin DOMAIN metrics
      <3>1. heap' = Append(heap, NewMetric(mi, e))
        BY <1>3, <2>4 DEF receiveMetric
      <3>2. /\ Len(heap) \in Nat /\ Len(heap') = Len(heap) + 1
            /\ \A i \in 1 .. Len(heap) : heap'[i] = heap[i]
            /\ heap'[Len(heap) + 1] = NewMetric(mi, e)
        BY <3>1, AppendLemma DEF IInv, Lists
      <3>3. NewMetric(mi, e).mi = mi
        BY DEF NewMetric
      <3>4. ~Printable(NewMetric(mi, e)) => Refused(e)
        <4>1. /\ NewMetric(mi, e).desc = e.desc /\ NewMetric(mi, e).meta = e.meta
              /\ DOMAIN NewMetric(mi, e).streams = {}
          BY EmptyLemma DEF NewMetric
        <4> QED
          BY <2>1, <2>2, <3>3, <4>1 DEF Printable, Refused
      <3>5. r \in 1 .. Len(heap) \/ r = Len(heap) + 1
        BY <3>2
      <3> QED
        BY <2>1, <3>2, <3>3, <3>4, <3>5
    <2> QED
      BY <2>3, <2>4
  <1>4. CASE receivePoint(c)
    <2> DEFINE k == cur[c]
               attr == Entry(c).attr
               st == hashValue(attr)
               v == [attr |-> attr, points |-> <<>>]
               m == [heap[k] EXCEPT !.streams = Register(@, st, v)]
    <2>1. heap' = [heap EXCEPT ![k] = m]
      BY <1>4 DEF receivePoint
    <2>2. /\ Len(heap') = Len(heap)
          /\ \A i \in 1 .. Len(heap) : heap'[i] = IF i = k THEN m ELSE heap[i]
      BY <2>1, UpdateLemma DEF IInv, Lists
    <2>3. /\ pc[c] = "run" /\ n[c] <= Len(sent[c].entries) /\ Entry(c).op = "point"
          /\ k \in 1 .. Len(heap) /\ hashValue(heap[k].mi) = MetricIdAt(sent[c], n[c])
      BY <1>4, StoresContext DEF receivePoint, At, InLoop
    <2>4. /\ m.mi = heap[k].mi /\ m.desc = heap[k].desc /\ m.meta = heap[k].meta
          /\ m.streams = Register(heap[k].streams, st, v)
      BY <1>1, <2>3 DEF MetricShape
    <2>5. v.attr = attr /\ DOMAIN v.points = {}
      BY EmptyLemma
    <2> HIDE DEF m, v
    <2>6. /\ DOMAIN m.streams = DOMAIN heap[k].streams \cup {st}
          /\ \A x \in DOMAIN m.streams :
                \/ x \in DOMAIN heap[k].streams /\ m.streams[x] = heap[k].streams[x]
                \/ m.streams[x] = v
      BY <2>4 DEF Register
    <2>7. ~Printable(m) => ~Printable(heap[k]) \/ attr \in Unprintable
      BY <2>4, <2>5, <2>6 DEF Printable
    <2> QED
      BY <2>2, <2>3, <2>4, <2>7 DEF Refused
  <1>5. CASE appendPoint(c)
    <2> DEFINE k == cur[c]
               e == Entry(c)
               st == hashValue(e.attr)
               p == [val |-> e.val, req |-> ids[c].req]
               m == [heap[k] EXCEPT !.streams[st].points = Append(@, p)]
    <2>1. heap' = [heap EXCEPT ![k] = m]
      BY <1>5 DEF appendPoint
    <2>2. /\ Len(heap') = Len(heap)
          /\ \A i \in 1 .. Len(heap) : heap'[i] = IF i = k THEN m ELSE heap[i]
      BY <2>1, UpdateLemma DEF IInv, Lists
    <2>3. pc[c] = "append" /\ n[c] <= Len(sent[c].entries) /\ e.op = "point"
      BY <1>5 DEF appendPoint, IInv, TypeOK
    <2>4. /\ k \in 1 .. Len(heap) /\ hashValue(heap[k].mi) = MetricIdAt(sent[c], n[c])
          /\ st \in DOMAIN heap[k].streams
      BY <2>3, StoresContext DEF IInv, Locals
    <2>5. /\ m.mi = heap[k].mi /\ m.desc = heap[k].desc /\ m.meta = heap[k].meta
          /\ DOMAIN m.streams = DOMAIN heap[k].streams
          /\ \A x \in DOMAIN heap[k].streams : x # st => m.streams[x] = heap[k].streams[x]
      BY <1>1, <2>4 DEF MetricShape
    <2>6. /\ m.streams[st].attr = heap[k].streams[st].attr
          /\ m.streams[st].points = Append(heap[k].streams[st].points, p)
      BY <1>1, <2>4 DEF MetricShape
    <2>7. \A x \in DOMAIN m.streams[st].points :
              \/ x \in DOMAIN heap[k].streams[st].points
                 /\ m.streams[st].points[x] = heap[k].streams[st].points[x]
              \/ m.streams[st].points[x] = p
      <3> DEFINE old == heap[k].streams[st].points
      <3>1. IsList(old)
        BY <1>1, <2>4 DEF MetricShape
      <3> HIDE DEF old, p, m
      <3>2. \A x \in DOMAIN Append(old, p) :
                \/ x \in DOMAIN old /\ Append(old, p)[x] = old[x]
                \/ Append(old, p)[x] = p
        <4>1. /\ Len(old) \in Nat /\ DOMAIN old = 1 .. Len(old)
              /\ DOMAIN Append(old, p) = 1 .. Len(old) + 1
              /\ \A i \in 1 .. Len(old) : Append(old, p)[i] = old[i]
              /\ Append(old, p)[Len(old) + 1] = p
          BY <3>1, AppendLemma
        <4> QED
          BY <4>1
      <3> QED
        BY <2>6, <3>2 DEF old
    <2>8. p.val = e.val
      OBVIOUS
    <2> HIDE DEF m, p
    <2>9. ~Printable(m) => ~Printable(heap[k]) \/ e.val \in Unprintable
      <3>1. ASSUME Printable(heap[k]), e.val \notin Unprintable
            PROVE  Printable(m)
        <4>1. \A x \in DOMAIN m.streams :
                  /\ m.streams[x].attr \notin Unprintable
                  /\ \A y \in DOMAIN m.streams[x].points :
                        m.streams[x].points[y].val \notin Unprintable
          <5>1. ASSUME NEW x \in DOMAIN m.streams, x # st
                PROVE  m.streams[x] = heap[k].streams[x] /\ x \in DOMAIN heap[k].streams
            BY <2>5, <5>1
          <5>2. ASSUME NEW y \in DOMAIN m.streams[st].points
                PROVE  m.streams[st].points[y].val \notin Unprintable
            BY <2>4, <2>7, <2>8, <3>1, <5>2 DEF Printable
          <5> QED
            BY <2>4, <2>6, <3>1, <5>1, <5>2 DEF Printable
        <4> QED
          BY <2>5, <3>1, <4>1 DEF Printable
      <3> QED
        BY <3>1
    <2> QED
      BY <2>2, <2>3, <2>4, <2>5, <2>9 DEF Refused
  <1> QED
    BY <1>2, <1>3, <1>4, <1>5
    DEF Step, receiveRequestMeta, receiveResource, receiveScope, receiveSpan,
        receiveLog, beginDump, endDump, convertPanic, printPanic, Unwind, respond, MoveTo, store

\* What a call is about to bring counts as brought.
LEMMA Bringing ==
    ASSUME TypeOK, NEW c \in Call, pc[c] # "idle", n[c] <= Len(sent[c].entries),
           Refused(Entry(c))
    PROVE  /\ RefusedValue(Entry(c).op, hashValue(Entry(c).val))
           /\ Entry(c).op \in {"metric", "point"} => RefusedMetric(MetricIdAt(sent[c], n[c]))
  <1>1. n[c] \in 1 .. Len(sent[c].entries) /\ n[c] <= n[c]
    BY BatchAssumption DEF TypeOK
  <1>2. sent[c].entries[n[c]] = Entry(c)
    BY DEF Entry
  <1> QED
    BY <1>1, <1>2 DEF RefusedValue, RefusedMetric

\* A value that a call registers, or finds under its id, is one that was brought.
LEMMA Registering ==
    ASSUME TypeOK, NEW c \in Call, InLoop(c), Entry(c).op \in {"res", "scope"}, NEW m,
           \A id \in DOMAIN m : m[id] \in Unprintable => RefusedValue(Entry(c).op, id)
    PROVE  LET m2 == Register(m, hashValue(Entry(c).val), Entry(c).val)
           IN  /\ hashValue(Entry(c).val) \in DOMAIN m2
               /\ \A id \in DOMAIN m2 :
                    m2[id] \in Unprintable => RefusedValue(Entry(c).op, id)
  <1> DEFINE v == Entry(c).val
             m2 == Register(m, hashValue(v), v)
  <1>1. \A id \in DOMAIN m2 : \/ id \in DOMAIN m /\ m2[id] = m[id]
                              \/ id = hashValue(v) /\ m2[id] = v
    BY DEF Register
  <1>2. v \in Unprintable => RefusedValue(Entry(c).op, hashValue(v))
    BY Bringing DEF Refused, InLoop
  <1>3. hashValue(v) \in DOMAIN m2
    BY DEF Register
  <1> QED
    BY <1>1, <1>2, <1>3

\* The loop body a call ends with the print of a value that was brought to the
\* place of its entry.
LEMMA LastOfValue ==
    ASSUME TypeOK, NEW c \in Call, InLoop(c), Later, n'[c] = n[c] + 1,
           \/ /\ Entry(c).op \in {"res", "scope"}
              /\ RefusedValue(Entry(c).op, hashValue(Entry(c).val))
           \/ Entry(c).op \in {"span", "log"} /\ Refused(Entry(c))
    PROVE  RefusedLast(c)'
  <1>1. n[c] \in 1 .. Len(sent[c].entries) /\ n'[c] > 1 /\ n'[c] - 1 = n[c]
    BY BatchAssumption DEF TypeOK, InLoop
  <1>2. PICK d \in Call : \E j \in 1 .. Len(sent[d].entries) :
            /\ pc[d] # "idle" /\ j <= n[d]
            /\ Refused(sent[d].entries[j])
            /\ SameObject(c, n[c], d, j)
    <2>1. CASE Entry(c).op \in {"res", "scope"}
      BY <2>1 DEF RefusedValue, SameObject, Entry
    <2>2. CASE Entry(c).op \in {"span", "log"}
      <3>1. SameObject(c, n[c], c, n[c]) /\ n[c] <= n[c] /\ pc[c] # "idle"
        BY <1>1, <2>2 DEF SameObject, Entry, InLoop
      <3> QED
        BY <1>1, <2>2, <3>1 DEF Entry
    <2> QED
      BY <2>1, <2>2
  <1>3. PICK j \in 1 .. Len(sent[d].entries) :
            /\ pc[d] # "idle" /\ j <= n[d]
            /\ Refused(sent[d].entries[j])
            /\ SameObject(c, n[c], d, j)
    BY <1>2
  <1>4. pc'[d] # "idle" /\ j <= n'[d] /\ sent' = sent
    <2>1. n[d] \in Nat /\ n'[d] \in Nat /\ n[d] <= n'[d] /\ j \in Nat
      BY DEF Later
    <2> QED
      BY <1>3, <2>1 DEF Later
  <1>5. SameObject(c, n[c] - 1, d, j)'
    BY <1>1, <1>3, <1>4 DEF SameObject, MetricIdAt, ContextId, Context
  <1> QED
    BY <1>1, <1>3, <1>4, <1>5 DEF RefusedLast

\* What a step of a call adds to the registries was brought.
LEMMA ValuesStep ==
    ASSUME TypeOK, Sourced, NEW c \in Call, Step(c)
    PROVE  /\ \A id \in DOMAIN resources' : resources'[id] \in Unprintable => RefusedValue("res", id)
           /\ \A id \in DOMAIN scopes' : scopes'[id] \in Unprintable => RefusedValue("scope", id)
  <1>1. /\ \A id \in DOMAIN resources : resources[id] \in Unprintable => RefusedValue("res", id)
        /\ \A id \in DOMAIN scopes : scopes[id] \in Unprintable => RefusedValue("scope", id)
    BY DEF Sourced
  <1>2. CASE receiveResource(c)
    <2>1. /\ InLoop(c) /\ Entry(c).op = "res" /\ scopes' = scopes
          /\ resources' = Register(resources, hashValue(Entry(c).val), Entry(c).val)
      BY <1>2 DEF receiveResource, At
    <2> QED
      BY <1>1, <2>1, Registering
  <1>3. CASE receiveScope(c)
    <2>1. /\ InLoop(c) /\ Entry(c).op = "scope" /\ resources' = resources
          /\ scopes' = Register(scopes, hashValue(Entry(c).val), Entry(c).val)
      BY <1>3 DEF receiveScope, At
    <2> QED
      BY <1>1, <2>1, Registering
  <1>4. CASE UNCHANGED <<resources, scopes>>
    BY <1>1, <1>4
  <1> QED
    BY <1>2, <1>3, <1>4
    DEF Step, receiveRequestMeta, receiveSpan, receiveLog, receiveMetric, receivePoint,
        appendPoint, beginDump, endDump, convertPanic, printPanic, Unwind, respond, MoveTo, store

\* A call that a print is about to end has met what was brought.
LEMMA PanicsStep ==
    ASSUME TypeOK, Sourced, NEW c \in Call, Locals(c), Step(c), Later, pc'[c] = "panic"
    PROVE  Verbose /\ RefusedLast(c)'
  <1>1. CASE pc[c] = "panic"
    <2>1. n'[c] = n[c]
      BY <1>1, MoveLemma
    <2> QED
      BY <1>1, <2>1, RefusedStays DEF Sourced
  <1>2. CASE receiveRequestMeta(c)
    <2>1. n[c] = 1 /\ n' = n /\ sent' = sent
      BY <1>2 DEF receiveRequestMeta, Locals
    <2>2. Verbose /\ sent[c].meta \in Unprintable
      BY <1>2 DEF receiveRequestMeta, AfterPrint, TypeOK
    <2> QED
      BY <2>1, <2>2 DEF RefusedLast
  <1>3. ASSUME NEW v, Advance(c, v)
        PROVE  Verbose /\ v \in Unprintable /\ n'[c] = n[c] + 1
    BY <1>3 DEF Advance, AfterPrint, TypeOK
  <1>4. CASE receiveResource(c)
    <2> DEFINE id == hashValue(Entry(c).val)
               known == Register(resources, id, Entry(c).val)
    <2>1. Advance(c, known[id]) /\ InLoop(c) /\ Entry(c).op = "res"
      BY <1>4 DEF receiveResource, At
    <2>2. RefusedValue("res", id)
      BY <1>3, <2>1, Registering DEF Sourced
    <2> QED
      BY <1>3, <2>1, <2>2, LastOfValue
  <1>5. CASE receiveScope(c)
    <2> DEFINE id == hashValue(Entry(c).val)
               known == Register(scopes, id, Entry(c).val)
    <2>1. Advance(c, known[id]) /\ InLoop(c) /\ Entry(c).op = "scope"
      BY <1>5 DEF receiveScope, At
    <2>2. RefusedValue("scope", id)
      BY <1>3, <2>1, Registering DEF Sourced
    <2> QED
      BY <1>3, <2>1, <2>2, LastOfValue
  <1>6. CASE receiveSpan(c) \/ receiveLog(c)
    <2>1. Advance(c, Entry(c).val) /\ InLoop(c) /\ Entry(c).op \in {"span", "log"}
      BY <1>6 DEF receiveSpan, receiveLog, At
    <2>2. Refused(Entry(c))
      BY <1>3, <2>1 DEF Refused
    <2> QED
      BY <1>3, <2>1, <2>2, LastOfValue
  <1>7. CASE receiveMetric(c) \/ appendPoint(c)
    <2>1. pc'[c] \in {"run", "dump"}
      BY <1>7 DEF receiveMetric, appendPoint, AdvanceMetric, TypeOK
    <2> QED
      BY <2>1
  <1>8. CASE receivePoint(c) \/ beginDump(c) \/ endDump(c) \/ respond(c)
    BY <1>8 DEF receivePoint, beginDump, endDump, respond, MoveTo, TypeOK
  <1>9. CASE convertPanic(c) \/ printPanic(c)
    <2>1. pc' = pc
      BY <1>9, PanicLemma DEF TypeOK
    <2> QED
      BY <1>1, <2>1
  <1> QED
    BY <1>2, <1>4, <1>5, <1>6, <1>7, <1>8, <1>9 DEF Step

LEMMA SourcedStep ==
    ASSUME StoreInv, Sourced, [Next]_vars
    PROVE  Sourced'
  <1>1. Later /\ IInv /\ TypeOK
    BY StepIsLater DEF StoreInv, IInv
  <1>2. ASSUME NEW c \in Call, Step(c)
        PROVE  Sourced'
    <2>1. Exact(c) /\ Locals(c)
      BY DEF StoreInv, IInv
    <2>2. /\ \A id \in DOMAIN resources' :
                resources'[id] \in Unprintable => RefusedValue("res", id)'
          /\ \A id \in DOMAIN scopes' :
                scopes'[id] \in Unprintable => RefusedValue("scope", id)'
      BY <1>1, <1>2, ValuesStep, RefusedStays
    <2>3. ASSUME NEW r \in 1 .. Len(heap'), ~Printable(heap'[r]),
                 NEW id, id = hashValue(heap'[r].mi)
          PROVE  RefusedMetric(id)'
      <3>1. RefusedMetric(id)
        <4>1. CASE r \in 1 .. Len(heap) /\ ~Printable(heap[r]) /\ heap'[r].mi = heap[r].mi
          BY <2>3, <4>1 DEF Sourced
        <4>2. CASE /\ pc[c] \in {"run", "append"} /\ n[c] <= Len(sent[c].entries)
                   /\ Entry(c).op \in {"metric", "point"} /\ Refused(Entry(c))
                   /\ MetricIdAt(sent[c], n[c]) = hashValue(heap'[r].mi)
          BY <1>1, <2>3, <4>2, Bringing
        <4> QED
          BY <1>1, <1>2, <2>1, <2>3, <4>1, <4>2, PrintableStep
      <3> QED
        BY <1>1, <3>1, RefusedStays
    <2>4. ASSUME NEW d \in Call, pc'[d] = "panic"
          PROVE  Verbose /\ RefusedLast(d)'
      <3>1. CASE d = c
        BY <1>1, <1>2, <2>1, <2>4, <3>1, PanicsStep
      <3>2. CASE d # c
        <4>1. pc[d] = "panic" /\ n'[d] = n[d]
          BY <1>1, <1>2, <2>4, <3>2, MoveLemma
        <4> QED
          BY <1>1, <4>1, RefusedStays DEF Sourced
      <3> QED
        BY <3>1, <3>2
    <2>5. \A r \in 1 .. Len(heap') :
              ~Printable(heap[r])' => RefusedMetric(hashValue(heap[r].mi))'
      BY <2>3 DEF RefusedMetric, Printable
    <2> QED
      BY <2>2, <2>4, <2>5 DEF Sourced
  <1>3. ASSUME UNCHANGED <<sent, pc, n, heap>>,
               \/ UNCHANGED <<resources, scopes>>
               \/ resources' = <<>> /\ scopes' = <<>>
        PROVE  Sourced'
    <2>1. /\ \A id \in DOMAIN resources' :
                resources'[id] \in Unprintable => RefusedValue("res", id)'
          /\ \A id \in DOMAIN scopes' :
                scopes'[id] \in Unprintable => RefusedValue("scope", id)'
      BY <1>1, <1>3, RefusedStays, EmptyLemma DEF Sourced
    <2>2. \A r \in 1 .. Len(heap') :
              ~Printable(heap[r])' => RefusedMetric(hashValue(heap[r].mi))'
      <3>1. ASSUME NEW r \in 1 .. Len(heap'), NEW id, id = hashValue(heap[r].mi),
                   ~Printable(heap[r])
            PROVE  RefusedMetric(id)'
        BY <1>1, <1>3, <3>1, RefusedStays DEF Sourced
      <3> QED
        BY <1>3, <3>1 DEF RefusedMetric, Printable
    <2>3. \A d \in Call : pc'[d] = "panic" => Verbose /\ RefusedLast(d)'
      BY <1>1, <1>3, RefusedStays DEF Sourced
    <2> QED
      BY <2>1, <2>2, <2>3 DEF Sourced
  <1> QED
    BY <1>2, <1>3 DEF Next, race, reset, noteReset, resetContext, vars, call, store

(***************************************************************************)
(* How the process ends                                                    *)
(***************************************************************************)

\* A panic of a conversion is one of the ways.
LEMMA ConvertEnds ==
    ASSUME NEW c \in Call, convertPanic(c), up' # up
    PROVE  EndedByGrpcPanic'
  <1>1. UNCHANGED <<sent, pc, n>> /\ sent[c].via = "grpc" /\ ConvertPanics(c)
    BY PanicLemma DEF convertPanic, Unwind
  <1>2. ConvertPanics(c)'
    BY <1>1 DEF ConvertPanics, InLoop, Converted, Entry
  <1> QED
    BY <1>1, <1>2 DEF EndedByGrpcPanic

\* A panic of a print has met a string that some call brought to what is
\* printed: the value just stored, or the metric object the call leads to,
\* which has the id of the metric in its batch.
LEMMA PrintEnds ==
    ASSUME StoreInv, Printing, Sourced, NEW c \in Call, printPanic(c), up' # up
    PROVE  Verbose /\ EndedByGrpcPrint'
  <1>1. /\ UNCHANGED <<sent, pc, n>> /\ sent[c].via = "grpc"
        /\ pc[c] \in {"panic", "dumping"}
    BY PanicLemma DEF printPanic, PrintPanics, Unwind
  <1>2. Verbose /\ RefusedLast(c)
    <2>1. CASE pc[c] = "panic"
      BY <2>1 DEF Sourced
    <2>2. CASE pc[c] = "dumping" /\ ~Printable(heap[cur[c]])
      <3>1. Verbose /\ n[c] > 1 /\ LastOp(c) \in {"metric", "point"}
        BY <2>2 DEF Printing
      <3>2. /\ cur[c] \in 1 .. Len(heap)
            /\ hashValue(heap[cur[c]].mi) = MetricIdAt(sent[c], n[c] - 1)
        BY <3>1 DEF StoreInv, IInv, Locals, Exact
      <3>3. RefusedMetric(MetricIdAt(sent[c], n[c] - 1))
        BY <2>2, <3>2 DEF Sourced
      <3> QED
        BY <3>1, <3>3 DEF RefusedMetric, RefusedLast, SameObject, LastOp
    <2> QED
      BY <2>1, <2>2 DEF printPanic, PrintPanics
  <1>3. EndedByGrpcPrint
    BY <1>1, <1>2 DEF EndedByGrpcPrint, RefusedLast
  <1>4. EndedByGrpcPrint' = EndedByGrpcPrint
    BY <1>1 DEF EndedByGrpcPrint, SameObject, MetricIdAt, ContextId, Context
  <1> QED
    BY <1>2, <1>3, <1>4

\* The writer and the printer of one metric object carry the same metric id:
\* the ids of a call are those of its own context, and an object, whether
\* metrics still leads to it or not, is of one id.
LEMMA RaceEnds ==
    ASSUME StoreInv, Printing, NEW c \in Call, NEW d \in Call, race(c, d)
    PROVE  Verbose /\ EndedByRace'
  <1> DEFINE m == cur[d]
  <1>1. /\ Verbose /\ pc[d] = "dumping"
        /\ hashValue(heap[m].mi) = MetricIdAt(sent[d], n[d] - 1)
    BY DEF race, Printing, StoreInv, Exact
  <1>2. IInv /\ TypeOK /\ Exact(c)
    BY DEF StoreInv, IInv
  <1>3. Writes(c, m)
    BY DEF race
  <1>4. /\ pc[c] \in {"run", "append"} /\ n[c] <= Len(sent[c].entries)
        /\ Entry(c).op \in {"metric", "point"}
        /\ hashValue(heap[m].mi) = MetricIdAt(sent[c], n[c])
    <2>1. CASE At(c, "metric") /\ LET e == Entry(c)
                                      id == hashValue(MetricIdentity(ids[c].res, ids[c].scope, e.name))
                                  IN  id \in DOMAIN metrics /\ metrics[id] = m
      <3> DEFINE id == hashValue(MetricIdentity(ids[c].res, ids[c].scope, Entry(c).name))
      <3>1. pc[c] = "run" /\ n[c] <= Len(sent[c].entries) /\ Entry(c).op = "metric"
        BY <2>1 DEF At, InLoop
      <3>2. id = MetricIdAt(sent[c], n[c])
        BY <1>2, <3>1, StoresContext
      <3>3. hashValue(heap[m].mi) = id
        BY <1>2, <2>1 DEF IInv, FiledUnderOwnHash, Metric
      <3> QED
        BY <3>1, <3>2, <3>3
    <2>2. CASE cur[c] = m /\ (At(c, "point") \/ pc[c] = "append")
      <3>1. /\ pc[c] \in {"run", "append"} /\ n[c] <= Len(sent[c].entries)
            /\ Entry(c).op = "point"
        BY <1>2, <2>2 DEF At, InLoop, TypeOK
      <3> QED
        BY <1>2, <2>2, <3>1, StoresContext
    <2> QED
      BY <1>3, <2>1, <2>2 DEF Writes
  <1>5. EndedByRace
    BY <1>1, <1>4 DEF EndedByRace
  <1>6. EndedByRace' = EndedByRace
    <2>1. UNCHANGED <<sent, pc, n>>
      BY DEF race, call
    <2> QED
      BY <2>1 DEF EndedByRace, Entry, MetricIdAt, ContextId, Context
  <1> QED
    BY <1>1, <1>5, <1>6

LEMMA EndsStep ==
    ASSUME StoreInv, Printing, Sourced, EndsOverShared, [Next]_vars
    PROVE  EndsOverShared'
  <1>1. CASE UNCHANGED vars
    <2>1. up' = up /\ UNCHANGED <<sent, pc, n>>
      BY <1>1 DEF vars, call
    <2>2. EndedByGrpcPanic' = EndedByGrpcPanic
      BY <2>1 DEF EndedByGrpcPanic, ConvertPanics, InLoop, Converted, Entry
    <2>3. EndedByGrpcPrint' = EndedByGrpcPrint
      BY <2>1 DEF EndedByGrpcPrint, SameObject, MetricIdAt, ContextId, Context
    <2>4. EndedByRace' = EndedByRace
      BY <2>1 DEF EndedByRace, Entry, MetricIdAt, ContextId, Context
    <2> QED
      BY <2>1, <2>2, <2>3, <2>4 DEF EndsOverShared
  <1>2. CASE up' = up /\ Next
    BY <1>2 DEF Next, EndsOverShared
  <1>3. ASSUME NEW c \in Call, Step(c), up' # up
        PROVE  convertPanic(c) \/ printPanic(c)
    <2>1. \/ receiveResource(c) \/ receiveScope(c) \/ receiveSpan(c)
          \/ receiveLog(c) \/ receiveMetric(c) \/ appendPoint(c)
          => up' = up
      BY BodyAdvances
    <2>2. receiveRequestMeta(c) \/ receivePoint(c) \/ beginDump(c) \/ endDump(c) \/ respond(c)
          => up' = up
      BY DEF receiveRequestMeta, receivePoint, beginDump, endDump, respond, MoveTo
    <2> QED
      BY <1>3, <2>1, <2>2 DEF Step
  <1>4. reset => up' = up
    BY DEF reset, noteReset
  <1>5. CASE up' # up /\ Next
    BY <1>3, <1>4, <1>5, ConvertEnds, PrintEnds, RaceEnds DEF Next, EndsOverShared
  <1> QED
    BY <1>1, <1>2, <1>5

\* For any calls, batches, hash function and resets: what ends the process can
\* be told from what the calls carry.  Without -verbose it is a value one gRPC
\* call carries; with it also a string brought to an object that a gRPC call
\* stores, or two calls at one metric.  Pointers, ids and what is left over by
\* a reset never bring together calls that carry different objects.
THEOREM EndsShared == Spec => []EndsOverShared
  <1>1. Init => Printing /\ Sourced /\ EndsOverShared
    <2>1. ASSUME Init
          PROVE  /\ DOMAIN resources = {} /\ DOMAIN scopes = {} /\ Len(heap) = 0
                 /\ up /\ \A c \in Call : pc[c] = "idle"
      BY <2>1, EmptyLemma DEF Init
    <2> QED
      BY <2>1 DEF Printing, Sourced, EndsOverShared
  <1>2. StoreInv /\ Printing /\ Sourced /\ EndsOverShared /\ [Next]_vars
            => (Printing /\ Sourced /\ EndsOverShared)'
    <2>1. ASSUME Printing, UNCHANGED vars
          PROVE  Printing'
      BY <2>1 DEF vars, call, Printing, LastOp
    <2>2. StoreInv => TypeOK
      BY DEF StoreInv, IInv
    <2> QED
      BY <2>1, <2>2, PrintingStep, SourcedStep, EndsStep
  <1> QED
    BY <1>1, <1>2, Invariant, PTL DEF Spec
=============================================================================
