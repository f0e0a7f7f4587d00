------------------------- MODULE StorageKeptProofs -------------------------
(***************************************************************************)
(* Proofs that Storage keeps what it is sent, once, in order and under the *)
(* right context, for any number of calls, any batches, any hash function  *)
(* and any number of resets.                                               *)
(***************************************************************************)
EXTENDS StorageProofs, FiniteSetTheorems

(***************************************************************************)
(* The context of an entry, and the entries that are stored                *)
(***************************************************************************)

\* The context of an entry is the entry itself, or the context of the entry
\* before it.
LEMMA ContextLemma ==
    ASSUME NEW b, NEW i \in Nat \ {0}, NEW op
    PROVE  /\ b.entries[i].op = op => Context(b, i, op) = i
           /\ b.entries[i].op # op => Context(b, i, op) = Context(b, i - 1, op)
  <1>1. ASSUME b.entries[i].op = op
        PROVE  Context(b, i, op) = i
    <2> DEFINE S == {j \in 1 .. i : b.entries[j].op = op}
    <2>1. i \in S /\ \A j \in S : j \in Nat /\ i >= j
      BY <1>1
    <2> HIDE DEF S
    <2>2. \A x \in S : (\A j \in S : x >= j) => x = i
      BY <2>1
    <2>3. Max(S) = i
      BY <2>1, <2>2 DEF Max
    <2> QED
      BY <2>3 DEF Context, S
  <1>2. ASSUME b.entries[i].op # op
        PROVE  Context(b, i, op) = Context(b, i - 1, op)
    <2>1. {j \in 1 .. i : b.entries[j].op = op} = {j \in 1 .. i - 1 : b.entries[j].op = op}
      BY <1>2
    <2> QED
      BY <2>1 DEF Context
  <1> QED
    BY <1>1, <1>2

\* What StoredBy lists.
LEMMA StoredMember ==
    ASSUME NEW C, NEW op, NEW x
    PROVE  x \in StoredBy(C, op) <=>
              \E c \in C : \E i \in Passed(c) :
                x = <<c, i>> /\ sent[c].entries[i].op = op
  <1>1. ASSUME NEW c \in C, NEW i \in Passed(c), x = <<c, i>>, sent[c].entries[i].op = op
        PROVE  x \in StoredBy(C, op)
    <2>1. x \in {c} \X Passed(c) /\ x[1] = c /\ x[2] = i
      BY <1>1
    <2> QED
      BY <1>1, <2>1 DEF StoredBy
  <1>2. ASSUME x \in StoredBy(C, op)
        PROVE  \E c \in C : \E i \in Passed(c) : x = <<c, i>> /\ sent[c].entries[i].op = op
    <2>1. PICK c \in C : x \in {c} \X Passed(c) /\ sent[x[1]].entries[x[2]].op = op
      BY <1>2 DEF StoredBy
    <2> QED
      BY <2>1
  <1> QED
    BY <1>1, <1>2

\* The same after a step.
LEMMA StoredMemberNext ==
    ASSUME NEW op, NEW x
    PROVE  x \in StoredBy(Remaining, op)' <=>
              \E c \in Remaining' : \E i \in Passed(c)' :
                x = <<c, i>> /\ sent'[c].entries[i].op = op
  <1>1. ASSUME NEW c \in Remaining', NEW i \in Passed(c)', x = <<c, i>>,
               sent'[c].entries[i].op = op
        PROVE  x \in StoredBy(Remaining, op)'
    <2>1. x \in {c} \X Passed(c)' /\ x[1] = c /\ x[2] = i
      BY <1>1
    <2> QED
      BY <1>1, <2>1 DEF StoredBy
  <1>2. ASSUME x \in StoredBy(Remaining, op)'
        PROVE  \E c \in Remaining' : \E i \in Passed(c)' :
                  x = <<c, i>> /\ sent'[c].entries[i].op = op
    <2>1. PICK c \in Remaining' : x \in {c} \X Passed(c)' /\ sent'[x[1]].entries[x[2]].op = op
      BY <1>2 DEF StoredBy
    <2> QED
      BY <2>1
  <1> QED
    BY <1>1, <1>2

\* What SentTo lists.
LEMMA SentMember ==
    ASSUME NEW C, NEW id, NEW e
    PROVE  e \in SentTo(C, id) <=>
              \E c \in C : \E i \in Passed(c) :
                /\ sent[c].entries[i].op = "metric" /\ MetricIdAt(sent[c], i) = id
                /\ e = sent[c].entries[i]
  <1> DEFINE S == {y \in StoredBy(C, "metric") : MetricIdAt(sent[y[1]], y[2]) = id}
  <1>1. e \in SentTo(C, id) <=> \E y \in S : e = sent[y[1]].entries[y[2]]
    BY DEF SentTo
  <1>2. ASSUME NEW y \in S, e = sent[y[1]].entries[y[2]]
        PROVE  \E c \in C : \E i \in Passed(c) :
                  /\ sent[c].entries[i].op = "metric" /\ MetricIdAt(sent[c], i) = id
                  /\ e = sent[c].entries[i]
    <2>1. PICK c \in C : \E i \in Passed(c) : y = <<c, i>> /\ sent[c].entries[i].op = "metric"
      BY StoredMember
    <2>2. PICK i \in Passed(c) : y = <<c, i>> /\ sent[c].entries[i].op = "metric"
      BY <2>1
    <2>3. y[1] = c /\ y[2] = i
      BY <2>2
    <2> QED
      BY <1>2, <2>2, <2>3
  <1>3. ASSUME NEW c \in C, NEW i \in Passed(c), sent[c].entries[i].op = "metric",
               MetricIdAt(sent[c], i) = id, e = sent[c].entries[i]
        PROVE  \E y \in S : e = sent[y[1]].entries[y[2]]
    <2> DEFINE y == <<c, i>>
    <2>1. y \in StoredBy(C, "metric") /\ y[1] = c /\ y[2] = i
      BY <1>3, StoredMember
    <2> QED
      BY <1>3, <2>1
  <1> QED
    BY <1>1, <1>2, <1>3

\* A step of a call leaves its entry behind, or stays at it.
Passes(c) ==
    /\ pc[c] \in {"run", "append"} /\ pc'[c] \in {"run", "panic", "dump"}
    /\ n[c] \in 1 .. Len(sent[c].entries) /\ n'[c] = n[c] + 1

Remains(c) == n'[c] = n[c] /\ pc'[c] # "idle"

\* Which steps do which.
LEMMA PassLemma ==
    ASSUME TypeOK, NEW c \in Call, Step(c)
    PROVE  /\ \/ receiveResource(c) \/ receiveScope(c) \/ receiveSpan(c) \/ receiveLog(c)
              \/ receiveMetric(c) \/ appendPoint(c)
              => Passes(c)
           /\ \/ receiveRequestMeta(c) \/ receivePoint(c) \/ beginDump(c) \/ endDump(c)
              \/ convertPanic(c) \/ printPanic(c) \/ respond(c)
              => Remains(c)
  <1>1. Len(sent[c].entries) \in Nat /\ n[c] \in Nat \ {0}
    BY BatchAssumption DEF TypeOK
  <1>2. ASSUME \/ receiveResource(c) \/ receiveScope(c) \/ receiveSpan(c) \/ receiveLog(c)
               \/ receiveMetric(c) \/ appendPoint(c)
        PROVE  Passes(c)
    <2>1. Advanced(c) /\ (InLoop(c) \/ pc[c] = "append")
      BY <1>2, BodyAdvances
    <2>2. n'[c] = n[c] + 1 /\ pc'[c] \in {"run", "panic", "dump"}
      BY <2>1 DEF Advanced, TypeOK
    <2>3. pc[c] \in {"run", "append"} /\ n[c] <= Len(sent[c].entries)
      BY <2>1 DEF InLoop, TypeOK
    <2> QED
      BY <1>1, <2>2, <2>3 DEF Passes
  <1>5. ASSUME \/ receiveRequestMeta(c) \/ receivePoint(c) \/ beginDump(c) \/ endDump(c)
               \/ respond(c)
        PROVE  Remains(c)
    BY <1>5 DEF receiveRequestMeta, AfterPrint, receivePoint, beginDump, endDump, respond,
                MoveTo, Remains, TypeOK
  <1>6. ASSUME convertPanic(c) \/ printPanic(c)
        PROVE  Remains(c)
    <2>1. n' = n /\ pc[c] # "idle" /\ (pc' = pc \/ pc' = [pc EXCEPT ![c] = "failed"])
      BY <1>6, PanicLemma
    <2> QED
      BY <2>1 DEF Remains, TypeOK
  <1> QED
    BY <1>2, <1>5, <1>6

\* What a step adds to the entries that are stored.
LEMMA StoredStep ==
    ASSUME IInv, NEW c \in Call, Step(c), NEW op
    PROVE  LET x == <<c, n[c]>>
               new == Passes(c) /\ Entry(c).op = op
           IN  /\ new => /\ StoredBy(Remaining, op)' = StoredBy(Remaining, op) \cup {x}
                         /\ x \notin StoredBy(Remaining, op)
               /\ ~ new => StoredBy(Remaining, op)' = StoredBy(Remaining, op)
  <1> DEFINE x == <<c, n[c]>>
             Old(y) == \E d \in Remaining : \E i \in Passed(d) :
                          y = <<d, i>> /\ sent[d].entries[i].op = op
             New(y) == \E d \in Remaining' : \E i \in Passed(d)' :
                          y = <<d, i>> /\ sent'[d].entries[i].op = op
  <1>1. /\ sent' = sent /\ cut' = cut
        /\ \A d \in Call : d # c => pc'[d] = pc[d] /\ n'[d] = n[d]
    BY StepIsLocal DEF IInv
  <1>2. Passes(c) \/ Remains(c)
    BY PassLemma DEF IInv, Step
  <1>3. pc[c] = "idle" => n[c] = 1
    BY DEF IInv, Locals
  <1>4. pc[c] \notin {"idle", "done", "failed"} => cut[c] # "after"
    BY DEF IInv, Locals
  <1>5. n[c] \in Nat \ {0} /\ Len(sent[c].entries) \in Nat
    BY BatchAssumption DEF IInv, TypeOK
  <1>6. \A d \in Call : d # c => (Passed(d)' = Passed(d) /\ (d \in Remaining' <=> d \in Remaining))
    BY <1>1 DEF Passed, Remaining
  <1>7. Passes(c) => /\ Passed(c)' = Passed(c) \cup {n[c]} /\ n[c] \notin Passed(c)
                     /\ c \in Remaining /\ c \in Remaining'
    BY <1>1, <1>4, <1>5 DEF Passes, Passed, Remaining
  <1>8. Remains(c) => /\ Passed(c)' = Passed(c)
                      /\ Passed(c) = {} \/ (c \in Remaining' <=> c \in Remaining)
    BY <1>1, <1>3, <1>5 DEF Remains, Passed, Remaining
  <1>9. \A y : New(y) <=> Old(y) \/ (Passes(c) /\ Entry(c).op = op /\ y = x)
    BY <1>1, <1>2, <1>6, <1>7, <1>8 DEF Entry, Remaining
  <1>10. \A y : (y \in StoredBy(Remaining, op) <=> Old(y))
    BY StoredMember
  <1>11. \A y : (y \in StoredBy(Remaining, op)' <=> New(y))
    BY StoredMemberNext
  <1>12. Passes(c) => ~ Old(x)
    BY <1>7 
  <1> QED
    BY <1>9, <1>10, <1>11, <1>12

(***************************************************************************)
(* The ids and the pointer of a call are those of its context              *)
(***************************************************************************)

\* The ids of the context of an entry, from those of the entry before it.
LEMMA ContextIdLemma ==
    ASSUME NEW b, NEW i \in Nat \ {0}
    PROVE  /\ \/ /\ b.entries[i].op = "res"
                 /\ ContextId(b, i, "res") = hashValue(b.entries[i].val)
              \/ /\ b.entries[i].op # "res"
                 /\ ContextId(b, i, "res") = ContextId(b, i - 1, "res")
           /\ \/ /\ b.entries[i].op = "scope"
                 /\ ContextId(b, i, "scope") = hashValue(b.entries[i].val)
              \/ /\ b.entries[i].op # "scope"
                 /\ ContextId(b, i, "scope") = ContextId(b, i - 1, "scope")
           /\ b.entries[i].op = "metric" =>
                MetricIdAt(b, i) = hashValue(MetricIdentity(ContextId(b, i - 1, "res"),
                                                ContextId(b, i - 1, "scope"), b.entries[i].name))
           /\ b.entries[i].op # "metric" => MetricIdAt(b, i) = MetricIdAt(b, i - 1)
  <1>1. \A op : b.entries[i].op = op => ContextId(b, i, op) = hashValue(b.entries[i].val)
    BY ContextLemma DEF ContextId
  <1>2. \A op : b.entries[i].op # op => ContextId(b, i, op) = ContextId(b, i - 1, op)
    BY ContextLemma DEF ContextId
  <1>3. ASSUME b.entries[i].op = "metric"
        PROVE  MetricIdAt(b, i) = hashValue(MetricIdentity(ContextId(b, i - 1, "res"),
                                                ContextId(b, i - 1, "scope"), b.entries[i].name))
    <2>1. Context(b, i, "metric") = i
      BY <1>3, ContextLemma
    <2>2. /\ ContextId(b, i, "res") = ContextId(b, i - 1, "res")
          /\ ContextId(b, i, "scope") = ContextId(b, i - 1, "scope")
      BY <1>2, <1>3
    <2> QED
      BY <2>1, <2>2 DEF MetricIdAt
  <1>4. ASSUME b.entries[i].op # "metric"
        PROVE  MetricIdAt(b, i) = MetricIdAt(b, i - 1)
    <2>1. Context(b, i, "metric") = Context(b, i - 1, "metric")
      BY <1>4, ContextLemma
    <2> QED
      BY <2>1 DEF MetricIdAt
  <1> QED
    BY <1>1, <1>2, <1>3, <1>4

\* What a call is about to store has the ids of its context, and goes to the
\* metric of its context.
LEMMA StoresContext ==
    ASSUME IInv, NEW c \in Call, Exact(c), pc[c] \in {"run", "append"},
           n[c] <= Len(sent[c].entries)
    PROVE  /\ Entry(c).op \notin {"res", "scope"} =>
                /\ ids[c].req = hashValue(sent[c].meta)
                /\ ids[c].res = ContextId(sent[c], n[c], "res")
                /\ ids[c].scope = ContextId(sent[c], n[c], "scope")
                /\ WithContext(c, Entry(c).val) = AsStored(sent[c], n[c])
           /\ Entry(c).op = "metric" =>
                hashValue(MetricIdentity(ids[c].res, ids[c].scope, Entry(c).name))
                    = MetricIdAt(sent[c], n[c])
           /\ Entry(c).op = "point" =>
                LET id == MetricIdAt(sent[c], n[c])
                IN  /\ cur[c] \in 1 .. Len(heap)
                    /\ hashValue(heap[cur[c]].mi) = id
                    /\ cut[c] = "none" => id \in DOMAIN metrics /\ metrics[id] = cur[c]
                    /\ \A k \in DOMAIN metrics : metrics[k] = cur[c] => k = id
  <1> DEFINE b == sent[c]
             i == n[c]
  <1>1. i \in Nat \ {0} /\ Entry(c) = b.entries[i]
    BY DEF IInv, TypeOK, Entry
  <1>2. /\ Entry(c).op # "res" => i > 1
        /\ Entry(c).op \notin {"res", "scope"} => LastOp(c) # "res"
        /\ Entry(c).op = "point" => LastOp(c) \in {"metric", "point"}
    BY NestingLemma DEF IInv
  <1>3. ids[c].req = hashValue(b.meta)
    BY DEF IInv, Locals
  <1>4. Entry(c).op \notin {"res", "scope"} =>
            ids[c].res = ContextId(b, i, "res") /\ ids[c].scope = ContextId(b, i, "scope")
    BY <1>1, <1>2, ContextIdLemma DEF Exact
  <1>5. Entry(c).op \notin {"res", "scope"} => WithContext(c, Entry(c).val) = AsStored(b, i)
    BY <1>1, <1>3, <1>4 DEF WithContext, AsStored
  <1>6. Entry(c).op = "metric" =>
            hashValue(MetricIdentity(ids[c].res, ids[c].scope, Entry(c).name)) = MetricIdAt(b, i)
    BY <1>1, <1>2, ContextIdLemma DEF Exact
  <1>7. ASSUME Entry(c).op = "point"
        PROVE  LET id == MetricIdAt(b, i)
               IN  /\ cur[c] \in 1 .. Len(heap)
                   /\ hashValue(heap[cur[c]].mi) = id
                   /\ cut[c] = "none" => id \in DOMAIN metrics /\ metrics[id] = cur[c]
                   /\ \A k \in DOMAIN metrics : metrics[k] = cur[c] => k = id
    <2>1. MetricIdAt(b, i) = MetricIdAt(b, i - 1)
      BY <1>1, <1>7, ContextIdLemma
    <2>2. cur[c] \in 1 .. Len(heap)
      BY <1>2, <1>7 DEF IInv, Locals
    <2>3. \A k \in DOMAIN metrics : hashValue(heap[metrics[k]].mi) = k
      BY DEF IInv, FiledUnderOwnHash, Metric
    <2> QED
      BY <1>2, <1>7, <2>1, <2>2, <2>3 DEF Exact
  <1> QED
    BY <1>3, <1>4, <1>5, <1>6, <1>7

\* A step of another call leaves the context of this one alone.
LEMMA ExactOfOthers ==
    ASSUME IInv, NEW c \in Call, Exact(c), Next, resets' = resets,
           n'[c] = n[c], ids'[c] = ids[c], cur'[c] = cur[c], sent' = sent, cut' = cut
    PROVE  Exact(c)'
  <1>1. LastOp(c)' = LastOp(c)
    BY DEF LastOp
  <1>2. Keeps(metrics, metrics')
    BY RegistriesGrow DEF IInv
  <1>3. n[c] > 1 /\ LastOp(c) \in {"metric", "point"} => heap'[cur[c]].mi = heap[cur[c]].mi
    <2>1. HeapGrows
      BY HeapStep DEF IInv
    <2>2. n[c] > 1 /\ LastOp(c) \in {"metric", "point"} => cur[c] \in 1 .. Len(heap)
      BY DEF IInv, Locals
    <2> QED
      BY <2>1, <2>2 DEF HeapGrows, MetricGrows
  <1> QED
    BY <1>1, <1>2, <1>3 DEF Exact, Keeps

\* A call that goes to its next entry enters the context of that entry.
LEMMA ExactOfAdvance ==
    ASSUME IInv, NEW c \in Call, Exact(c), Next, resets' = resets,
           Passes(c), sent' = sent, cut' = cut,
           Entry(c).op = "res" => ids'[c].res = hashValue(Entry(c).val),
           Entry(c).op # "res" => ids'[c].res = ids[c].res,
           Entry(c).op = "scope" => ids'[c].scope = hashValue(Entry(c).val),
           Entry(c).op \notin {"res", "scope"} => ids'[c].scope = ids[c].scope,
           Entry(c).op = "metric" =>
                LET id == MetricIdAt(sent[c], n[c])
                IN  /\ hashValue(heap'[cur'[c]].mi) = id
                    /\ cut[c] = "none" => id \in DOMAIN metrics' /\ metrics'[id] = cur'[c],
           Entry(c).op = "point" => cur'[c] = cur[c]
    PROVE  Exact(c)'
  <1> DEFINE b == sent[c]
             i == n[c]
  <1>1. i \in Nat \ {0} /\ i <= Len(b.entries) /\ n'[c] = i + 1 /\ n'[c] - 1 = i /\ n'[c] > 1
    <2>1. i \in Nat \ {0} /\ n'[c] = i + 1 /\ i \in 1 .. Len(b.entries)
      BY DEF IInv, TypeOK, Passes
    <2>2. Len(b.entries) \in Nat
      BY BatchAssumption DEF IInv, TypeOK
    <2> HIDE DEF b, i
    <2> QED
      BY <2>1, <2>2
  <1>2. LastOp(c)' = Entry(c).op /\ Entry(c) = b.entries[i]
    BY <1>1 DEF LastOp, Entry
  <1>3. /\ Entry(c).op # "res" => i > 1
        /\ Entry(c).op \notin {"res", "scope"} => LastOp(c) # "res"
    BY <1>1, NestingLemma DEF IInv
  <1>4. ids'[c].res = ContextId(b, i, "res")
    BY <1>1, <1>2, <1>3, ContextIdLemma DEF Exact
  <1>5. Entry(c).op # "res" => ids'[c].scope = ContextId(b, i, "scope")
    BY <1>1, <1>2, <1>3, ContextIdLemma DEF Exact
  <1>6. Entry(c).op = "point" =>
            LET id == MetricIdAt(b, i)
            IN  /\ hashValue(heap'[cur'[c]].mi) = id
                /\ cut[c] = "none" => id \in DOMAIN metrics' /\ metrics'[id] = cur'[c]
    <2>1. HeapGrows /\ Keeps(metrics, metrics')
      BY HeapStep, RegistriesGrow DEF IInv
    <2> QED
      BY <1>1, <2>1, StoresContext DEF Passes, HeapGrows, MetricGrows, Keeps
  <1> QED
    BY <1>1, <1>2, <1>4, <1>5, <1>6 DEF Exact

\* So every step keeps the calls in their contexts.
LEMMA ExactStep ==
    ASSUME IInv, \A c \in Call : Exact(c), Next, NEW d \in Call
    PROVE  Exact(d)'
  <1>1. CASE reset
    <2>1. /\ n' = n /\ ids' = ids /\ cur' = cur /\ sent' = sent /\ heap' = heap
          /\ pc[d] # "idle" => cut'[d] # "none"
      BY <1>1 DEF reset, noteReset, resetContext, call
    <2>2. LastOp(d)' = LastOp(d)
      BY <2>1 DEF LastOp
    <2>3. n[d] > 1 => pc[d] # "idle"
      BY DEF IInv, Locals
    <2> QED
      BY <2>1, <2>2, <2>3 DEF Exact
  <1>2. ASSUME NEW c, NEW e, race(c, e)
        PROVE  Exact(d)'
    BY <1>2, ExactOfOthers DEF race, call
  <1>3. ASSUME NEW c \in Call, Step(c), c # d
        PROVE  Exact(d)'
    BY <1>3, StepIsLocal, ExactOfOthers DEF IInv
  <1>4. ASSUME Step(d)
        PROVE  Exact(d)'
    <2>1. sent' = sent /\ cut' = cut /\ resets' = resets
      BY <1>4, StepIsLocal DEF IInv
    <2>2. CASE receiveRequestMeta(d)
      <3>1. n'[d] = 1
        BY <2>2 DEF receiveRequestMeta, IInv, Locals
      <3> QED
        BY <3>1 DEF Exact
    <2>3. CASE receiveResource(d) \/ receiveScope(d) \/ receiveSpan(d) \/ receiveLog(d)
      <3>1. Passes(d)
        BY <1>4, <2>3, PassLemma DEF IInv
      <3>2. /\ Entry(d).op \in {"res", "scope", "span", "log"}
            /\ Entry(d).op = "res" => ids'[d].res = hashValue(Entry(d).val)
            /\ Entry(d).op # "res" => ids'[d].res = ids[d].res
            /\ Entry(d).op = "scope" => ids'[d].scope = hashValue(Entry(d).val)
            /\ Entry(d).op \notin {"res", "scope"} => ids'[d].scope = ids[d].scope
        BY <2>3 DEF receiveResource, receiveScope, receiveSpan, receiveLog, At, IInv, TypeOK
      <3> QED
        BY <2>1, <3>1, <3>2, ExactOfAdvance
    <2>4. CASE receiveMetric(d)
      <3> DEFINE mi == MetricIdentity(ids[d].res, ids[d].scope, Entry(d).name)
                 id == hashValue(mi)
      <3>1. Passes(d) /\ Entry(d).op = "metric" /\ ids' = ids
        BY <1>4, <2>4, PassLemma DEF IInv, receiveMetric, At
      <3>2. id = MetricIdAt(sent[d], n[d])
        BY <3>1, StoresContext DEF Passes
      <3>3. id \in DOMAIN metrics' /\ metrics'[id] = cur'[d]
        BY <2>4 DEF receiveMetric, Register, IInv, TypeOK
      <3>4. hashValue(heap'[cur'[d]].mi) = id
        <4>1. FiledUnderOwnHash'
          BY <1>4, FiledStep
        <4> QED
          BY <3>3, <4>1 DEF FiledUnderOwnHash, Metric
      <3> QED
        BY <2>1, <3>1, <3>2, <3>3, <3>4, ExactOfAdvance
    <2>5. CASE appendPoint(d)
      <3>1. Passes(d) /\ Entry(d).op = "point" /\ ids' = ids /\ cur' = cur
        BY <1>4, <2>5, PassLemma DEF IInv, appendPoint, TypeOK
      <3> QED
        BY <2>1, <3>1, ExactOfAdvance
    <2>6. CASE \/ receivePoint(d) \/ beginDump(d) \/ endDump(d) \/ respond(d)
               \/ convertPanic(d) \/ printPanic(d)
      <3>1. n' = n /\ ids' = ids /\ cur' = cur
        BY <2>6 DEF receivePoint, beginDump, endDump, respond, convertPanic, printPanic, Unwind, MoveTo
      <3> QED
        BY <2>1, <3>1, ExactOfOthers
    <2> QED
      BY <1>4, <2>2, <2>3, <2>4, <2>5, <2>6 DEF Step
  <1> QED
    BY <1>1, <1>2, <1>3, <1>4 DEF Next

(***************************************************************************)
(* What is stored can be read                                              *)
(***************************************************************************)

\* The kinds of entries there are.
LEMMA Kinds ==
    ASSUME TypeOK, NEW c \in Call, NEW i \in 1 .. Len(sent[c].entries)
    PROVE  sent[c].entries[i].op \in {"res", "scope", "span", "log", "metric", "point"}
  <1>1. WellNested(sent[c].entries)
    BY BatchAssumption DEF TypeOK
  <1> QED
    BY <1>1 DEF WellNested, Follows

\* What can be read once, can be read until the next reset.
LEMMA VisibleStays ==
    ASSUME TypeOK, Lists, Next, resets' = resets, NEW b, NEW i,
           b.entries[i].op \in {"res", "scope", "span", "log", "metric", "point"},
           IsVisible(b, i)
    PROVE  IsVisible(b, i)'
  <1> DEFINE e == b.entries[i]
             id == MetricIdAt(b, i)
             st == hashValue(e.attr)
  <1>1. /\ Keeps(resources, resources') /\ Keeps(scopes, scopes') /\ Keeps(metrics, metrics')
        /\ Keeps(logs, logs')
        /\ \A t \in DOMAIN traces : t \in DOMAIN traces' /\ Keeps(traces[t], traces'[t])
    BY RegistriesGrow
  <1>2. CASE e.op = "res"
    BY <1>1, <1>2 DEF IsVisible, Keeps
  <1>3. CASE e.op = "scope"
    BY <1>1, <1>3 DEF IsVisible, Keeps
  <1>4. CASE e.op = "span"
    BY <1>1, <1>4 DEF IsVisible, Keeps
  <1>5. CASE e.op = "log"
    <2>1. PICK k \in 1 .. Len(logs) : logs[k] = AsStored(b, i)
      BY <1>5 DEF IsVisible
    <2>2. DOMAIN logs = 1 .. Len(logs)
      BY DEF Lists, IsList
    <2>3. IsList(logs')
      BY LocationsStep DEF Locations
    <2>4. DOMAIN logs' = 1 .. Len(logs')
      BY <2>3 DEF IsList
    <2>5. k \in 1 .. Len(logs') /\ logs'[k] = AsStored(b, i)
      BY <1>1, <2>1, <2>2, <2>4 DEF Keeps
    <2> QED
      BY <1>5, <2>5 DEF IsVisible
  <1>6. CASE e.op = "metric"
    BY <1>1, <1>6 DEF IsVisible, Keeps
  <1>7. CASE e.op = "point"
    <2>1. /\ id \in DOMAIN metrics /\ st \in DOMAIN Metric(id).streams
          /\ \E k \in DOMAIN Points(id, st) : Points(id, st)[k] = AsPoint(b, i)
      BY <1>7 DEF IsVisible
    <2>2. PICK k \in DOMAIN Points(id, st) : Points(id, st)[k] = AsPoint(b, i)
      BY <2>1
    <2>3. id \in DOMAIN metrics' /\ metrics'[id] = metrics[id] /\ metrics[id] \in 1 .. Len(heap)
      BY <1>1, <2>1 DEF Keeps, TypeOK
    <2>4. MetricGrows(heap[metrics[id]], heap'[metrics[id]])
      BY <2>3, HeapStep DEF HeapGrows
    <2>5. /\ st \in DOMAIN heap'[metrics[id]].streams
          /\ Keeps(Points(id, st), heap'[metrics[id]].streams[st].points)
      BY <2>1, <2>4 DEF MetricGrows, Metric, Points
    <2>6. /\ k \in DOMAIN heap'[metrics[id]].streams[st].points
          /\ heap'[metrics[id]].streams[st].points[k] = AsPoint(b, i)
      BY <2>2, <2>5 DEF Keeps
    <2> QED
      BY <1>7, <2>3, <2>5, <2>6 DEF IsVisible, Metric, Points
  <1> QED
    BY <1>2, <1>3, <1>4, <1>5, <1>6, <1>7

\* The point a call appends is the last one of its stream.
LEMMA PointAppended ==
    ASSUME IInv, NEW c \in Call, appendPoint(c)
    PROVE  LET r == cur[c]
               st == hashValue(Entry(c).attr)
           IN  /\ r \in 1 .. Len(heap) /\ st \in DOMAIN heap[r].streams
               /\ Len(heap') = Len(heap) /\ Len(heap) \in Nat
               /\ IsList(heap[r].streams[st].points)
               /\ \A q \in 1 .. Len(heap) : q # r => heap'[q] = heap[q]
               /\ DOMAIN heap'[r] = DOMAIN heap[r]
               /\ heap'[r].mi = heap[r].mi /\ heap'[r].desc = heap[r].desc
               /\ heap'[r].meta = heap[r].meta /\ heap'[r].conflict = heap[r].conflict
               /\ DOMAIN heap'[r].streams = DOMAIN heap[r].streams
               /\ \A s \in DOMAIN heap[r].streams :
                    s # st => heap'[r].streams[s] = heap[r].streams[s]
               /\ heap'[r].streams[st].points =
                    Append(heap[r].streams[st].points,
                           [val |-> Entry(c).val, req |-> ids[c].req])
  <1> DEFINE r == cur[c]
             e == Entry(c)
             st == hashValue(e.attr)
             p == [val |-> e.val, req |-> ids[c].req]
             m == [heap[r] EXCEPT !.streams[st].points = Append(@, p)]
  <1>1. n[c] <= Len(sent[c].entries) /\ e.op = "point" /\ pc[c] = "append"
    BY DEF appendPoint, IInv, TypeOK
  <1>2. r \in 1 .. Len(heap) /\ st \in DOMAIN heap[r].streams
    BY <1>1, NestingLemma DEF IInv, Locals
  <1>3. heap' = [heap EXCEPT ![r] = m]
    BY DEF appendPoint
  <1>4. /\ Len(heap) \in Nat /\ Len(heap') = Len(heap)
        /\ \A q \in 1 .. Len(heap) : heap'[q] = IF q = r THEN m ELSE heap[q]
    BY <1>3, UpdateLemma DEF IInv, Lists
  <1>5. MetricShape(heap[r])
    BY <1>2 DEF IInv, TypeOK, Lists, MetricShape
  <1>6. /\ DOMAIN m = DOMAIN heap[r]
        /\ m.mi = heap[r].mi /\ m.desc = heap[r].desc
        /\ m.meta = heap[r].meta /\ m.conflict = heap[r].conflict
        /\ DOMAIN m.streams = DOMAIN heap[r].streams
        /\ \A s \in DOMAIN heap[r].streams : s # st => m.streams[s] = heap[r].streams[s]
    BY <1>5 DEF MetricShape
  <1>7. m.streams[st].points = Append(heap[r].streams[st].points, p)
    BY <1>2, <1>5 DEF MetricShape
  <1>8. IsList(heap[r].streams[st].points)
    BY <1>2, <1>5 DEF MetricShape
  <1> HIDE DEF m
  <1> QED
    BY <1>2, <1>4, <1>6, <1>7, <1>8

\* What a call stores can be read, unless a reset came after the call began.
LEMMA VisibleNow ==
    ASSUME IInv, NEW c \in Call, Exact(c), Step(c), Passes(c), cut[c] = "none",
           NEW b, b = sent[c], NEW i, i = n[c]
    PROVE  IsVisible(b, i)'
  <1> DEFINE e == b.entries[i]
             id == MetricIdAt(b, i)
             st == hashValue(e.attr)
  <1>1. Entry(c) = e /\ i <= Len(b.entries) /\ pc[c] \in {"run", "append"}
    BY DEF Entry, Passes
  <1>2. CASE receiveResource(c)
    BY <1>1, <1>2 DEF receiveResource, At, Register, IsVisible
  <1>3. CASE receiveScope(c)
    BY <1>1, <1>3 DEF receiveScope, At, Register, IsVisible
  <1>4. CASE receiveSpan(c)
    <2>1. e.op = "span" /\ e.trace \in DOMAIN traces' /\ e.span \in DOMAIN traces'[e.trace]
      BY <1>1, <1>4 DEF receiveSpan, At, Register
    <2> QED
      BY <2>1 DEF IsVisible
  <1>5. CASE receiveLog(c)
    <2>1. e.op = "log" /\ logs' = Append(logs, WithContext(c, e.val))
      BY <1>1, <1>5 DEF receiveLog, At
    <2>2. WithContext(c, e.val) = AsStored(b, i)
      BY <1>1, <2>1, StoresContext
    <2>3. Len(logs) \in Nat /\ Len(logs') = Len(logs) + 1 /\ logs'[Len(logs) + 1] = AsStored(b, i)
      BY <2>1, <2>2, AppendLemma DEF IInv, Lists
    <2>4. Len(logs) + 1 \in 1 .. Len(logs')
      BY <2>3
    <2> QED
      BY <2>1, <2>3, <2>4 DEF IsVisible
  <1>6. CASE receiveMetric(c)
    <2>1. /\ e.op = "metric"
          /\ hashValue(MetricIdentity(ids[c].res, ids[c].scope, e.name)) \in DOMAIN metrics'
      BY <1>1, <1>6 DEF receiveMetric, At, Register
    <2>2. hashValue(MetricIdentity(ids[c].res, ids[c].scope, e.name)) = id
      BY <1>1, <2>1, StoresContext
    <2> QED
      BY <2>1, <2>2 DEF IsVisible
  <1>7. CASE appendPoint(c)
    <2> DEFINE r == cur[c]
               old == heap[r].streams[st].points
               new == heap'[r].streams[st].points
    <2>1. e.op = "point" /\ metrics' = metrics
      BY <1>1, <1>7 DEF appendPoint, IInv, TypeOK
    <2>2. id \in DOMAIN metrics /\ metrics[id] = r /\ ids[c].req = hashValue(b.meta)
      BY <1>1, <2>1, StoresContext
    <2>3. new = Append(old, AsPoint(b, i)) /\ IsList(old) /\ st \in DOMAIN heap'[r].streams
      BY <1>1, <1>7, <2>2, PointAppended DEF AsPoint
    <2>4. Len(old) + 1 \in DOMAIN new /\ new[Len(old) + 1] = AsPoint(b, i)
      <3> HIDE DEF old, new
      <3> QED
        BY <2>3, AppendLemma
    <2> QED
      BY <2>1, <2>2, <2>3, <2>4 DEF IsVisible, Metric, Points
  <1>8. ASSUME \/ receiveRequestMeta(c) \/ receivePoint(c) \/ beginDump(c) \/ endDump(c)
               \/ convertPanic(c) \/ printPanic(c) \/ respond(c)
        PROVE  FALSE
    <2>1. Remains(c) /\ n[c] \in Nat
      BY <1>8, PassLemma DEF IInv, TypeOK
    <2> QED
      BY <2>1 DEF Passes, Remains
  <1> QED
    BY <1>2, <1>3, <1>4, <1>5, <1>6, <1>7, <1>8 DEF Step

\* Which calls a step leaves untouched by a reset, and what they have passed.
LEMMA UntouchedStep ==
    ASSUME IInv, Next, NEW d \in Untouched'
    PROVE  /\ resets' = resets /\ sent' = sent /\ d \in Call /\ cut[d] = "none"
           /\ \/ Passed(d)' = {}
              \/ d \in Untouched /\ Passed(d)' = Passed(d)
              \/ /\ d \in Untouched /\ Step(d) /\ Passes(d)
                 /\ Passed(d)' = Passed(d) \cup {n[d]} /\ n[d] \in 1 .. Len(sent[d].entries)
                 /\ \A i \in Passed(d) : i < n[d]
  <1>1. d \in Call /\ cut'[d] = "none" /\ pc'[d] # "idle"
    BY DEF Untouched
  <1>2. ~ reset
    BY <1>1 DEF reset, noteReset, call
  <1>3. CASE \E c, e \in Call : race(c, e)
    BY <1>1, <1>3 DEF race, call, Untouched, Passed
  <1>4. ASSUME NEW c \in Call, Step(c), c # d
        PROVE  /\ resets' = resets /\ sent' = sent /\ cut' = cut
               /\ d \in Untouched /\ Passed(d)' = Passed(d)
    BY <1>1, <1>4, StepIsLocal DEF IInv, Untouched, Passed
  <1>5. ASSUME Step(d)
        PROVE  /\ resets' = resets /\ sent' = sent /\ cut' = cut
               /\ \/ Passed(d)' = {}
                  \/ d \in Untouched /\ Passed(d)' = Passed(d)
                  \/ /\ d \in Untouched /\ Passes(d)
                     /\ Passed(d)' = Passed(d) \cup {n[d]} /\ n[d] \in 1 .. Len(sent[d].entries)
                     /\ \A i \in Passed(d) : i < n[d]
    <2>1. sent' = sent /\ cut' = cut /\ resets' = resets
      BY <1>1, <1>5, StepIsLocal DEF IInv
    <2>2. n[d] \in Nat \ {0} /\ Len(sent[d].entries) \in Nat
      BY <1>1, BatchAssumption DEF IInv, TypeOK
    <2>3. pc[d] = "idle" => n[d] = 1
      BY <1>1 DEF IInv, Locals
    <2>4. CASE Passes(d)
      BY <1>1, <2>1, <2>2, <2>4 DEF Passes, Untouched, Passed
    <2>5. CASE Remains(d)
      BY <1>1, <2>1, <2>2, <2>3, <2>5 DEF Remains, Untouched, Passed
    <2> QED
      BY <1>1, <1>5, <2>1, <2>4, <2>5, PassLemma DEF Step, IInv
  <1> QED
    BY <1>1, <1>2, <1>3, <1>4, <1>5 DEF Next, race, call

\* So every step keeps what is stored readable.
LEMMA VisibleStep ==
    ASSUME IInv, \A c \in Call : Exact(c), StoredIsVisible, Next
    PROVE  StoredIsVisible'
  <1> SUFFICES ASSUME NEW d \in Untouched', NEW i \in Passed(d)'
               PROVE  IsVisible(sent[d], i)'
    BY DEF StoredIsVisible
  <1>1. resets' = resets /\ sent' = sent /\ d \in Call
    BY UntouchedStep
  <1> SUFFICES ASSUME NEW b, b = sent[d]
               PROVE  IsVisible(b, i)'
    BY <1>1 DEF IsVisible, AsStored, AsPoint
  <1>2. CASE d \in Untouched /\ i \in Passed(d)
    <2>1. IsVisible(b, i)
      BY <1>2 DEF StoredIsVisible
    <2>2. b.entries[i].op \in {"res", "scope", "span", "log", "metric", "point"}
      BY <1>1, <1>2, Kinds DEF IInv, Passed
    <2> QED
      BY <1>1, <2>1, <2>2, VisibleStays DEF IInv
  <1>3. CASE Step(d) /\ Passes(d) /\ i = n[d]
    <2>1. cut[d] = "none"
      BY UntouchedStep
    <2> QED
      BY <1>1, <1>3, <2>1, VisibleNow
  <1> QED
    BY <1>2, <1>3, UntouchedStep

(***************************************************************************)
(* Where what can be read comes from                                       *)
(***************************************************************************)

\* The steps that append no point: streams stay as they are, a new one is
\* empty, a new metric has none.
LEMMA StreamsStep ==
    ASSUME IInv, NEW c \in Call, Step(c), ~ appendPoint(c)
    PROVE  /\ Len(heap) \in Nat /\ Len(heap') \in Nat /\ Len(heap) <= Len(heap')
           /\ \A r \in 1 .. Len(heap) :
                /\ DOMAIN heap[r].streams \subseteq DOMAIN heap'[r].streams
                /\ \A st \in DOMAIN heap[r].streams : heap'[r].streams[st] = heap[r].streams[st]
                /\ \A st \in DOMAIN heap'[r].streams \ DOMAIN heap[r].streams :
                    /\ receivePoint(c) /\ r = cur[c] /\ st = hashValue(Entry(c).attr)
                    /\ heap'[r].streams[st].points = <<>>
           /\ \A r \in 1 .. Len(heap') : r \notin 1 .. Len(heap) => DOMAIN heap'[r].streams = {}
           /\ DOMAIN metrics \subseteq DOMAIN metrics'
           /\ \A id \in DOMAIN metrics : metrics'[id] = metrics[id] /\ metrics[id] \in 1 .. Len(heap)
           /\ \A id \in DOMAIN metrics' : id \notin DOMAIN metrics =>
                metrics'[id] \in 1 .. Len(heap') /\ metrics'[id] \notin 1 .. Len(heap)
  <1>1. /\ Len(heap) \in Nat
        /\ \A r \in 1 .. Len(heap) : MetricShape(heap[r])
        /\ \A id \in DOMAIN metrics : metrics[id] \in 1 .. Len(heap)
    <2>1. Len(heap) \in Nat
      BY DEF IInv, Lists, IsList
    <2> QED
      BY <2>1 DEF IInv, TypeOK, Lists, MetricShape
  <1>2. CASE UNCHANGED <<heap, metrics>>
    BY <1>1, <1>2
  <1>3. CASE receiveMetric(c)
    <2> DEFINE e == Entry(c)
               mi == MetricIdentity(ids[c].res, ids[c].scope, e.name)
               mid == hashValue(mi)
               r == metrics[mid]
    <2>1. CASE mid \in DOMAIN metrics
      <3>1. heap' = [heap EXCEPT ![r] = Merged(heap[r], e)] /\ metrics' = metrics
        BY <1>3, <2>1 DEF receiveMetric
      <3>2. /\ Len(heap') = Len(heap)
            /\ \A i \in 1 .. Len(heap) : heap'[i] = IF i = r THEN Merged(heap[r], e) ELSE heap[i]
        BY <3>1, UpdateLemma DEF IInv, Lists
      <3>3. Merged(heap[r], e).streams = heap[r].streams
        BY <1>1, <2>1 DEF Merged, MetricShape
      <3>4. \A i \in 1 .. Len(heap) : heap'[i].streams = heap[i].streams
        BY <3>2, <3>3
      <3>5. ASSUME NEW i \in 1 .. Len(heap)
            PROVE  /\ DOMAIN heap'[i].streams = DOMAIN heap[i].streams
                   /\ \A st \in DOMAIN heap[i].streams :
                        heap'[i].streams[st] = heap[i].streams[st]
        BY <3>4
      <3>6. Len(heap') = Len(heap) /\ metrics' = metrics
        BY <3>1, <3>2
      <3> HIDE DEF mi, mid, r
      <3> QED
        BY <1>1, <3>5, <3>6
    <2>2. CASE mid \notin DOMAIN metrics
      <3>1. heap' = Append(heap, NewMetric(mi, e)) /\ metrics' = Register(metrics, mid, Len(heap) + 1)
        BY <1>3, <2>2 DEF receiveMetric
      <3>2. /\ Len(heap') = Len(heap) + 1
            /\ \A i \in 1 .. Len(heap) : heap'[i] = heap[i]
            /\ heap'[Len(heap) + 1] = NewMetric(mi, e)
        BY <3>1, AppendLemma DEF IInv, Lists
      <3>3. DOMAIN NewMetric(mi, e).streams = {}
        BY EmptyLemma DEF NewMetric
      <3>4. /\ DOMAIN metrics' = DOMAIN metrics \cup {mid} /\ metrics'[mid] = Len(heap) + 1
            /\ \A id \in DOMAIN metrics : metrics'[id] = metrics[id]
        <4> HIDE DEF mid
        <4> QED
          BY <2>2, <3>1 DEF Register
      <3>5. Len(heap) + 1 \in 1 .. Len(heap') /\ Len(heap) + 1 \notin 1 .. Len(heap)
        BY <1>1, <3>2
      <3>6. \A i \in 1 .. Len(heap') : i \notin 1 .. Len(heap) => i = Len(heap) + 1
        BY <1>1, <3>2
      <3> QED
        BY <1>1, <3>2, <3>3, <3>4, <3>5, <3>6
    <2> QED
      BY <2>1, <2>2
  <1>4. CASE receivePoint(c)
    <2> DEFINE r == cur[c]
               attr == Entry(c).attr
               k == hashValue(attr)
               v == [attr |-> attr, points |-> <<>>]
               m == [heap[r] EXCEPT !.streams = Register(@, k, v)]
    <2>1. heap' = [heap EXCEPT ![r] = m] /\ metrics' = metrics
      BY <1>4 DEF receivePoint
    <2>2. /\ Len(heap') = Len(heap)
          /\ \A i \in 1 .. Len(heap) : heap'[i] = IF i = r THEN m ELSE heap[i]
      BY <2>1, UpdateLemma DEF IInv, Lists
    <2>3. r \in 1 .. Len(heap) => m.streams = Register(heap[r].streams, k, v)
      BY <1>1 DEF MetricShape
    <2>4. v.points = <<>>
      OBVIOUS
    <2>5. r \in 1 .. Len(heap) =>
            /\ DOMAIN m.streams = DOMAIN heap[r].streams \cup {k}
            /\ \A st \in DOMAIN heap[r].streams : m.streams[st] = heap[r].streams[st]
            /\ k \notin DOMAIN heap[r].streams => m.streams[k].points = <<>>
      <3> HIDE DEF m, v
      <3> QED
        BY <2>3, <2>4 DEF Register
    <2> HIDE DEF m
    <2> QED
      BY <1>1, <1>4, <2>1, <2>2, <2>5
  <1>5. UNCHANGED <<heap, metrics>> \/ receiveMetric(c) \/ receivePoint(c)
    BY DEF Step, receiveRequestMeta, receiveResource, receiveScope, receiveSpan,
           receiveLog, beginDump, endDump, convertPanic, printPanic, Unwind, respond, MoveTo, store
  <1> QED
    BY <1>2, <1>3, <1>4, <1>5

\* Everything that can be read comes from a call the last reset found running
\* or not started, under that call's ids, after a step of a call as before.
LEMMA OriginStep ==
    ASSUME IInv, \A d \in Call : Exact(d), NothingSurvivesReset, NEW c \in Call, Step(c)
    PROVE  NothingSurvivesReset'
  <1> DEFINE x == <<c, n[c]>>
  <1>1. sent' = sent
    BY StepIsLocal DEF IInv
  <1>2. /\ StoredBy(Remaining, "span") \subseteq StoredBy(Remaining, "span")'
        /\ StoredBy(Remaining, "log") \subseteq StoredBy(Remaining, "log")'
        /\ StoredBy(Remaining, "point") \subseteq StoredBy(Remaining, "point")'
    BY StoredStep
  <1>3. /\ receiveSpan(c) => x \in StoredBy(Remaining, "span")'
        /\ receiveLog(c) => x \in StoredBy(Remaining, "log")'
        /\ appendPoint(c) => x \in StoredBy(Remaining, "point")'
    <2>1. receiveSpan(c) => Passes(c) /\ Entry(c).op = "span"
      BY PassLemma DEF IInv, receiveSpan, At
    <2>2. receiveLog(c) => Passes(c) /\ Entry(c).op = "log"
      BY PassLemma DEF IInv, receiveLog, At
    <2>3. appendPoint(c) => Passes(c) /\ Entry(c).op = "point"
      BY PassLemma DEF IInv, appendPoint, TypeOK
    <2> QED
      BY <2>1, <2>2, <2>3, StoredStep
  <1>4. ASSUME receiveSpan(c) \/ receiveLog(c)
        PROVE  WithContext(c, Entry(c).val) = AsStored(sent[c], n[c])
    <2>1. /\ pc[c] \in {"run", "append"} /\ n[c] <= Len(sent[c].entries)
          /\ Entry(c).op \notin {"res", "scope"}
      BY <1>4 DEF receiveSpan, receiveLog, At, InLoop
    <2> QED
      BY <2>1, StoresContext
  <1>5. x[1] = c /\ x[2] = n[c]
    OBVIOUS
  <1>6. ASSUME NEW t \in DOMAIN traces', NEW s \in DOMAIN traces'[t]
        PROVE  \E y \in StoredBy(Remaining, "span")' :
                  LET e == sent'[y[1]].entries[y[2]]
                  IN  e.trace = t /\ e.span = s /\ AsStored(sent'[y[1]], y[2]) = traces'[t][s]
    <2>1. CASE t \in DOMAIN traces /\ s \in DOMAIN traces[t] /\ traces'[t][s] = traces[t][s]
      BY <1>1, <1>2, <2>1 DEF NothingSurvivesReset
    <2>2. CASE /\ receiveSpan(c) /\ t = Entry(c).trace /\ s = Entry(c).span
               /\ traces'[t][s] = WithContext(c, Entry(c).val)
      BY <1>1, <1>3, <1>4, <1>5, <2>2 DEF Entry
    <2>3. CASE receiveSpan(c)
      <3> DEFINE e == Entry(c)
                 v == WithContext(c, e.val)
                 spans == Register(SpansOf(e.trace), e.span, v)
      <3>1. traces' = [q \in DOMAIN traces \cup {e.trace} |->
                          IF q = e.trace THEN spans ELSE traces[q]]
        BY <2>3 DEF receiveSpan
      <3>2. /\ DOMAIN spans = DOMAIN SpansOf(e.trace) \cup {e.span}
            /\ \A q \in DOMAIN SpansOf(e.trace) : spans[q] = SpansOf(e.trace)[q]
            /\ e.span \notin DOMAIN SpansOf(e.trace) => spans[e.span] = v
        BY RegisterLemma
      <3>3. \A q \in DOMAIN SpansOf(e.trace) :
                e.trace \in DOMAIN traces /\ SpansOf(e.trace) = traces[e.trace]
        BY EmptyLemma DEF SpansOf
      <3> HIDE DEF v, spans
      <3>4. \/ t \in DOMAIN traces /\ s \in DOMAIN traces[t] /\ traces'[t][s] = traces[t][s]
            \/ t = e.trace /\ s = e.span /\ traces'[t][s] = v
        BY <3>1, <3>2, <3>3
      <3> QED
        BY <2>1, <2>2, <2>3, <3>4 DEF v
    <2>4. CASE traces' = traces
      BY <2>1, <2>4
    <2> QED
      BY <2>3, <2>4 DEF Step, receiveRequestMeta, receiveResource, receiveScope, receiveLog,
             receiveMetric, receivePoint, appendPoint, beginDump, endDump, convertPanic, printPanic, Unwind,
             respond, MoveTo, store
  <1>7. ASSUME NEW k \in 1 .. Len(logs')
        PROVE  \E y \in StoredBy(Remaining, "log")' : AsStored(sent'[y[1]], y[2]) = logs'[k]
    <2>1. CASE k \in 1 .. Len(logs) /\ logs'[k] = logs[k]
      BY <1>1, <1>2, <2>1 DEF NothingSurvivesReset
    <2>2. CASE receiveLog(c)
      <3>1. logs' = Append(logs, WithContext(c, Entry(c).val))
        BY <2>2 DEF receiveLog
      <3>2. \/ k \in 1 .. Len(logs) /\ logs'[k] = logs[k]
            \/ logs'[k] = WithContext(c, Entry(c).val)
        BY <3>1, AppendLemma DEF IInv, Lists
      <3> QED
        BY <1>1, <1>3, <1>4, <1>5, <2>1, <2>2, <3>2
    <2>3. CASE logs' = logs
      BY <2>1, <2>3
    <2> QED
      BY <2>2, <2>3 DEF Step, receiveRequestMeta, receiveResource, receiveScope, receiveSpan,
             receiveMetric, receivePoint, appendPoint, beginDump, endDump, convertPanic, printPanic, Unwind,
             respond, MoveTo, store
  <1>8. ASSUME NEW id \in DOMAIN metrics', NEW st \in DOMAIN heap'[metrics'[id]].streams,
               NEW k \in DOMAIN heap'[metrics'[id]].streams[st].points
        PROVE  \E y \in StoredBy(Remaining, "point")' :
                  /\ MetricIdAt(sent'[y[1]], y[2]) = id
                  /\ AsPoint(sent'[y[1]], y[2]) = heap'[metrics'[id]].streams[st].points[k]
    <2>1. CASE /\ id \in DOMAIN metrics /\ st \in DOMAIN Metric(id).streams
               /\ k \in DOMAIN Points(id, st)
               /\ heap'[metrics'[id]].streams[st].points[k] = Points(id, st)[k]
      <3>1. PICK y \in StoredBy(Remaining, "point") :
                  /\ MetricIdAt(sent[y[1]], y[2]) = id
                  /\ AsPoint(sent[y[1]], y[2]) = Points(id, st)[k]
        BY <2>1 DEF NothingSurvivesReset
      <3> QED
        BY <1>1, <1>2, <2>1, <3>1
    <2>2. CASE ~ appendPoint(c)
      <3>1. id \in DOMAIN metrics
        BY <2>2, StreamsStep
      <3>2. metrics'[id] = metrics[id] /\ metrics[id] \in 1 .. Len(heap)
        BY <2>2, <3>1, StreamsStep
      <3>3. st \in DOMAIN heap[metrics[id]].streams
        BY <2>2, <3>2, StreamsStep, EmptyLemma
      <3>4. heap'[metrics'[id]].streams[st] = Metric(id).streams[st]
        BY <2>2, <3>2, <3>3, StreamsStep DEF Metric
      <3> QED
        BY <2>1, <3>1, <3>3, <3>4 DEF Metric, Points
    <2>3. CASE appendPoint(c)
      <3> DEFINE r == cur[c]
                 e == Entry(c)
                 sid == hashValue(e.attr)
                 p == [val |-> e.val, req |-> ids[c].req]
                 old == heap[r].streams[sid].points
      <3>1. metrics' = metrics /\ metrics[id] \in 1 .. Len(heap)
        BY <2>3 DEF appendPoint, IInv, TypeOK
      <3>2. CASE metrics[id] = r /\ st = sid
        <4>1. /\ pc[c] \in {"run", "append"} /\ n[c] <= Len(sent[c].entries) /\ e.op = "point"
          BY <2>3 DEF appendPoint, IInv, TypeOK
        <4>2. MetricIdAt(sent[c], n[c]) = id
          BY <3>1, <3>2, <4>1, StoresContext
        <4>3. p = AsPoint(sent[c], n[c])
          BY <4>1, StoresContext DEF AsPoint, Entry
        <4>4. /\ heap'[r].streams[sid].points = Append(old, p) /\ IsList(old)
              /\ sid \in DOMAIN heap[r].streams
          BY <2>3, PointAppended
        <4>5. (k \in DOMAIN old /\ Append(old, p)[k] = old[k]) \/ Append(old, p)[k] = p
          <5> HIDE DEF old, p
          <5> QED
            BY <3>1, <3>2, <4>4, AppendLemma
        <4>6. CASE k \in DOMAIN old /\ Append(old, p)[k] = old[k]
          BY <2>1, <3>1, <3>2, <4>4, <4>6 DEF Metric, Points
        <4>7. CASE Append(old, p)[k] = p
          <5>1. x \in StoredBy(Remaining, "point")'
            BY <1>3, <2>3
          <5>2. heap'[metrics'[id]].streams[st].points[k] = AsPoint(sent[c], n[c])
            BY <3>1, <3>2, <4>3, <4>4, <4>7
          <5> QED
            BY <1>1, <1>5, <4>2, <5>1, <5>2
        <4> QED
          BY <4>5, <4>6, <4>7
      <3>3. CASE ~ (metrics[id] = r /\ st = sid)
        <4>1. /\ st \in DOMAIN heap[metrics[id]].streams
              /\ heap'[metrics[id]].streams[st] = heap[metrics[id]].streams[st]
          <5>1. CASE metrics[id] # r
            BY <2>3, <3>1, <5>1, PointAppended
          <5>2. CASE metrics[id] = r
            <6>1. /\ DOMAIN heap'[r].streams = DOMAIN heap[r].streams
                  /\ \A s \in DOMAIN heap[r].streams :
                        s # sid => heap'[r].streams[s] = heap[r].streams[s]
              BY <2>3, PointAppended
            <6> QED
              BY <3>1, <3>3, <5>2, <6>1
          <5> QED
            BY <5>1, <5>2
        <4> QED
          BY <2>1, <3>1, <4>1 DEF Metric, Points
      <3> QED
        BY <3>2, <3>3
    <2> QED
      BY <2>2, <2>3
  <1> QED
    BY <1>6, <1>7, <1>8 DEF NothingSurvivesReset, Metric, Points

(***************************************************************************)
(* The description, the metadata and the mark of a metric                  *)
(***************************************************************************)

\* What Agreed, ConflictIffDiffers and LongestDescription say of a metric m
\* for which the calls that remain sent R and the untouched ones U.
MetaOK(m, R, U) ==
    /\ \E x \in R : x.desc = m.desc
    /\ \E x \in R : x.meta = m.meta
    /\ \A x \in U : Len(x.desc) <= Len(m.desc)
    /\ ~ m.conflict => \A x \in U : x.desc = m.desc /\ hashValue(x.meta) = hashValue(m.meta)
    /\ m.conflict => \E x, y \in R : x.desc # y.desc \/ hashValue(x.meta) # hashValue(y.meta)

LEMMA MetaOKLemma ==
    Agreed /\ ConflictIffDiffers /\ LongestDescription <=>
        \A id \in DOMAIN metrics :
            MetaOK(Metric(id), SentTo(Remaining, id), SentTo(Untouched, id))
  BY DEF Agreed, ConflictIffDiffers, LongestDescription, MetaOK

LEMMA MetaOKNext ==
    (\A id \in DOMAIN metrics' :
        MetaOK(Metric(id)', SentTo(Remaining, id)', SentTo(Untouched, id)'))
    => Agreed' /\ ConflictIffDiffers' /\ LongestDescription'
  BY DEF Agreed, ConflictIffDiffers, LongestDescription, MetaOK

\* A metric that stays as it is, but for its streams.
LEMMA MetaStays ==
    ASSUME NEW m, NEW m2, NEW R, NEW R2, NEW U, NEW U2, MetaOK(m, R, U),
           R \subseteq R2, U2 \subseteq U,
           m2.desc = m.desc, m2.meta = m.meta, m2.conflict = m.conflict
    PROVE  MetaOK(m2, R2, U2)
  BY DEF MetaOK

\* A metric that is received for the first time.
LEMMA MetaNew ==
    ASSUME NEW mi, NEW e, Len(e.desc) \in Nat, NEW R2, NEW U2, e \in R2, U2 \subseteq {e}
    PROVE  MetaOK(NewMetric(mi, e), R2, U2)
  <1> DEFINE m == NewMetric(mi, e)
  <1> SUFFICES MetaOK(m, R2, U2)
    OBVIOUS
  <1>1. m.desc = e.desc /\ m.meta = e.meta /\ ~ m.conflict
    BY DEF NewMetric
  <1> HIDE DEF m
  <1>2. (\E x \in R2 : x.desc = m.desc) /\ (\E x \in R2 : x.meta = m.meta)
    BY <1>1
  <1>3. \A x \in U2 : x = e
    OBVIOUS
  <1>4. \A x \in U2 : Len(x.desc) <= Len(m.desc)
    BY <1>1, <1>3
  <1>5. \A x \in U2 : x.desc = m.desc /\ hashValue(x.meta) = hashValue(m.meta)
    BY <1>1, <1>3
  <1> QED
    BY <1>1, <1>2, <1>4, <1>5, Zenon DEF MetaOK

\* A metric that is received again.
LEMMA MetaMerged ==
    ASSUME NEW m, MetricShape(m), NEW e, NEW R, NEW R2, NEW U, NEW U2, MetaOK(m, R, U),
           R \subseteq R2, e \in R2, U2 \subseteq U \cup {e},
           \A x \in R2 \cup U : Len(x.desc) \in Nat
    PROVE  MetaOK(Merged(m, e), R2, U2)
  <1> DEFINE m2 == Merged(m, e)
  <1> SUFFICES MetaOK(m2, R2, U2)
    OBVIOUS
  <1>1. Len(m.desc) \in Nat /\ Len(e.desc) \in Nat
    BY DEF MetaOK
  <1>2. CASE ~ Differs(m, e)
    <2>1. m2 = m
      BY <1>2 DEF Merged
    <2>2. e.desc = m.desc /\ hashValue(e.meta) = hashValue(m.meta)
      BY <1>2 DEF Differs
    <2> HIDE DEF m2
    <2>3. \A x \in U2 : x \in U \/ x = e
      OBVIOUS
    <2>4. \A x \in U2 : Len(x.desc) <= Len(m.desc)
      BY <1>1, <2>2, <2>3 DEF MetaOK
    <2>5. MetaOK(m, R2, U2)
      BY <2>2, <2>3, <2>4, Zenon DEF MetaOK
    <2> QED
      BY <2>1, <2>5
  <1>3. CASE Differs(m, e)
    <2>1. /\ m2.conflict /\ m2.meta = m.meta
          /\ m2.desc = IF Len(e.desc) > Len(m.desc) THEN e.desc ELSE m.desc
      BY <1>3 DEF Merged, MetricShape
    <2>2. m.desc # e.desc \/ hashValue(m.meta) # hashValue(e.meta)
      BY <1>3 DEF Differs
    <2> HIDE DEF m2
    <2>3. \E x \in R2 : x.desc = m2.desc
      BY <2>1 DEF MetaOK
    <2>4. \E x \in R2 : x.meta = m2.meta
      BY <2>1 DEF MetaOK
    <2>5. \A x \in U2 : Len(x.desc) <= Len(m2.desc)
      BY <1>1, <2>1 DEF MetaOK
    <2>6. \E x, y \in R2 : x.desc # y.desc \/ hashValue(x.meta) # hashValue(y.meta)
      BY <2>2 DEF MetaOK
    <2> QED
      BY <2>1, <2>3, <2>4, <2>5, <2>6, Zenon DEF MetaOK
  <1> QED
    BY <1>2, <1>3

\* Descriptions have a length.
LEMMA DescriptionLength ==
    ASSUME TypeOK, NEW c \in Call, NEW i \in 1 .. Len(sent[c].entries),
           sent[c].entries[i].op = "metric"
    PROVE  Len(sent[c].entries[i].desc) \in Nat
  <1>1. WellNested(sent[c].entries)
    BY BatchAssumption DEF TypeOK
  <1> QED
    BY <1>1 DEF WellNested

\* What is sent to a metric in a step: what was sent to it before, and the
\* entry of the call that enters receiveMetric for it.
LEMMA SentStep ==
    ASSUME IInv, NEW c \in Call, Step(c), Next, NEW id
    PROVE  /\ SentTo(Remaining, id) \subseteq SentTo(Remaining, id)'
           /\ receiveMetric(c) /\ MetricIdAt(sent[c], n[c]) = id =>
                /\ Entry(c) \in SentTo(Remaining, id)'
                /\ SentTo(Untouched, id)' \subseteq SentTo(Untouched, id) \cup {Entry(c)}
           /\ ~ (receiveMetric(c) /\ MetricIdAt(sent[c], n[c]) = id) =>
                SentTo(Untouched, id)' \subseteq SentTo(Untouched, id)
           /\ \A x \in SentTo(Remaining, id)' \cup SentTo(Untouched, id) : Len(x.desc) \in Nat
  <1> DEFINE Old(y) == y \in StoredBy(Remaining, "metric") /\ MetricIdAt(sent[y[1]], y[2]) = id
             New(y) == y \in StoredBy(Remaining, "metric")' /\ MetricIdAt(sent[y[1]], y[2]) = id
  <1>1. sent' = sent
    BY StepIsLocal DEF IInv
  <1>2. \A x : (x \in SentTo(Remaining, id)' <=> \E y : New(y) /\ x = sent[y[1]].entries[y[2]])
    BY <1>1 DEF SentTo
  <1>3. \A x : (x \in SentTo(Remaining, id) <=> \E y : Old(y) /\ x = sent[y[1]].entries[y[2]])
    BY DEF SentTo
  <1>4. StoredBy(Remaining, "metric") \subseteq StoredBy(Remaining, "metric")'
    BY StoredStep
  <1>5. SentTo(Remaining, id) \subseteq SentTo(Remaining, id)'
    BY <1>2, <1>3, <1>4
  <1>6. ASSUME receiveMetric(c), MetricIdAt(sent[c], n[c]) = id
        PROVE  Entry(c) \in SentTo(Remaining, id)'
    <2>1. Passes(c) /\ Entry(c).op = "metric"
      BY <1>6, PassLemma DEF IInv, receiveMetric, At
    <2>2. <<c, n[c]>> \in StoredBy(Remaining, "metric")'
      BY <2>1, StoredStep
    <2>3. New(<<c, n[c]>>)
      BY <1>6, <2>2
    <2> QED
      BY <1>2, <2>3 DEF Entry
  <1>7. ASSUME NEW x \in SentTo(Untouched, id)'
        PROVE  \/ x \in SentTo(Untouched, id)
               \/ receiveMetric(c) /\ MetricIdAt(sent[c], n[c]) = id /\ x = Entry(c)
    <2>1. PICK y \in StoredBy(Untouched, "metric")' :
                MetricIdAt(sent[y[1]], y[2]) = id /\ x = sent[y[1]].entries[y[2]]
      BY <1>1, <1>7 DEF SentTo
    <2>2. PICK d \in Untouched' : y \in {d} \X Passed(d)' /\ sent[y[1]].entries[y[2]].op = "metric"
      BY <1>1, <2>1 DEF StoredBy
    <2>3. PICK i \in Passed(d)' : y[1] = d /\ y[2] = i
      BY <2>2
    <2>4. CASE d \in Untouched /\ i \in Passed(d)
      BY <2>1, <2>2, <2>3, <2>4, SentMember
    <2>5. CASE Step(d) /\ Passes(d) /\ i = n[d]
      <3>1. d = c
        <4>1. n[d] \in Nat /\ d \in Call
          BY UntouchedStep DEF IInv, TypeOK
        <4> QED
          BY <2>5, <4>1, StepIsLocal DEF IInv, Passes
      <3>2. Entry(c).op = "metric"
        BY <2>2, <2>3, <2>5, <3>1 DEF Entry
      <3>3. receiveMetric(c)
        <4>1. \/ receiveResource(c) \/ receiveScope(c) \/ receiveSpan(c) \/ receiveLog(c)
              \/ receiveMetric(c) \/ appendPoint(c)
              \/ Remains(c)
          BY PassLemma DEF Step, IInv
        <4>2. ~ Remains(c)
          BY <2>5, <3>1 DEF Remains, Passes, IInv, TypeOK
        <4> QED
          BY <3>2, <4>1, <4>2 DEF receiveResource, receiveScope, receiveSpan, receiveLog,
                                  appendPoint, At, IInv, TypeOK
      <3> QED
        BY <2>1, <2>3, <2>5, <3>1, <3>3 DEF Entry
    <2> QED
      BY <2>3, <2>4, <2>5, UntouchedStep
  <1>8. ASSUME NEW x \in SentTo(Remaining, id)'
        PROVE  Len(x.desc) \in Nat
    <2>1. PICK y \in StoredBy(Remaining, "metric")' : x = sent[y[1]].entries[y[2]]
      BY <1>1, <1>8 DEF SentTo
    <2>2. PICK d \in Remaining' : y \in {d} \X Passed(d)' /\ sent[y[1]].entries[y[2]].op = "metric"
      BY <1>1, <2>1 DEF StoredBy
    <2>3. PICK i \in Passed(d)' : y[1] = d /\ y[2] = i
      BY <2>2
    <2>4. d \in Call /\ i \in 1 .. Len(sent[d].entries)
      BY <1>1 DEF Remaining, Passed
    <2> QED
      BY <2>1, <2>2, <2>3, <2>4, DescriptionLength DEF IInv
  <1>9. ASSUME NEW x \in SentTo(Untouched, id)
        PROVE  Len(x.desc) \in Nat
    <2>1. PICK d \in Untouched : \E i \in Passed(d) :
                /\ sent[d].entries[i].op = "metric" /\ x = sent[d].entries[i]
      BY SentMember
    <2>2. PICK i \in Passed(d) : sent[d].entries[i].op = "metric" /\ x = sent[d].entries[i]
      BY <2>1
    <2>3. d \in Call /\ i \in 1 .. Len(sent[d].entries)
      BY DEF Untouched, Passed
    <2> QED
      BY <2>2, <2>3, DescriptionLength DEF IInv
  <1> QED
    BY <1>5, <1>6, <1>7, <1>8, <1>9

\* The steps of a call keep what is shown of a metric true of what was sent.
LEMMA MetadataStep ==
    ASSUME IInv, \A d \in Call : Exact(d), StoredIsVisible,
           Agreed, ConflictIffDiffers, LongestDescription, Next, NEW c \in Call, Step(c)
    PROVE  Agreed' /\ ConflictIffDiffers' /\ LongestDescription'
  <1> SUFFICES ASSUME NEW id \in DOMAIN metrics'
               PROVE  MetaOK(heap'[metrics'[id]], SentTo(Remaining, id)', SentTo(Untouched, id)')
    BY MetaOKNext DEF Metric
  <1> DEFINE R == SentTo(Remaining, id)
             U == SentTo(Untouched, id)
             e == Entry(c)
             mi == MetricIdentity(ids[c].res, ids[c].scope, e.name)
             mid == hashValue(mi)
  <1>1. id \in DOMAIN metrics => /\ MetaOK(heap[metrics[id]], R, U)
                               /\ metrics[id] \in 1 .. Len(heap) /\ MetricShape(heap[metrics[id]])
    BY MetaOKLemma DEF Metric, IInv, TypeOK, Lists, MetricShape
  <1>2. receiveMetric(c) => mid = MetricIdAt(sent[c], n[c])
    BY StoresContext DEF receiveMetric, At, InLoop
  <1>3. CASE receiveMetric(c) /\ id = mid
    <2>1. /\ R \subseteq R' /\ e \in R' /\ U' \subseteq U \cup {e}
          /\ \A x \in R' \cup U : Len(x.desc) \in Nat
      BY <1>2, <1>3, SentStep
    <2>2. CASE id \in DOMAIN metrics
      <3>1. heap' = [heap EXCEPT ![metrics[id]] = Merged(heap[metrics[id]], e)] /\ metrics' = metrics
        BY <1>3, <2>2 DEF receiveMetric
      <3>2. heap'[metrics'[id]] = Merged(heap[metrics[id]], e)
        BY <1>1, <2>2, <3>1, UpdateLemma DEF IInv, Lists
      <3> QED
        BY <1>1, <2>1, <2>2, <3>2, MetaMerged
    <2>3. CASE id \notin DOMAIN metrics
      <3>1. heap' = Append(heap, NewMetric(mi, e)) /\ metrics' = Register(metrics, id, Len(heap) + 1)
        BY <1>3, <2>3 DEF receiveMetric
      <3>2. heap'[metrics'[id]] = NewMetric(mi, e)
        <4>1. metrics'[id] = Len(heap) + 1
          BY <2>3, <3>1, RegisterLemma
        <4> QED
          BY <3>1, <4>1, AppendLemma DEF IInv, Lists
      <3>3. U = {}
        <4>1. SUFFICES ASSUME NEW x \in U PROVE FALSE
          OBVIOUS
        <4>2. PICK d \in Untouched : \E i \in Passed(d) :
                sent[d].entries[i].op = "metric" /\ MetricIdAt(sent[d], i) = id
          BY SentMember
        <4> QED
          BY <2>3, <4>2 DEF StoredIsVisible, IsVisible
      <3> QED
        BY <2>1, <3>2, <3>3, MetaNew
    <2> QED
      BY <2>2, <2>3
  <1>4. CASE ~ (receiveMetric(c) /\ id = mid)
    <2>1. R \subseteq R' /\ U' \subseteq U
      BY <1>2, <1>4, SentStep
    <2>2. /\ id \in DOMAIN metrics
          /\ heap'[metrics'[id]].desc = heap[metrics[id]].desc
          /\ heap'[metrics'[id]].meta = heap[metrics[id]].meta
          /\ heap'[metrics'[id]].conflict = heap[metrics[id]].conflict
      <3>1. CASE receiveMetric(c)
        <4>1. CASE mid \in DOMAIN metrics
          <5>1. /\ heap' = [heap EXCEPT ![metrics[mid]] = Merged(heap[metrics[mid]], e)]
                /\ metrics' = metrics
            BY <3>1, <4>1 DEF receiveMetric
          <5>2. metrics[id] # metrics[mid]
            BY <1>4, <3>1, <4>1, <5>1 DEF IInv, FiledUnderOwnHash, Metric
          <5>3. heap'[metrics'[id]] = heap[metrics[id]]
            BY <1>1, <5>1, <5>2, UpdateLemma DEF IInv, Lists
          <5> QED
            BY <5>1, <5>3
        <4>2. CASE mid \notin DOMAIN metrics
          <5>1. heap' = Append(heap, NewMetric(mi, e)) /\ metrics' = Register(metrics, mid, Len(heap) + 1)
            BY <3>1, <4>2 DEF receiveMetric
          <5>2. id \in DOMAIN metrics /\ metrics'[id] = metrics[id]
            <6> HIDE DEF mid
            <6> QED
              BY <1>4, <3>1, <5>1 DEF Register
          <5>3. heap'[metrics'[id]] = heap[metrics[id]]
            BY <1>1, <5>1, <5>2, AppendLemma DEF IInv, Lists
          <5> QED
            BY <5>2, <5>3
        <4> QED
          BY <4>1, <4>2
      <3>2. CASE receivePoint(c)
        <4> DEFINE r == cur[c]
                   v == [attr |-> e.attr, points |-> <<>>]
                   m == [heap[r] EXCEPT !.streams = Register(@, hashValue(e.attr), v)]
        <4>1. heap' = [heap EXCEPT ![r] = m] /\ metrics' = metrics
          BY <3>2 DEF receivePoint
        <4>2. heap'[metrics'[id]] = IF metrics[id] = r THEN m ELSE heap[metrics[id]]
          BY <1>1, <4>1, UpdateLemma DEF IInv, Lists
        <4>3. metrics[id] = r => /\ m.desc = heap[r].desc /\ m.meta = heap[r].meta
                                 /\ m.conflict = heap[r].conflict
          BY <1>1, <4>1 DEF MetricShape
        <4> HIDE DEF m
        <4> QED
          BY <4>1, <4>2, <4>3
      <3>3. CASE appendPoint(c)
        <4>1. metrics' = metrics
          BY <3>3 DEF appendPoint
        <4> QED
          BY <1>1, <3>3, <4>1, PointAppended
      <3>4. UNCHANGED <<heap, metrics>> \/ receiveMetric(c) \/ receivePoint(c) \/ appendPoint(c)
        BY DEF Step, receiveRequestMeta, receiveResource, receiveScope, receiveSpan,
               receiveLog, beginDump, endDump, convertPanic, printPanic, Unwind, respond, MoveTo, store
      <3> QED
        BY <3>1, <3>2, <3>3, <3>4
    <2> QED
      BY <1>1, <2>1, <2>2, MetaStays
  <1> QED
    BY <1>3, <1>4

(***************************************************************************)
(* Once, and in order                                                      *)
(***************************************************************************)

\* Which action leaves an entry behind.
LEMMA PassKind ==
    ASSUME TypeOK, NEW c \in Call, Step(c), Passes(c)
    PROVE  /\ Entry(c).op = "span" => receiveSpan(c)
           /\ Entry(c).op = "log" => receiveLog(c)
           /\ Entry(c).op = "metric" => receiveMetric(c)
           /\ Entry(c).op = "point" => appendPoint(c)
  <1>1. ~ Remains(c)
    BY DEF Remains, Passes, TypeOK
  <1>2. \/ receiveResource(c) \/ receiveScope(c) \/ receiveSpan(c) \/ receiveLog(c)
        \/ receiveMetric(c) \/ appendPoint(c)
    BY <1>1, PassLemma DEF Step
  <1> QED
    BY <1>2 DEF receiveResource, receiveScope, receiveSpan, receiveLog, receiveMetric,
                appendPoint, At, TypeOK

\* The logs of a call stay in the order it sent them.
LEMMA OrderStep ==
    ASSUME IInv, \A d \in Call : Exact(d), StoredIsVisible, KeptOnceInOrder, Next,
           NEW d \in Untouched', NEW i \in Passed(d)', NEW j \in Passed(d)', i < j,
           sent'[d].entries[i].op = "log", sent'[d].entries[j].op = "log"
    PROVE  \E p, q \in 1 .. Len(logs') :
                p < q /\ logs'[p] = AsStored(sent'[d], i) /\ logs'[q] = AsStored(sent'[d], j)
  <1>1. /\ resets' = resets /\ sent' = sent /\ d \in Call
        /\ Len(logs) \in Nat /\ DOMAIN logs = 1 .. Len(logs)
    <2>1. resets' = resets /\ sent' = sent /\ d \in Call
      BY UntouchedStep
    <2>2. IsList(logs)
      BY DEF IInv, Lists
    <2> QED
      BY <2>1, <2>2 DEF IsList
  <1>2. Keeps(logs, logs') /\ DOMAIN logs' = 1 .. Len(logs')
    <2>1. IsList(logs')
      BY LocationsStep DEF IInv, Locations
    <2> QED
      BY <1>1, <2>1, RegistriesGrow DEF IInv, IsList
  <1>3. CASE d \in Untouched /\ i \in Passed(d) /\ j \in Passed(d)
    <2>1. PICK p, q \in 1 .. Len(logs) :
              p < q /\ logs[p] = AsStored(sent[d], i) /\ logs[q] = AsStored(sent[d], j)
      BY <1>1, <1>3 DEF KeptOnceInOrder
    <2> QED
      BY <1>1, <1>2, <2>1 DEF Keeps
  <1>4. CASE d \in Untouched /\ Step(d) /\ Passes(d) /\ i \in Passed(d) /\ j = n[d]
    <2>1. Entry(d).op = "log" /\ receiveLog(d)
      BY <1>1, <1>4, PassKind DEF Entry, IInv
    <2>2. PICK p \in 1 .. Len(logs) : logs[p] = AsStored(sent[d], i)
      BY <1>1, <1>4 DEF StoredIsVisible, IsVisible
    <2>3. WithContext(d, Entry(d).val) = AsStored(sent[d], j)
      <3>1. pc[d] \in {"run", "append"} /\ n[d] <= Len(sent[d].entries)
        BY <1>4 DEF Passes
      <3> QED
        BY <1>1, <1>4, <2>1, <3>1, StoresContext
    <2>4. logs' = Append(logs, AsStored(sent[d], j))
      BY <2>1, <2>3 DEF receiveLog
    <2>5. Len(logs') = Len(logs) + 1 /\ logs'[Len(logs) + 1] = AsStored(sent[d], j)
      BY <2>4, AppendLemma DEF IInv, Lists
    <2>6. p \in 1 .. Len(logs') /\ logs'[p] = AsStored(sent[d], i) /\ p < Len(logs) + 1
      BY <1>1, <1>2, <2>2 DEF Keeps
    <2> QED
      BY <1>1, <2>5, <2>6
  <1>5. /\ d \in Untouched
        /\ \/ Passed(d)' = Passed(d)
           \/ /\ Step(d) /\ Passes(d) /\ Passed(d)' = Passed(d) \cup {n[d]}
              /\ \A k \in Passed(d) : k < n[d]
    BY UntouchedStep
  <1>6. n[d] \in Nat /\ Passed(d) \subseteq Nat
    <2>1. Len(sent[d].entries) \in Nat
      BY <1>1, BatchAssumption DEF IInv, TypeOK
    <2> QED
      BY <1>1, <2>1 DEF IInv, TypeOK, Passed
  <1>7. j = n[d] => i \in Passed(d) \/ Passed(d)' = Passed(d)
    BY <1>5, <1>6
  <1>8. i = n[d] => j \notin Passed(d) \/ Passed(d)' = Passed(d)
    <2>1. CASE \A k \in Passed(d) : k < n[d]
      BY <1>6, <2>1
    <2> QED
      BY <1>5, <2>1
  <1> QED
    BY <1>3, <1>4, <1>5, <1>7, <1>8

\* What PointPlaces lists, before a step and after it.
LEMMA PlacesMember ==
    ASSUME NEW x
    PROVE  /\ x \in PointPlaces <=>
                \E id \in DOMAIN metrics : \E st \in DOMAIN heap[metrics[id]].streams :
                    \E k \in DOMAIN heap[metrics[id]].streams[st].points : x = <<id, st, k>>
           /\ x \in PointPlaces' <=>
                \E id \in DOMAIN metrics' : \E st \in DOMAIN heap'[metrics'[id]].streams :
                    \E k \in DOMAIN heap'[metrics'[id]].streams[st].points : x = <<id, st, k>>
  BY DEF PointPlaces, Metric, Points

\* A step adds the point it appends to those that can be read.
LEMMA PlacesStep ==
    ASSUME IInv, NEW c \in Call, Exact(c), Step(c)
    PROVE  /\ ~ appendPoint(c) => PointPlaces' = PointPlaces
           /\ appendPoint(c) /\ cut[c] = "none" =>
                \E x : x \notin PointPlaces /\ PointPlaces' = PointPlaces \cup {x}
  <1>1. ASSUME ~ appendPoint(c)
        PROVE  PointPlaces' = PointPlaces
    <2>1. ASSUME NEW id \in DOMAIN metrics, NEW st \in DOMAIN heap[metrics[id]].streams
          PROVE  /\ id \in DOMAIN metrics' /\ st \in DOMAIN heap'[metrics'[id]].streams
                 /\ heap'[metrics'[id]].streams[st] = heap[metrics[id]].streams[st]
      <3>1. id \in DOMAIN metrics' /\ metrics'[id] = metrics[id] /\ metrics[id] \in 1 .. Len(heap)
        BY <1>1, StreamsStep
      <3>2. /\ DOMAIN heap[metrics[id]].streams \subseteq DOMAIN heap'[metrics[id]].streams
            /\ \A s \in DOMAIN heap[metrics[id]].streams :
                    heap'[metrics[id]].streams[s] = heap[metrics[id]].streams[s]
        BY <1>1, <3>1, StreamsStep
      <3> QED
        BY <3>1, <3>2
    <2>2. ASSUME NEW id \in DOMAIN metrics', NEW st \in DOMAIN heap'[metrics'[id]].streams,
                 NEW k \in DOMAIN heap'[metrics'[id]].streams[st].points
          PROVE  id \in DOMAIN metrics /\ st \in DOMAIN heap[metrics[id]].streams
      <3>1. id \in DOMAIN metrics
        BY <1>1, StreamsStep
      <3>2. metrics'[id] = metrics[id] /\ metrics[id] \in 1 .. Len(heap)
        BY <1>1, <3>1, StreamsStep
      <3>3. st \in DOMAIN heap[metrics[id]].streams
        BY <1>1, <3>2, StreamsStep, EmptyLemma
      <3> QED
        BY <3>1, <3>3
    <2>3. \A x : x \in PointPlaces' <=> x \in PointPlaces
      BY <2>1, <2>2, PlacesMember
    <2> QED
      BY <2>3
  <1>2. ASSUME appendPoint(c), cut[c] = "none"
        PROVE  \E x : x \notin PointPlaces /\ PointPlaces' = PointPlaces \cup {x}
    <2> DEFINE r == cur[c]
               sid == hashValue(Entry(c).attr)
               p == [val |-> Entry(c).val, req |-> ids[c].req]
               old == heap[r].streams[sid].points
               mid == MetricIdAt(sent[c], n[c])
               x == <<mid, sid, Len(old) + 1>>
    <2>1. /\ pc[c] \in {"run", "append"} /\ n[c] <= Len(sent[c].entries)
          /\ Entry(c).op = "point" /\ metrics' = metrics
      BY <1>2 DEF appendPoint, IInv, TypeOK
    <2>2. /\ mid \in DOMAIN metrics /\ metrics[mid] = r /\ r \in 1 .. Len(heap)
          /\ \A id \in DOMAIN metrics : metrics[id] = r => id = mid
      BY <1>2, <2>1, StoresContext
    <2>3. /\ sid \in DOMAIN heap[r].streams /\ IsList(old)
          /\ heap'[r].streams[sid].points = Append(old, p)
          /\ DOMAIN heap'[r].streams = DOMAIN heap[r].streams
          /\ \A s \in DOMAIN heap[r].streams :
                s # sid => heap'[r].streams[s] = heap[r].streams[s]
          /\ \A q \in 1 .. Len(heap) : q # r => heap'[q] = heap[q]
      BY <1>2, PointAppended
    <2>4. DOMAIN Append(old, p) = DOMAIN old \cup {Len(old) + 1} /\ Len(old) + 1 \notin DOMAIN old
      <3> HIDE DEF old, p
      <3>1. /\ Len(old) \in Nat /\ DOMAIN old = 1 .. Len(old)
            /\ DOMAIN Append(old, p) = 1 .. Len(old) + 1
        BY <2>3, AppendLemma
      <3> QED
        BY <3>1
    <2>5. \A id \in DOMAIN metrics : metrics[id] \in 1 .. Len(heap)
      BY DEF IInv, TypeOK
    <2>6. ASSUME NEW id \in DOMAIN metrics, id # mid
          PROVE  heap'[metrics'[id]] = heap[metrics[id]]
      BY <2>1, <2>2, <2>3, <2>5, <2>6
    <2> HIDE DEF r, sid, p, old, mid
    <2>7. ASSUME NEW y
          PROVE  y \in PointPlaces' <=> y \in PointPlaces \/ y = x
      <3>1. ASSUME y \in PointPlaces'
            PROVE  y \in PointPlaces \/ y = x
        <4>1. PICK id \in DOMAIN metrics' : \E st \in DOMAIN heap'[metrics'[id]].streams :
                \E k \in DOMAIN heap'[metrics'[id]].streams[st].points : y = <<id, st, k>>
          BY <3>1, PlacesMember
        <4>2. PICK st \in DOMAIN heap'[metrics'[id]].streams :
                \E k \in DOMAIN heap'[metrics'[id]].streams[st].points : y = <<id, st, k>>
          BY <4>1
        <4>3. PICK k \in DOMAIN heap'[metrics'[id]].streams[st].points : y = <<id, st, k>>
          BY <4>2
        <4>4. CASE id = mid /\ st = sid
          <5>1. DOMAIN heap'[r].streams[sid].points = DOMAIN old \cup {Len(old) + 1}
            BY <2>3, <2>4
          <5>2. k \in DOMAIN old \cup {Len(old) + 1}
            BY <2>1, <2>2, <4>3, <4>4, <5>1
          <5>3. CASE k = Len(old) + 1
            BY <4>3, <4>4, <5>3
          <5>4. CASE k \in DOMAIN old
            <6>1. k \in DOMAIN heap[metrics[mid]].streams[sid].points
              BY <2>2, <5>4 DEF old
            <6>2. sid \in DOMAIN heap[metrics[mid]].streams
              BY <2>2, <2>3
            <6> QED
              BY <2>2, <4>3, <4>4, <6>1, <6>2, PlacesMember
          <5> QED
            BY <5>2, <5>3, <5>4
        <4>5. CASE id = mid /\ st # sid
          <5>1. st \in DOMAIN heap[r].streams /\ heap'[r].streams[st] = heap[r].streams[st]
            BY <2>1, <2>2, <2>3, <4>5
          <5>2. /\ st \in DOMAIN heap[metrics[mid]].streams
                /\ k \in DOMAIN heap[metrics[mid]].streams[st].points
            BY <2>1, <2>2, <4>5, <5>1
          <5> QED
            BY <2>2, <4>3, <4>5, <5>2, PlacesMember
        <4>6. CASE id # mid
          <5>1. heap'[metrics'[id]] = heap[metrics[id]] /\ id \in DOMAIN metrics
            BY <2>1, <2>6, <4>6
          <5> QED
            BY <4>3, <5>1, PlacesMember
        <4> QED
          BY <4>4, <4>5, <4>6
      <3>2. ASSUME y \in PointPlaces
            PROVE  y \in PointPlaces'
        <4>1. PICK id \in DOMAIN metrics : \E st \in DOMAIN heap[metrics[id]].streams :
                \E k \in DOMAIN heap[metrics[id]].streams[st].points : y = <<id, st, k>>
          BY <3>2, PlacesMember
        <4>2. PICK st \in DOMAIN heap[metrics[id]].streams :
                \E k \in DOMAIN heap[metrics[id]].streams[st].points : y = <<id, st, k>>
          BY <4>1
        <4>3. PICK k \in DOMAIN heap[metrics[id]].streams[st].points : y = <<id, st, k>>
          BY <4>2
        <4>4. /\ id \in DOMAIN metrics' /\ st \in DOMAIN heap'[metrics'[id]].streams
              /\ k \in DOMAIN heap'[metrics'[id]].streams[st].points
          <5>1. CASE id = mid /\ st = sid
            <6>1. k \in DOMAIN heap'[r].streams[sid].points
              <7>1. k \in DOMAIN old
                BY <2>2, <5>1 DEF old
              <7> QED
                BY <2>3, <2>4, <7>1
            <6> QED
              BY <2>1, <2>2, <2>3, <5>1, <6>1
          <5>2. CASE id = mid /\ st # sid
            BY <2>1, <2>2, <2>3, <5>2
          <5>3. CASE id # mid
            BY <2>1, <2>6, <5>3
          <5> QED
            BY <5>1, <5>2, <5>3
        <4> QED
          BY <4>3, <4>4, PlacesMember
      <3>3. x \in PointPlaces'
        <4>1. /\ mid \in DOMAIN metrics' /\ sid \in DOMAIN heap'[metrics'[mid]].streams
              /\ Len(old) + 1 \in DOMAIN heap'[metrics'[mid]].streams[sid].points
          BY <2>1, <2>2, <2>3, <2>4
        <4> QED
          BY <4>1, PlacesMember
      <3> QED
        BY <3>1, <3>2, <3>3
    <2>8. x \notin PointPlaces
      <3>1. SUFFICES ASSUME x \in PointPlaces PROVE FALSE
        OBVIOUS
      <3>2. PICK id \in DOMAIN metrics : \E st \in DOMAIN heap[metrics[id]].streams :
              \E k \in DOMAIN heap[metrics[id]].streams[st].points : x = <<id, st, k>>
        BY <3>1, PlacesMember
      <3>3. PICK st \in DOMAIN heap[metrics[id]].streams :
              \E k \in DOMAIN heap[metrics[id]].streams[st].points : x = <<id, st, k>>
        BY <3>2
      <3>4. PICK k \in DOMAIN heap[metrics[id]].streams[st].points : x = <<id, st, k>>
        BY <3>3
      <3>5. id = mid /\ st = sid /\ k = Len(old) + 1
        BY <3>4
      <3>6. k \in DOMAIN old
        BY <2>2, <3>5 DEF old
      <3> QED
        BY <2>4, <3>5, <3>6
    <2> HIDE DEF x
    <2> QED
      BY <2>7, <2>8
  <1> QED
    BY <1>1, <1>2

\* The logs and the points that can be read are as many as were stored.
Counted ==
    /\ IsFiniteSet(StoredBy(Remaining, "log")) /\ IsFiniteSet(StoredBy(Remaining, "point"))
    /\ IsFiniteSet(PointPlaces)
    /\ Len(logs) = Cardinality(StoredBy(Remaining, "log"))
    /\ Cardinality(PointPlaces) = Cardinality(StoredBy(Remaining, "point"))

\* One more on either side is as many again.
LEMMA OneMore ==
    ASSUME NEW S, IsFiniteSet(S), NEW S2, NEW x, x \notin S, S2 = S \cup {x}
    PROVE  IsFiniteSet(S2) /\ Cardinality(S2) = Cardinality(S) + 1
  BY FS_AddElement

\* The steps of a call store one item for each entry of that kind.
LEMMA CountStep ==
    ASSUME IInv, \A d \in Call : Exact(d), Counted, NEW c \in Call, Step(c),
           cut[c] # "during"
    PROVE  Counted'
  <1>1. (receiveLog(c) <=> Passes(c) /\ Entry(c).op = "log")
        /\ (appendPoint(c) <=> Passes(c) /\ Entry(c).op = "point")
    <2>1. receiveLog(c) => Passes(c) /\ Entry(c).op = "log"
      BY PassLemma DEF IInv, receiveLog, At
    <2>2. appendPoint(c) => Passes(c) /\ Entry(c).op = "point"
      BY PassLemma DEF IInv, TypeOK, appendPoint
    <2> QED
      BY <2>1, <2>2, PassKind DEF IInv
  <1>2. IF receiveLog(c) THEN Len(logs') = Len(logs) + 1 ELSE logs' = logs
    <2>1. CASE receiveLog(c)
      BY <2>1, AppendLemma DEF receiveLog, IInv, Lists
    <2>2. CASE ~ receiveLog(c)
      BY <2>2 DEF Step, receiveRequestMeta, receiveResource, receiveScope, receiveSpan,
                  receiveMetric, receivePoint, appendPoint, beginDump, endDump, convertPanic, printPanic, Unwind,
                  respond, MoveTo, store
    <2> QED
      BY <2>1, <2>2
  <1>3. appendPoint(c) => cut[c] = "none"
    BY DEF appendPoint, IInv, Locals, TypeOK
  <1>4. /\ IsFiniteSet(StoredBy(Remaining, "log")')
        /\ Len(logs') = Cardinality(StoredBy(Remaining, "log")')
    <2> DEFINE S == StoredBy(Remaining, "log")
               T == StoredBy(Remaining, "log")'
               x == <<c, n[c]>>
    <2>1. receiveLog(c) => x \notin S /\ T = S \cup {x}
      BY <1>1, StoredStep
    <2>2. ~ receiveLog(c) => T = S
      BY <1>1, StoredStep
    <2>3. IsFiniteSet(S) /\ Len(logs) = Cardinality(S)
      BY DEF Counted
    <2> HIDE DEF S, T, x
    <2>4. IsFiniteSet(T) /\ Len(logs') = Cardinality(T)
      <3>1. CASE receiveLog(c)
        BY <1>2, <2>1, <2>3, <3>1, OneMore
      <3>2. CASE ~ receiveLog(c)
        BY <1>2, <2>2, <2>3, <3>2
      <3> QED
        BY <3>1, <3>2
    <2> QED
      BY <2>4 DEF T
  <1>5. /\ IsFiniteSet(StoredBy(Remaining, "point")') /\ IsFiniteSet(PointPlaces')
        /\ Cardinality(PointPlaces') = Cardinality(StoredBy(Remaining, "point")')
    <2> DEFINE S == StoredBy(Remaining, "point")
               T == StoredBy(Remaining, "point")'
               P == PointPlaces
               Q == PointPlaces'
               x == <<c, n[c]>>
    <2>1. appendPoint(c) => x \notin S /\ T = S \cup {x}
      BY <1>1, StoredStep
    <2>2. ~ appendPoint(c) => T = S
      BY <1>1, StoredStep
    <2>3. appendPoint(c) => \E y : y \notin P /\ Q = P \cup {y}
      BY <1>3, PlacesStep
    <2>4. ~ appendPoint(c) => Q = P
      BY PlacesStep
    <2>5. IsFiniteSet(S) /\ IsFiniteSet(P) /\ Cardinality(P) = Cardinality(S)
      BY DEF Counted
    <2> HIDE DEF S, T, P, Q, x
    <2>6. IsFiniteSet(T) /\ IsFiniteSet(Q) /\ Cardinality(Q) = Cardinality(T)
      <3>1. CASE appendPoint(c)
        <4>1. PICK y : y \notin P /\ Q = P \cup {y}
          BY <2>3, <3>1
        <4>2. IsFiniteSet(T) /\ Cardinality(T) = Cardinality(S) + 1
          BY <2>1, <2>5, <3>1, OneMore
        <4>3. IsFiniteSet(Q) /\ Cardinality(Q) = Cardinality(P) + 1
          BY <2>5, <4>1, OneMore
        <4> QED
          BY <2>5, <4>2, <4>3
      <3>2. CASE ~ appendPoint(c)
        BY <2>2, <2>4, <2>5, <3>2
      <3> QED
        BY <3>1, <3>2
    <2> QED
      BY <2>6 DEF T, Q
  <1> QED
    BY <1>4, <1>5 DEF Counted

\* What a reset, or the start of the process, leaves.
Emptied ==
    /\ requests = <<>> /\ resources = <<>> /\ scopes = <<>>
    /\ traces = <<>> /\ logs = <<>> /\ metrics = <<>>

LEMMA CountEmpty ==
    ASSUME Emptied, \A c \in Remaining : Passed(c) = {}
    PROVE  Counted
  <1>1. \A op : StoredBy(Remaining, op) = {}
    <2> SUFFICES ASSUME NEW op, NEW x \in StoredBy(Remaining, op) PROVE FALSE
      OBVIOUS
    <2> QED
      BY StoredMember
  <1>2. PointPlaces = {}
    BY EmptyLemma DEF Emptied, PointPlaces
  <1>3. Len(logs) = 0
    BY EmptyLemma DEF Emptied
  <1>4. IsFiniteSet({}) /\ Cardinality({}) = 0
    BY FS_EmptySet
  <1> QED
    BY <1>1, <1>2, <1>3, <1>4 DEF Counted

LEMMA CountEmptyNext ==
    ASSUME Emptied', \A c \in Remaining' : Passed(c)' = {}
    PROVE  Counted'
  <1>1. \A op : StoredBy(Remaining, op)' = {}
    <2> SUFFICES ASSUME NEW op, NEW x \in StoredBy(Remaining, op)' PROVE FALSE
      OBVIOUS
    <2> QED
      BY StoredMemberNext
  <1>2. PointPlaces' = {}
    BY EmptyLemma DEF Emptied, PointPlaces
  <1>3. Len(logs') = 0
    BY EmptyLemma DEF Emptied
  <1>4. IsFiniteSet({}) /\ Cardinality({}) = 0
    BY FS_EmptySet
  <1> QED
    BY <1>1, <1>2, <1>3, <1>4 DEF Counted

\* A call between the two critical sections of receivePoints, or dead there.
WriterOf(c, r, st) ==
    /\ cur[c] = r
    /\ pc[c] \in {"append", "failed"}
    /\ n[c] <= Len(sent[c].entries) /\ Entry(c).op = "point"
    /\ hashValue(Entry(c).attr) = st

\* It stays there until it has appended its point.
LEMMA WriterStep ==
    ASSUME TypeOK, NEW c \in Call, Step(c), NEW d \in Call, NEW r, NEW st, WriterOf(d, r, st)
    PROVE  WriterOf(d, r, st)' \/ (d = c /\ appendPoint(c))
  <1>1. sent' = sent
    BY StepIsLocal
  <1>2. CASE d # c
    BY <1>1, <1>2, StepIsLocal DEF WriterOf, Entry
  <1>3. CASE d = c /\ pc[c] = "failed"
    <2>1. ~ (convertPanic(c) \/ printPanic(c))
      BY <1>3, PanicLemma
    <2>2. FALSE
      BY <1>3, <2>1 DEF Step, receiveRequestMeta, receiveResource, receiveScope, receiveSpan,
                  receiveLog, receiveMetric, receivePoint, appendPoint, At, InLoop, beginDump,
                  endDump, MoveTo, respond
    <2> QED
      BY <2>2
  <1>4. CASE d = c /\ pc[c] = "append"
    <2>1. appendPoint(c) \/ convertPanic(c) \/ printPanic(c)
      BY <1>4 DEF Step, receiveRequestMeta, receiveResource, receiveScope, receiveSpan,
                  receiveLog, receiveMetric, receivePoint, At, InLoop, beginDump,
                  endDump, MoveTo, respond
    <2>2. convertPanic(c) \/ printPanic(c) =>
                pc'[c] \in {"append", "failed"} /\ n' = n /\ cur' = cur
      BY <1>4, PanicLemma DEF TypeOK
    <2> QED
      BY <1>1, <1>4, <2>1, <2>2 DEF WriterOf, Entry
  <1> QED
    BY <1>2, <1>3, <1>4 DEF WriterOf

\* A stream is empty only as long as there is one.
LEMMA WritersStep ==
    ASSUME IInv, EmptyStreamHasWriter, NEW c \in Call, Step(c)
    PROVE  EmptyStreamHasWriter'
  <1> SUFFICES ASSUME NEW r \in 1 .. Len(heap'), NEW st \in DOMAIN heap'[r].streams,
                      heap'[r].streams[st].points = <<>>
               PROVE  \E d \in Call : WriterOf(d, r, st)'
    BY DEF EmptyStreamHasWriter, WriterOf
  <1>1. sent' = sent
    BY StepIsLocal DEF IInv
  <1>2. ASSUME r \in 1 .. Len(heap), st \in DOMAIN heap[r].streams,
               heap[r].streams[st].points = <<>>,
               ~ (appendPoint(c) /\ r = cur[c] /\ st = hashValue(Entry(c).attr))
        PROVE  \E d \in Call : WriterOf(d, r, st)'
    <2>1. PICK d \in Call : WriterOf(d, r, st)
      BY <1>2 DEF EmptyStreamHasWriter, WriterOf
    <2>2. WriterOf(d, r, st)' \/ (d = c /\ appendPoint(c))
      BY <2>1, WriterStep DEF IInv
    <2> QED
      BY <1>2, <2>1, <2>2 DEF WriterOf
  <1>3. CASE appendPoint(c)
    <2> DEFINE q == cur[c]
               s == hashValue(Entry(c).attr)
               p == [val |-> Entry(c).val, req |-> ids[c].req]
               old == heap[q].streams[s].points
    <2>1. r \in 1 .. Len(heap)
      BY <1>3, PointAppended
    <2>2. CASE r = q /\ st = s
      <3>1. heap'[r].streams[st].points = Append(old, p) /\ IsList(old)
        BY <1>3, <2>2, PointAppended
      <3>2. Len(Append(old, p)) = Len(old) + 1 /\ Len(old) \in Nat
        <4> HIDE DEF old, p
        <4> QED
          BY <3>1, AppendLemma
      <3>3. Append(old, p) # <<>>
        <4> DEFINE new == Append(old, p)
        <4>1. Len(new) # 0
          BY <3>2
        <4>2. Len(<<>>) = 0
          BY EmptyLemma
        <4> HIDE DEF new
        <4>3. new # <<>>
          BY <4>1, <4>2, Zenon
        <4> QED
          BY <4>3 DEF new
      <3> QED
        BY <3>1, <3>3
    <2>3. CASE ~ (r = q /\ st = s)
      <3>1. st \in DOMAIN heap[r].streams /\ heap'[r].streams[st] = heap[r].streams[st]
        <4>1. CASE r # q
          <5>1. heap'[r] = heap[r]
            BY <1>3, <2>1, <4>1, PointAppended
          <5> QED
            BY <5>1
        <4>2. CASE r = q
          <5>1. /\ DOMAIN heap'[q].streams = DOMAIN heap[q].streams
                /\ \A k \in DOMAIN heap[q].streams :
                      k # s => heap'[q].streams[k] = heap[q].streams[k]
            BY <1>3, PointAppended
          <5> QED
            BY <2>3, <4>2, <5>1
        <4> QED
          BY <4>1, <4>2
      <3> QED
        BY <1>2, <2>1, <2>3, <3>1
    <2> QED
      BY <2>2, <2>3
  <1>4. CASE ~ appendPoint(c)
    <2>1. r \in 1 .. Len(heap)
      BY <1>4, StreamsStep
    <2>2. CASE st \in DOMAIN heap[r].streams
      <3>1. heap'[r].streams[st] = heap[r].streams[st]
        BY <1>4, <2>1, <2>2, StreamsStep
      <3> QED
        BY <1>2, <1>4, <2>1, <2>2, <3>1
    <2>3. CASE st \notin DOMAIN heap[r].streams
      <3>1. receivePoint(c) /\ r = cur[c] /\ st = hashValue(Entry(c).attr)
        BY <1>4, <2>1, <2>3, StreamsStep
      <3>2. WriterOf(c, r, st)'
        BY <1>1, <3>1 DEF receivePoint, At, InLoop, WriterOf, Entry, IInv, TypeOK
      <3> QED
        BY <3>2
    <2> QED
      BY <2>2, <2>3
  <1> QED
    BY <1>3, <1>4

(***************************************************************************)
(* The invariant                                                           *)
(***************************************************************************)

LEMMA CountedLemma ==
    /\ Countable /\ KeptOnceInOrder => ((\A c \in Call : cut[c] # "during") => Counted)
    /\ ((\A c \in Call : cut[c] # "during") => Counted) => Countable
  BY DEF Countable, KeptOnceInOrder, Counted

\* The invariant holds at the start,
LEMMA StoreInit ==
    ASSUME Init
    PROVE  StoreInv
  <1>1. IInv
    BY InvInit
  <1>2. /\ Emptied /\ Len(heap) = 0 /\ DOMAIN traces = {} /\ DOMAIN metrics = {} /\ Len(logs) = 0
        /\ n = [c \in Call |-> 1] /\ pc = [c \in Call |-> "idle"]
    BY EmptyLemma DEF Init, Emptied
  <1>3. Untouched = {} /\ Remaining = {}
    BY <1>2 DEF Untouched, Remaining
  <1>4. \A c \in Call : Exact(c)
    BY <1>2 DEF Exact
  <1>5. StoredIsVisible /\ NothingSurvivesReset /\ Agreed /\ ConflictIffDiffers /\ LongestDescription
    BY <1>2, <1>3 DEF StoredIsVisible, NothingSurvivesReset, Agreed, ConflictIffDiffers,
                      LongestDescription
  <1>6. Counted
    BY <1>2, <1>3, CountEmpty
  <1>7. Countable /\ KeptOnceInOrder
    BY <1>3, <1>6 DEF Countable, KeptOnceInOrder, Counted
  <1>8. EmptyStreamHasWriter
    BY <1>2 DEF EmptyStreamHasWriter
  <1> QED
    BY <1>1, <1>4, <1>5, <1>7, <1>8 DEF StoreInv

\* a step that changes neither the store nor a call preserves it,
LEMMA StoreUnchanged ==
    ASSUME StoreInv, UNCHANGED <<store, call, cut>>, IInv'
    PROVE  StoreInv'
  <1>1. /\ sent' = sent /\ pc' = pc /\ n' = n /\ ids' = ids /\ cur' = cur /\ cut' = cut
        /\ requests' = requests /\ resources' = resources /\ scopes' = scopes
        /\ traces' = traces /\ logs' = logs /\ metrics' = metrics /\ heap' = heap
    BY DEF store, call
  <1>2. \A c \in Call : Exact(c)'
    BY <1>1 DEF StoreInv, Exact, LastOp
  <1>3. \A c : Passed(c)' = Passed(c)
    BY <1>1 DEF Passed
  <1>4. Untouched' = Untouched /\ Remaining' = Remaining
    BY <1>1 DEF Untouched, Remaining
  <1>5. \A op : StoredBy(Remaining, op)' = StoredBy(Remaining, op)
    BY <1>1, <1>3, <1>4 DEF StoredBy
  <1>6. \A id : /\ SentTo(Remaining, id)' = SentTo(Remaining, id)
                /\ SentTo(Untouched, id)' = SentTo(Untouched, id)
    BY <1>1, <1>3, <1>4 DEF SentTo, StoredBy
  <1>7. \A id : Metric(id)' = Metric(id) /\ \A st : Points(id, st)' = Points(id, st)
    BY <1>1 DEF Metric, Points
  <1>8. PointPlaces' = PointPlaces
    BY <1>1, <1>7 DEF PointPlaces
  <1>9. StoredIsVisible'
    <2>1. \A b, i : IsVisible(b, i)' <=> IsVisible(b, i)
      BY <1>1 DEF IsVisible, Metric, Points, AsStored, AsPoint, MetricIdAt
    <2> QED
      BY <1>1, <1>3, <1>4, <2>1 DEF StoreInv, StoredIsVisible
  <1>10. NothingSurvivesReset'
    BY <1>1, <1>5, <1>7 DEF StoreInv, NothingSurvivesReset
  <1>11. Agreed' /\ ConflictIffDiffers' /\ LongestDescription'
    BY <1>1, <1>6, <1>7 DEF StoreInv, Agreed, ConflictIffDiffers, LongestDescription
  <1>12. Countable' /\ KeptOnceInOrder'
    BY <1>1, <1>3, <1>4, <1>5, <1>8 DEF StoreInv, Countable, KeptOnceInOrder
  <1>13. EmptyStreamHasWriter'
    BY <1>1 DEF StoreInv, EmptyStreamHasWriter, Entry
  <1> QED
    BY <1>2, <1>9, <1>10, <1>11, <1>12, <1>13 DEF StoreInv

\* a reset empties everything it is about but the metric objects,
LEMMA StoreReset ==
    ASSUME StoreInv, reset, up, IInv'
    PROVE  StoreInv'
  <1>1. /\ Emptied' /\ DOMAIN traces' = {} /\ DOMAIN metrics' = {} /\ Len(logs') = 0
        /\ sent' = sent /\ pc' = pc /\ n' = n /\ cur' = cur /\ heap' = heap
    BY EmptyLemma DEF reset, noteReset, resetContext, Emptied, call
  <1>2. Next
    BY DEF Next
  <1>3. \A c \in Call : Exact(c)'
    BY <1>2, ExactStep DEF StoreInv
  <1>4. StoredIsVisible'
    BY <1>2, VisibleStep DEF StoreInv
  <1>5. NothingSurvivesReset' /\ Agreed' /\ ConflictIffDiffers' /\ LongestDescription'
    BY <1>1 DEF NothingSurvivesReset, Agreed, ConflictIffDiffers, LongestDescription
  <1>6. ASSUME NEW c \in Call, pc[c] = "idle"
        PROVE  Passed(c)' = {} /\ Passed(c) = {}
    BY <1>1, <1>6, BatchAssumption DEF Passed, StoreInv, IInv, Locals, TypeOK
  <1>7. ASSUME NEW c \in Call, pc[c] # "idle"
        PROVE  cut'[c] = IF pc[c] \in {"done", "failed"} THEN "after" ELSE "during"
    BY <1>7 DEF reset, noteReset
  <1>8. (\A c \in Call : cut'[c] # "during") => Counted'
    <2>1. SUFFICES ASSUME \A c \in Call : cut'[c] # "during" PROVE Counted'
      OBVIOUS
    <2>2. \A c \in Remaining' : Passed(c)' = {}
      BY <1>1, <1>6, <1>7, <2>1 DEF Remaining
    <2> QED
      BY <1>1, <2>2, CountEmptyNext
  <1>9. \A c \in Untouched' : Passed(c)' = {}
    BY <1>1, <1>6, <1>7 DEF Untouched
  <1>10. Countable' /\ KeptOnceInOrder'
    BY <1>8, <1>9 DEF Countable, KeptOnceInOrder, Counted
  <1>11. EmptyStreamHasWriter'
    BY <1>1 DEF StoreInv, EmptyStreamHasWriter, Entry
  <1> QED
    BY <1>3, <1>4, <1>5, <1>10, <1>11 DEF StoreInv

\* and the steps of the calls preserve it.
LEMMA StoreStep ==
    ASSUME StoreInv, [Next]_vars
    PROVE  StoreInv'
  <1>1. IInv'
    BY InvStep DEF StoreInv
  <1>2. CASE UNCHANGED vars
    BY <1>1, <1>2, StoreUnchanged DEF vars
  <1>3. CASE Next /\ reset
    BY <1>1, <1>3, StoreReset DEF Next
  <1>4. CASE \E c, d \in Call : race(c, d)
    BY <1>1, <1>4, StoreUnchanged DEF race
  <1>5. ASSUME Next, NEW c \in Call, Step(c)
        PROVE  StoreInv'
    <2>1. \A d \in Call : Exact(d)'
      BY <1>5, ExactStep DEF StoreInv
    <2>2. StoredIsVisible' /\ NothingSurvivesReset'
      BY <1>5, VisibleStep, OriginStep DEF StoreInv
    <2>3. Agreed' /\ ConflictIffDiffers' /\ LongestDescription'
      BY <1>5, MetadataStep DEF StoreInv
    <2>4. EmptyStreamHasWriter'
      BY <1>5, WritersStep DEF StoreInv
    <2>5. (\A d \in Call : cut'[d] # "during") => Counted'
      <3>1. cut' = cut
        BY <1>5, StepIsLocal DEF StoreInv, IInv
      <3> QED
        BY <1>5, <3>1, CountedLemma, CountStep DEF StoreInv
    <2>6. \A d \in Untouched' : \A i, j \in Passed(d)' :
            i < j /\ sent'[d].entries[i].op = "log" /\ sent'[d].entries[j].op = "log" =>
                \E p, q \in 1 .. Len(logs') :
                    p < q /\ logs'[p] = AsStored(sent'[d], i) /\ logs'[q] = AsStored(sent'[d], j)
      BY <1>5, OrderStep DEF StoreInv
    <2>7. Countable' /\ KeptOnceInOrder'
      <3>1. \A b, i : AsStored(b, i)' = AsStored(b, i)
        BY DEF AsStored
      <3> QED
        BY <2>5, <2>6, <3>1 DEF Countable, KeptOnceInOrder, Counted
    <2> QED
      BY <1>1, <2>1, <2>2, <2>3, <2>4, <2>7 DEF StoreInv
  <1> QED
    BY <1>2, <1>3, <1>4, <1>5 DEF Next

\* The store, the variables of the goroutines and what was sent agree in every
\* state, for any calls, batches, hash function and resets.
THEOREM Invariant == Spec => []StoreInv
  <1>1. Init => StoreInv
    BY StoreInit
  <1>2. StoreInv /\ [Next]_vars => StoreInv'
    BY StoreStep
  <1> QED
    BY <1>1, <1>2, PTL DEF Spec

\* What a call has stored is found by the UI under the ids of its own context,
\* unless a reset came after the call began: no interleaving loses or hides a
\* resource, a scope, a span, a log, a metric or a data point.
THEOREM Visible == Spec => []StoredIsVisible
  <1>1. StoreInv => StoredIsVisible
    BY DEF StoreInv
  <1> QED
    BY <1>1, Invariant, PTL

\* Everything listed was stored by a call that was not over at the last reset,
\* under the ids of that call's own context.
THEOREM OfThisReset == Spec => []NothingSurvivesReset
  <1>1. StoreInv => NothingSurvivesReset
    BY DEF StoreInv
  <1> QED
    BY <1>1, Invariant, PTL

\* Every log and every data point is kept exactly once, unless a reset came
\* across a running call, and the logs of a call stay in order.
THEOREM OnceInOrder == Spec => []KeptOnceInOrder
  <1>1. StoreInv => KeptOnceInOrder
    BY DEF StoreInv
  <1> QED
    BY <1>1, Invariant, PTL

\* A metric is marked when, and only when, what was received for it differed,
\* in whatever order it came.
THEOREM Conflicts == Spec => []ConflictIffDiffers
  <1>1. StoreInv => ConflictIffDiffers
    BY DEF StoreInv
  <1> QED
    BY <1>1, Invariant, PTL

\* The description shown of a metric was received, and is the longest.
THEOREM Longest == Spec => []LongestDescription
  <1>1. StoreInv => LongestDescription
    BY DEF StoreInv
  <1> QED
    BY <1>1, Invariant, PTL

\* A stream without points is that of a call which is about to append to it,
\* or died before it could.
THEOREM Writers == Spec => []EmptyStreamHasWriter
  <1>1. StoreInv => EmptyStreamHasWriter
    BY DEF StoreInv
  <1> QED
    BY <1>1, Invariant, PTL
=============================================================================
