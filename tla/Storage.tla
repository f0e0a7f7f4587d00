------------------------------ MODULE Storage ------------------------------
(***************************************************************************)
(* The in-memory store of TelUI (storage.go) and the goroutines that fill  *)
(* it: one per gRPC Export call or OTLP/HTTP POST, each walking the three  *)
(* nested loops of receiveTraces, receiveLogs or receiveMetrics, and the   *)
(* UI's reset, which may run between any two of their critical sections.   *)
(*                                                                         *)
(* Every access made between st.Lock() and st.Unlock() is one atomic step; *)
(* whatever a goroutine keeps across an Unlock (its reqId, resId, scopeId  *)
(* and the *metric and *metricStream pointers) is state of the call.       *)
(*                                                                         *)
(* What a call carries is written as the list of loop bodies it runs, in   *)
(* order: a resource, a scope under it, the items of that scope, and under *)
(* a metric its data points.  Values are opaque; hashValue is any function *)
(* of them, so two values may share an id.                                 *)
(*                                                                         *)
(* A definition commented "Mutant" is no part of the model: it is a wrong  *)
(* form of the one below it, which PROJECT.json pairs with the property    *)
(* that tells them apart.                                                  *)
(***************************************************************************)
EXTENDS Naturals, Sequences, FiniteSets, SequencesExt

CONSTANTS
    Call,           \* the Export calls and POSTs received, each by its own goroutine
    Batch,          \* what a call may carry, see BatchAssumption
    Bad,            \* the values whose conversion ends in panic(...)
    Unprintable,    \* the values with a string that is not UTF-8, which toJson refuses
    Verbose,        \* the -verbose flag
    MaxReset,       \* bound on the number of resets
    hashValue(_)    \* the 64-bit FNV hash of a value (hashValue, getMetricId)

\* The operations whose loop body may come just before that of an operation.
Follows ==
    LET any == {"res", "scope", "span", "log", "metric", "point"}
    IN  [res |-> any, scope |-> any,
         span |-> {"scope", "span"}, log |-> {"scope", "log"},
         metric |-> {"scope", "metric", "point"}, point |-> {"metric", "point"}]

\* The order the nested loops impose on the entries of a batch.
WellNested(e) ==
    /\ \A i \in 1 .. Len(e) : e[i].op \in DOMAIN Follows
    /\ Len(e) > 0 => e[1].op = "res"
    /\ \A i \in 2 .. Len(e) : e[i - 1].op \in Follows[e[i].op]
    /\ \A i \in 1 .. Len(e) : e[i].op = "metric" => Len(e[i].desc) \in Nat

ASSUME BatchAssumption ==
    /\ Verbose \in BOOLEAN
    /\ MaxReset \in Nat
    /\ \A b \in Batch : Len(b.entries) \in Nat /\ WellNested(b.entries)

VARIABLES
    \* the struct storage
    requests, resources, scopes, traces, logs, metrics,
    heap,     \* every metric object ever made; a *metric is an index into it
    up,       \* FALSE once a panic or the runtime has killed the process
    \* the goroutine of each call
    sent,     \* the batch it carries
    pc, n,    \* where it is, and the entry it is at
    ids,      \* its variables reqId, resId and scopeId
    cur,      \* its variable m2 (parameter m of receivePoints)
    \* history
    resets,   \* how many resets there were
    cut       \* what they found: the call not started, in flight, or over

store == <<requests, resources, scopes, traces, logs, metrics, heap>>
call  == <<sent, pc, n, ids, cur>>
vars  == <<store, up, call, resets, cut>>

NoId == <<>>

Init ==
    /\ requests = <<>> /\ resources = <<>> /\ scopes = <<>>
    /\ traces = <<>> /\ logs = <<>> /\ metrics = <<>> /\ heap = <<>>
    /\ up = TRUE
    /\ sent \in [Call -> Batch]
    /\ pc = [c \in Call |-> "idle"]
    /\ n = [c \in Call |-> 1]
    /\ ids = [c \in Call |-> [req |-> NoId, res |-> NoId, scope |-> NoId]]
    /\ cur = [c \in Call |-> 0]
    /\ resets = 0
    /\ cut = [c \in Call |-> "none"]

-----------------------------------------------------------------------------
(* Walking the batch *)

Entry(c) == sent[c].entries[n[c]]

\* What convertMap, convertValue or convertExemplars is given at this point.
Converted(c) ==
    CASE pc[c] = "append"        -> Entry(c).val
      [] Entry(c).op = "point"   -> Entry(c).attr
      [] Entry(c).op = "metric"  -> Entry(c).meta
      [] OTHER                   -> Entry(c).val

InLoop(c) == pc[c] = "run" /\ n[c] <= Len(sent[c].entries)

At(c, op) == InLoop(c) /\ Entry(c).op = op /\ Converted(c) \notin Bad

\* With -verbose a request, resource, scope, span or log is printed once it is
\* stored, by a call that holds the value itself: nobody else can tell, unless
\* toJson panics.
AfterPrint(v) == IF Verbose /\ v \in Unprintable THEN "panic" ELSE "run"

\* The end of a loop body, which prints v.
Advance(c, v) ==
    /\ n' = [n EXCEPT ![c] = @ + 1]
    /\ pc' = [pc EXCEPT ![c] = AfterPrint(v)]

\* Mutant: the loop goes on only if there is nothing to print.
AdvanceMetricUnprinted(c) ==
    LET e == sent[c].entries
        pointNext == n[c] < Len(e) /\ e[n[c] + 1].op = "point"
    IN  /\ n' = [n EXCEPT ![c] = IF Verbose /\ ~pointNext THEN @ ELSE @ + 1]
        /\ pc' = [pc EXCEPT ![c] = IF Verbose /\ ~pointNext THEN "dump" ELSE "run"]

\* A metric is printed when its points are all in.
AdvanceMetric(c) ==
    LET e == sent[c].entries
        pointNext == n[c] < Len(e) /\ e[n[c] + 1].op = "point"
    IN  /\ n' = [n EXCEPT ![c] = @ + 1]
        /\ pc' = [pc EXCEPT ![c] = IF Verbose /\ ~pointNext THEN "dump" ELSE "run"]

-----------------------------------------------------------------------------
(* The registries: a value is kept under its hash, the first one wins *)

\* Mutants: the last value under a key wins; only the last key is kept.
RegisterOverwrites(m, k, v) ==
    [x \in DOMAIN m \cup {k} |-> IF x = k THEN v ELSE m[x]]
RegisterEvicts(m, k, v) == [x \in {k} |-> IF x \in DOMAIN m THEN m[x] ELSE v]

\* m[k] = v unless m has k already.
Register(m, k, v) ==
    [x \in DOMAIN m \cup {k} |-> IF x \in DOMAIN m THEN m[x] ELSE v]

\* receiveRequestMeta: the call starts.
receiveRequestMeta(c) ==
    LET meta == sent[c].meta
    IN  /\ pc[c] = "idle"
        /\ requests' = Register(requests, hashValue(meta), meta)
        /\ ids' = [ids EXCEPT ![c].req = hashValue(meta)]
        /\ pc' = [pc EXCEPT ![c] = AfterPrint(meta)]
        /\ UNCHANGED <<resources, scopes, traces, logs, metrics, heap, up,
                       sent, n, cur, resets, cut>>

\* Mutant: the id of the resource is not kept.
receiveResourceNameless(c) ==
    LET res == Entry(c).val
    IN  /\ At(c, "res")
        /\ resources' = Register(resources, hashValue(res), res)
        /\ Advance(c, res)
        /\ UNCHANGED <<requests, scopes, traces, logs, metrics, heap, up,
                       sent, ids, cur, resets, cut>>

\* What is printed is the resource that is registered (res = res2).
receiveResource(c) ==
    LET res == Entry(c).val
        known == Register(resources, hashValue(res), res)
    IN  /\ At(c, "res")
        /\ resources' = known
        /\ ids' = [ids EXCEPT ![c].res = hashValue(res)]
        /\ Advance(c, known[hashValue(res)])
        /\ UNCHANGED <<requests, scopes, traces, logs, metrics, heap, up,
                       sent, cur, resets, cut>>

receiveScope(c) ==
    LET scope == Entry(c).val
        known == Register(scopes, hashValue(scope), scope)
    IN  /\ At(c, "scope")
        /\ scopes' = known
        /\ ids' = [ids EXCEPT ![c].scope = hashValue(scope)]
        /\ Advance(c, known[hashValue(scope)])
        /\ UNCHANGED <<requests, resources, traces, logs, metrics, heap, up,
                       sent, cur, resets, cut>>

\* Mutant: the ids of the resource and the scope are swapped.
WithContextSwapped(c, v) ==
    [val |-> v, req |-> ids[c].req, res |-> ids[c].scope, scope |-> ids[c].res]

\* What a stored span or log holds: its content and the ids of its context.
WithContext(c, v) ==
    [val |-> v, req |-> ids[c].req, res |-> ids[c].res, scope |-> ids[c].scope]

SpansOf(tid) == IF tid \in DOMAIN traces THEN traces[tid] ELSE <<>>

\* The innermost body of receiveTraces: a span received twice is dropped.
receiveSpan(c) ==
    LET e == Entry(c)
        spans == Register(SpansOf(e.trace), e.span, WithContext(c, e.val))
    IN  /\ At(c, "span")
        /\ traces' = [t \in DOMAIN traces \cup {e.trace} |->
                        IF t = e.trace THEN spans ELSE traces[t]]
        /\ Advance(c, e.val)
        /\ UNCHANGED <<requests, resources, scopes, logs, metrics, heap, up,
                       sent, ids, cur, resets, cut>>

\* Mutant: a log equal to one that is there is dropped, as a span is.
receiveLogOnce(c) ==
    LET log == WithContext(c, Entry(c).val)
    IN  /\ At(c, "log")
        /\ logs' = IF \E k \in DOMAIN logs : logs[k] = log THEN logs ELSE Append(logs, log)
        /\ Advance(c, Entry(c).val)
        /\ UNCHANGED <<requests, resources, scopes, traces, metrics, heap, up,
                       sent, ids, cur, resets, cut>>

\* Mutant: the newest log comes first.
receiveLogFirst(c) ==
    /\ At(c, "log")
    /\ logs' = <<WithContext(c, Entry(c).val)>> \o logs
    /\ Advance(c, Entry(c).val)
    /\ UNCHANGED <<requests, resources, scopes, traces, metrics, heap, up,
                   sent, ids, cur, resets, cut>>

\* The innermost body of receiveLogs.
receiveLog(c) ==
    /\ At(c, "log")
    /\ logs' = Append(logs, WithContext(c, Entry(c).val))
    /\ Advance(c, Entry(c).val)
    /\ UNCHANGED <<requests, resources, scopes, traces, metrics, heap, up,
                   sent, ids, cur, resets, cut>>

-----------------------------------------------------------------------------
(* Metrics *)

\* The fields res and scope of metricIdentity, and one for the name, type,
\* unit, temporality and monotonicity.
MetricIdentity(res, scope, name) == <<res, scope, name>>

\* Mutant: the metadata is not compared.
DiffersInDesc(m, e) == m.desc # e.desc

\* Whether a known metric arrives with another description or other metadata.
Differs(m, e) == m.desc # e.desc \/ hashValue(m.meta) # hashValue(e.meta)

\* Mutant: the last description wins.
MergedLatest(m, e) ==
    IF ~Differs(m, e) THEN m ELSE [m EXCEPT !.conflict = TRUE, !.desc = e.desc]

\* The metric after that: flagged, with the longer of the two descriptions.
Merged(m, e) ==
    IF ~Differs(m, e) THEN m
    ELSE [m EXCEPT !.conflict = TRUE,
                   !.desc = IF Len(e.desc) > Len(@) THEN e.desc ELSE @]

\* Mutants: the identity that is kept has the resource for its scope; a metric
\* starts with the stream of the empty attributes.
NewMetricUnscoped(mi, e) ==
    [mi |-> MetricIdentity(mi[1], mi[1], mi[3]), desc |-> e.desc, meta |-> e.meta,
     conflict |-> FALSE, streams |-> <<>>]
NewMetricWithStream(mi, e) ==
    [mi |-> mi, desc |-> e.desc, meta |-> e.meta, conflict |-> FALSE,
     streams |-> [st \in {hashValue("")} |-> [attr |-> "", points |-> <<>>]]]

NewMetric(mi, e) ==
    [mi |-> mi, desc |-> e.desc, meta |-> e.meta, conflict |-> FALSE, streams |-> <<>>]

\* The critical section of receiveMetrics: find the metric or make it, and
\* keep the pointer.
receiveMetric(c) ==
    LET e == Entry(c)
        mi == MetricIdentity(ids[c].res, ids[c].scope, e.name)
        metricId == hashValue(mi)
    IN  /\ At(c, "metric")
        /\ \/ /\ metricId \in DOMAIN metrics
              /\ heap' = [heap EXCEPT ![metrics[metricId]] = Merged(@, e)]
              /\ cur' = [cur EXCEPT ![c] = metrics[metricId]]
              /\ UNCHANGED metrics
           \/ /\ metricId \notin DOMAIN metrics
              /\ heap' = Append(heap, NewMetric(mi, e))
              /\ cur' = [cur EXCEPT ![c] = Len(heap) + 1]
              /\ metrics' = Register(metrics, metricId, Len(heap) + 1)
        /\ AdvanceMetric(c)
        /\ UNCHANGED <<requests, resources, scopes, traces, logs, up,
                       sent, ids, resets, cut>>

\* First critical section of receivePoints: find the stream or make it.
receivePoint(c) ==
    LET attr == Entry(c).attr
        new == [attr |-> attr, points |-> <<>>]
    IN  /\ At(c, "point")
        /\ heap' = [heap EXCEPT ![cur[c]].streams = Register(@, hashValue(attr), new)]
        /\ pc' = [pc EXCEPT ![c] = "append"]
        /\ UNCHANGED <<requests, resources, scopes, traces, logs, metrics, up,
                       sent, n, ids, cur, resets, cut>>

\* Second one, through the stream's pointer, once makePoint has returned.
appendPoint(c) ==
    LET e == Entry(c)
        point == [val |-> e.val, req |-> ids[c].req]
    IN  /\ pc[c] = "append"
        /\ Converted(c) \notin Bad
        /\ heap' = [heap EXCEPT ![cur[c]].streams[hashValue(e.attr)].points
                                  = Append(@, point)]
        /\ AdvanceMetric(c)
        /\ UNCHANGED <<requests, resources, scopes, traces, logs, metrics, up,
                       sent, ids, cur, resets, cut>>

-----------------------------------------------------------------------------
(* -verbose prints the whole metric object, what other calls have put into *)
(* it included, without the lock: from beginDump to endDump                *)

MoveTo(c, from, to) ==
    /\ pc[c] = from
    /\ pc' = [pc EXCEPT ![c] = to]
    /\ UNCHANGED <<store, up, sent, n, ids, cur, resets, cut>>

Printable(m) ==
    /\ m.mi[3] \notin Unprintable /\ m.desc \notin Unprintable /\ m.meta \notin Unprintable
    /\ \A st \in DOMAIN m.streams :
        /\ m.streams[st].attr \notin Unprintable
        /\ \A k \in DOMAIN m.streams[st].points :
            m.streams[st].points[k].val \notin Unprintable

beginDump(c) == MoveTo(c, "dump", "dumping")

\* A print that was past the place of a later point is one that ended before
\* that point came.
endDump(c) == MoveTo(c, "dumping", "run") /\ Printable(heap[cur[c]])

\* The call is about to write what toJson reads of the metric object m: its
\* description, its map of streams or the points of one (not its conflict).
Writes(c, m) ==
    \/ At(c, "metric") /\ LET e == Entry(c)
                              id == hashValue(MetricIdentity(ids[c].res, ids[c].scope, e.name))
                          IN  /\ id \in DOMAIN metrics
                              /\ metrics[id] = m
                              /\ Len(e.desc) > Len(heap[m].desc)
    \/ At(c, "point") /\ cur[c] = m /\ hashValue(Entry(c).attr) \notin DOMAIN heap[m].streams
    \/ pc[c] = "append" /\ cur[c] = m /\ Converted(c) \notin Bad

\* A map, a string or a slice header read while another goroutine writes it:
\* the Go runtime may end the process (or the read gets through, as above).
race(c, d) ==
    /\ pc[d] = "dumping"
    /\ Writes(c, cur[d])
    /\ up' = FALSE
    /\ UNCHANGED <<store, call, resets, cut>>

-----------------------------------------------------------------------------
(* The ends of a call, and the reset *)

\* A value of a type the conversions do not know.
ConvertPanics(c) == (InLoop(c) \/ pc[c] = "append") /\ Converted(c) \in Bad

\* A string that is not UTF-8, in what the call has just stored or in the
\* metric it prints.
PrintPanics(c) ==
    pc[c] = "panic" \/ (pc[c] = "dumping" /\ ~Printable(heap[cur[c]]))

\* Mutant: no server recovers a panic.
UnwindEnds(c) ==
    /\ up' = FALSE
    /\ UNCHANGED <<store, call, resets, cut>>

\* net/http recovers the panic of a handler and closes the connection, grpc-go
\* lets it end the process.
Unwind(c) ==
    /\ \/ /\ sent[c].via = "http"
          /\ pc' = [pc EXCEPT ![c] = "failed"]
          /\ UNCHANGED up
       \/ /\ sent[c].via = "grpc"
          /\ up' = FALSE
          /\ UNCHANGED pc
    /\ UNCHANGED <<store, sent, n, ids, cur, resets, cut>>

convertPanic(c) == ConvertPanics(c) /\ Unwind(c)
printPanic(c) == PrintPanics(c) /\ Unwind(c)

\* The loops are over: the response is sent.
respond(c) == n[c] > Len(sent[c].entries) /\ MoveTo(c, "run", "done")

\* What a reset is to the calls.
noteReset ==
    /\ resets < MaxReset
    /\ resets' = resets + 1
    /\ cut' = [c \in Call |-> CASE pc[c] = "idle"               -> cut[c]
                                [] pc[c] \in {"done", "failed"} -> "after"
                                [] OTHER                        -> "during"]
    /\ UNCHANGED <<up, call>>

resetContext == requests' = <<>> /\ resources' = <<>> /\ scopes' = <<>>

\* Mutants: a reset that also frees the metric objects, or that forgets the
\* traces, or the metrics.
resetFreesMetrics ==
    noteReset /\ resetContext /\ traces' = <<>> /\ logs' = <<>> /\ metrics' = <<>> /\ heap' = <<>>
resetKeepsTraces ==
    noteReset /\ resetContext /\ logs' = <<>> /\ metrics' = <<>> /\ UNCHANGED <<traces, heap>>
resetKeepsMetrics ==
    noteReset /\ resetContext /\ traces' = <<>> /\ logs' = <<>> /\ UNCHANGED <<metrics, heap>>

\* storage.reset, on POST /api/reset.
reset ==
    /\ noteReset
    /\ resetContext
    /\ traces' = <<>> /\ logs' = <<>> /\ metrics' = <<>>
    /\ UNCHANGED heap

Step(c) ==
    \/ receiveRequestMeta(c) \/ receiveResource(c) \/ receiveScope(c)
    \/ receiveSpan(c) \/ receiveLog(c)
    \/ receiveMetric(c) \/ receivePoint(c) \/ appendPoint(c)
    \/ beginDump(c) \/ endDump(c)
    \/ convertPanic(c) \/ printPanic(c) \/ respond(c)

Next ==
    /\ up
    /\ \/ \E c \in Call : Step(c)
       \/ \E c, d \in Call : race(c, d)
       \/ reset

Spec == Init /\ [][Next]_vars

-----------------------------------------------------------------------------
(* What a batch says should be there *)

\* The last entry of a kind at or before entry i: the context of entry i.
Context(b, i, op) == Max({j \in 1 .. i : b.entries[j].op = op})

ContextId(b, i, op) == hashValue(b.entries[Context(b, i, op)].val)

MetricIdAt(b, i) ==
    LET k == Context(b, i, "metric")
    IN  hashValue(MetricIdentity(ContextId(b, k, "res"), ContextId(b, k, "scope"),
                                 b.entries[k].name))

\* The entries of a call whose loop bodies are over.
Passed(c) == {i \in 1 .. Len(sent[c].entries) : i < n[c]}

\* The calls that no reset has come across, and those whose data the last
\* reset has not erased as a whole.
Untouched == {c \in Call : pc[c] # "idle" /\ cut[c] = "none"}
Remaining == {c \in Call : pc[c] # "idle" /\ cut[c] # "after"}

\* The entries of one kind that a set of calls has stored.
StoredBy(C, op) ==
    {x \in UNION {{c} \X Passed(c) : c \in C} : sent[x[1]].entries[x[2]].op = op}

AsStored(b, i) ==
    [val |-> b.entries[i].val, req |-> hashValue(b.meta),
     res |-> ContextId(b, i, "res"), scope |-> ContextId(b, i, "scope")]

AsPoint(b, i) == [val |-> b.entries[i].val, req |-> hashValue(b.meta)]

\* The entries of a set of calls that were stored under one metric id.
SentTo(C, id) ==
    {sent[x[1]].entries[x[2]] : x \in {y \in StoredBy(C, "metric") :
                                          MetricIdAt(sent[y[1]], y[2]) = id}}

\* The metric the UI gets for an id, and its points in one stream.
Metric(id) == heap[metrics[id]]
Points(id, st) == Metric(id).streams[st].points

-----------------------------------------------------------------------------
(* Properties *)

Keeps(f, g) == \A x \in DOMAIN f : x \in DOMAIN g /\ g[x] = f[x]

\* The state has the shape the code gives it: loop positions inside the
\* batch, pointers to metrics that were made.
TypeOK ==
    /\ up \in BOOLEAN
    /\ sent \in [Call -> Batch]
    /\ pc \in [Call -> {"idle", "run", "append", "panic", "dump", "dumping",
                      "done", "failed"}]
    /\ n \in [Call -> Nat \ {0}]
    /\ \A c \in Call :
        /\ n[c] <= Len(sent[c].entries) + 1
        /\ pc[c] = "append" => n[c] <= Len(sent[c].entries) /\ Entry(c).op = "point"
    /\ DOMAIN ids = Call /\ \A c \in Call : DOMAIN ids[c] = {"req", "res", "scope"}
    /\ cur \in [Call -> 0 .. Len(heap)]
    /\ \A id \in DOMAIN metrics : metrics[id] \in 1 .. Len(heap)
    /\ \A r \in 1 .. Len(heap) :
        /\ DOMAIN heap[r] = {"mi", "desc", "meta", "conflict", "streams"}
        /\ \A st \in DOMAIN heap[r].streams :
            DOMAIN heap[r].streams[st] = {"attr", "points"}
    /\ resets \in 0 .. MaxReset
    /\ cut \in [Call -> {"none", "during", "after"}]

\* Whatever the hash function, and whoever registered it first, an object is
\* found under its own hash (storage.go:45-106, 302-308, 451-475), so an id the
\* UI shows can be recomputed from what it shows.
FiledUnderOwnHash ==
    /\ \A id \in DOMAIN requests : hashValue(requests[id]) = id
    /\ \A id \in DOMAIN resources : hashValue(resources[id]) = id
    /\ \A id \in DOMAIN scopes : hashValue(scopes[id]) = id
    /\ \A id \in DOMAIN metrics :
        /\ hashValue(Metric(id).mi) = id
        /\ \A st \in DOMAIN Metric(id).streams :
            hashValue(Metric(id).streams[st].attr) = st

\* What a call that a reset overtook while it ran had registered before.
Overtaken == {c \in Call : cut[c] = "during"}
LostIds(op) ==
    UNION {{hashValue(sent[c].entries[i].val) :
              i \in {j \in 1 .. Len(sent[c].entries) : sent[c].entries[j].op = op}} :
            c \in Overtaken}

\* The ids that resolve, or have that excuse.
ReqIds == DOMAIN requests \cup {hashValue(sent[c].meta) : c \in Overtaken}
ResIds == DOMAIN resources \cup LostIds("res")
ScopeIds == DOMAIN scopes \cup LostIds("scope")

\* The ids in everything the UI can list resolve to a registered request,
\* resource and scope, which metrics.js:31 and :34 rely on; the only ones
\* that may not are those a running call kept in its local variables across
\* a reset (storage.go:34-43 against 109-121).
DanglingNeedsReset ==
    /\ \A t \in DOMAIN traces : \A s \in DOMAIN traces[t] :
        LET span == traces[t][s]
        IN  span.req \in ReqIds /\ span.res \in ResIds /\ span.scope \in ScopeIds
    /\ \A k \in 1 .. Len(logs) :
        logs[k].req \in ReqIds /\ logs[k].res \in ResIds /\ logs[k].scope \in ScopeIds
    /\ \A id \in DOMAIN metrics :
        /\ Metric(id).mi[1] \in ResIds /\ Metric(id).mi[2] \in ScopeIds
        /\ \A st \in DOMAIN Metric(id).streams : \A k \in DOMAIN Points(id, st) :
            Points(id, st)[k].req \in ReqIds

\* The UI finds entry i of a batch under the ids computed from its context.
IsVisible(b, i) ==
    LET e == b.entries[i]
    IN  CASE e.op = "res"    -> hashValue(e.val) \in DOMAIN resources
          [] e.op = "scope"  -> hashValue(e.val) \in DOMAIN scopes
          [] e.op = "span"   -> e.trace \in DOMAIN traces /\ e.span \in DOMAIN traces[e.trace]
          [] e.op = "log"    -> \E k \in 1 .. Len(logs) : logs[k] = AsStored(b, i)
          [] e.op = "metric" -> MetricIdAt(b, i) \in DOMAIN metrics
          [] e.op = "point"  ->
                LET id == MetricIdAt(b, i)
                    st == hashValue(e.attr)
                IN  /\ id \in DOMAIN metrics
                    /\ st \in DOMAIN Metric(id).streams
                    /\ \E k \in DOMAIN Points(id, st) : Points(id, st)[k] = AsPoint(b, i)

\* What a call has stored, and a fortiori what it has acknowledged, can be
\* read by the UI under the ids computed from its own context, unless a reset
\* came after the call began: no interleaving with other calls loses a span,
\* a log, or a point written through a *metric pointer.
StoredIsVisible == \A c \in Untouched : \A i \in Passed(c) : IsVisible(sent[c], i)

\* Everything the UI can list was stored by a call that was not over at the
\* last reset, with the ids of that call's own context: a reset leaves nothing
\* behind, and no interleaving mixes the context of two calls.
NothingSurvivesReset ==
    /\ \A t \in DOMAIN traces : \A s \in DOMAIN traces[t] :
        \E x \in StoredBy(Remaining, "span") :
            LET e == sent[x[1]].entries[x[2]]
            IN  e.trace = t /\ e.span = s /\ AsStored(sent[x[1]], x[2]) = traces[t][s]
    /\ \A k \in 1 .. Len(logs) :
        \E x \in StoredBy(Remaining, "log") : AsStored(sent[x[1]], x[2]) = logs[k]
    /\ \A id \in DOMAIN metrics : \A st \in DOMAIN Metric(id).streams :
        \A k \in DOMAIN Points(id, st) :
            \E x \in StoredBy(Remaining, "point") :
                /\ MetricIdAt(sent[x[1]], x[2]) = id
                /\ AsPoint(sent[x[1]], x[2]) = Points(id, st)[k]

\* Where the data points are that the UI can list.
PointPlaces ==
    UNION {UNION {{<<id, st, k>> : k \in DOMAIN Points(id, st)} :
                    st \in DOMAIN Metric(id).streams} : id \in DOMAIN metrics}

\* Each log and each data point is kept exactly once, whatever the
\* interleaving, when no running call was overtaken by a reset; and the logs
\* of one call stay in the order it sent them.
KeptOnceInOrder ==
    /\ (\A c \in Call : cut[c] # "during") =>
        /\ Len(logs) = Cardinality(StoredBy(Remaining, "log"))
        /\ Cardinality(PointPlaces) = Cardinality(StoredBy(Remaining, "point"))
    /\ \A c \in Untouched : \A i, j \in Passed(c) :
        i < j /\ sent[c].entries[i].op = "log" /\ sent[c].entries[j].op = "log" =>
            \E a, b \in 1 .. Len(logs) :
                a < b /\ logs[a] = AsStored(sent[c], i) /\ logs[b] = AsStored(sent[c], j)

\* A metric is marked as conflicting when, and only when, two different
\* descriptions or metadata were received for it (storage.go:459-467); the
\* order in which they came does not matter.
ConflictIffDiffers ==
    LET disagree(C, id) ==
            \E x, y \in SentTo(C, id) : x.desc # y.desc \/ hashValue(x.meta) # hashValue(y.meta)
    IN  \A id \in DOMAIN metrics :
            /\ disagree(Untouched, id) => Metric(id).conflict
            /\ Metric(id).conflict => disagree(Remaining, id)

\* The description shown is one that was received, and none received for the
\* metric since is longer (storage.go:464-466).
LongestDescription ==
    \A id \in DOMAIN metrics :
        /\ \E x \in SentTo(Remaining, id) : x.desc = Metric(id).desc
        /\ \A x \in SentTo(Untouched, id) : Len(x.desc) <= Len(Metric(id).desc)

\* A stream without points, which makes metrics.js:111 throw ("pts" is left
\* out, objects.go:533), is only ever seen between the two critical sections
\* of receivePoints, or after a call that died between them.
EmptyStreamHasWriter ==
    \A r \in 1 .. Len(heap) : \A st \in DOMAIN heap[r].streams :
        heap[r].streams[st].points = <<>> =>
            \E c \in Call : /\ cur[c] = r
                            /\ pc[c] \in {"append", "failed"}
                            /\ n[c] <= Len(sent[c].entries) /\ Entry(c).op = "point"
                            /\ hashValue(Entry(c).attr) = st

\* The process has ended on a gRPC call whose batch holds a value that cannot
\* be converted.
EndedByGrpcPanic == \E c \in Call : sent[c].via = "grpc" /\ ConvertPanics(c)

\* -verbose is documented as "Log incoming data" (main.go:22): it adds no way
\* for the process to end.
VerboseOnlyLogs == ~up => EndedByGrpcPanic

\* An entry that brings a string which is not UTF-8.
Refused(e) ==
    CASE e.op = "metric" -> \/ e.name \in Unprintable \/ e.desc \in Unprintable
                            \/ e.meta \in Unprintable
      [] e.op = "point"  -> e.attr \in Unprintable \/ e.val \in Unprintable
      [] OTHER           -> e.val \in Unprintable

\* Entry j of d is of the same resource, scope or metric as entry i of c, or is
\* that entry.
SameObject(c, i, d, j) ==
    LET e == sent[c].entries[i]
        f == sent[d].entries[j]
    IN  CASE e.op \in {"res", "scope"}    -> f.op = e.op /\ hashValue(f.val) = hashValue(e.val)
          [] e.op \in {"metric", "point"} ->
                /\ f.op \in {"metric", "point"}
                /\ MetricIdAt(sent[d], j) = MetricIdAt(sent[c], i)
          [] OTHER                        -> d = c /\ j = i

\* A gRPC call stored an object, and it or another call, whichever its
\* transport, has brought a string into it that cannot be printed.
EndedByGrpcPrint ==
    \E c \in Call :
        /\ sent[c].via = "grpc" /\ pc[c] \in {"panic", "dumping"}
        /\ \/ n[c] = 1 /\ sent[c].meta \in Unprintable
           \/ n[c] > 1 /\ \E d \in Call : \E j \in 1 .. Len(sent[d].entries) :
                /\ pc[d] # "idle" /\ j <= n[d]
                /\ Refused(sent[d].entries[j])
                /\ SameObject(c, n[c] - 1, d, j)

\* A call that prints a metric is overtaken by one at an entry of the same
\* metric (storage.go:546-548 against 297-319, 456-477).
EndedByRace ==
    \E c, d \in Call :
        /\ pc[d] = "dumping" /\ pc[c] \in {"run", "append"}
        /\ n[c] <= Len(sent[c].entries) /\ Entry(c).op \in {"metric", "point"}
        /\ MetricIdAt(sent[c], n[c]) = MetricIdAt(sent[d], n[d] - 1)

\* What ends the process is known from what the calls carry.  The flag adds
\* two ways, both over one object that calls share, and no other: calls that
\* carry different resources, scopes and metrics never meet, whatever resets
\* do between storing and printing.
EndsOverShared ==
    ~up => EndedByGrpcPanic \/ (Verbose /\ (EndedByGrpcPrint \/ EndedByRace))

\* The steps that a call has to take at most: an entry takes two of its own
\* and, after a metric, two for the print.
StepsLeft(c) ==
    LET left == 4 * (Len(sent[c].entries) + 1 - n[c])
    IN  CASE pc[c] = "idle" -> left + 5
          [] pc[c] = "dump" -> left + 4
          [] pc[c] = "dumping" -> left + 3
          [] pc[c] = "run" -> left + 2
          [] pc[c] \in {"append", "panic"} -> left + 1
          [] OTHER -> 0

\* Whatever happens brings one call nearer to its end and sets back no other;
\* but for the resets, which leave every call where it is, and the end of the
\* process.  So no call is made to begin anything again, and what it carries
\* bounds the number of its steps, however others interfere.
EveryStepAdvances ==
    [][\/ \E c \in Call : /\ StepsLeft(c)' < StepsLeft(c)
                          /\ \A d \in Call \ {c} : StepsLeft(d)' = StepsLeft(d)
       \/ /\ resets' > resets \/ up' # up
          /\ \A d \in Call : StepsLeft(d)' = StepsLeft(d)
      ]_vars

\* Until the next reset, what an id, a log's index or a metric's stream gave
\* the UI once (serve_ui.go:66-186) it goes on giving: nothing is replaced,
\* logs and points are only appended.
StableUntilReset ==
    [][resets' = resets =>
        /\ Keeps(requests, requests') /\ Keeps(resources, resources')
        /\ Keeps(scopes, scopes') /\ Keeps(metrics, metrics') /\ Keeps(logs, logs')
        /\ \A t \in DOMAIN traces : t \in DOMAIN traces' /\ Keeps(traces[t], traces'[t])
        /\ \A id \in DOMAIN metrics :
            /\ Metric(id).mi = Metric(id)'.mi /\ Metric(id).meta = Metric(id)'.meta
            /\ \A st \in DOMAIN Metric(id).streams :
                /\ st \in DOMAIN Metric(id)'.streams
                /\ Keeps(Points(id, st), Points(id, st)')
      ]_vars
=============================================================================
