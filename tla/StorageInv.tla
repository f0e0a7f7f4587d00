----------------------------- MODULE StorageInv -----------------------------
(***************************************************************************)
(* The inductive invariants of Storage: what its properties need of the    *)
(* variables a goroutine keeps between two critical sections, and of each  *)
(* other.                                                                  *)
(***************************************************************************)
EXTENDS Storage

IsList(s) == s \in Seq({s[i] : i \in DOMAIN s})

\* The slices of the store are lists.
Lists ==
    /\ IsList(logs)
    /\ IsList(heap)
    /\ \A r \in 1 .. Len(heap) : \A st \in DOMAIN heap[r].streams :
        IsList(heap[r].streams[st].points)

\* The local variable holds the id of an entry of this kind that is past, and
\* that id is registered, unless a reset came in between.
Holds(c, op, id, registry) ==
    /\ \E i \in 1 .. n[c] - 1 : /\ sent[c].entries[i].op = op
                                /\ hashValue(sent[c].entries[i].val) = id
    /\ cut[c] = "none" => id \in DOMAIN registry

LastOp(c) == sent[c].entries[n[c] - 1].op

\* The local variables of a call are those of the loops it is in.
Locals(c) ==
    /\ pc[c] = "idle" => n[c] = 1 /\ cut[c] = "none"
    /\ pc[c] \notin {"idle", "done", "failed"} => cut[c] # "after"
    /\ pc[c] # "idle" =>
        /\ ids[c].req = hashValue(sent[c].meta)
        /\ cut[c] = "none" => ids[c].req \in DOMAIN requests
    /\ n[c] > 1 => Holds(c, "res", ids[c].res, resources)
    /\ n[c] > 1 /\ LastOp(c) # "res" => Holds(c, "scope", ids[c].scope, scopes)
    /\ n[c] > 1 /\ LastOp(c) \in {"metric", "point"} => cur[c] \in 1 .. Len(heap)
    /\ pc[c] = "append" =>
        hashValue(Entry(c).attr) \in DOMAIN heap[cur[c]].streams

IInv ==
    /\ TypeOK /\ Lists
    /\ \A c \in Call : Locals(c)
    /\ FiledUnderOwnHash
    /\ DanglingNeedsReset

\* They are exactly those of the resource, the scope and the metric the call
\* is in; its pointer is what metrics has, as long as no reset came.
Exact(c) ==
    LET last == n[c] - 1
        id == MetricIdAt(sent[c], last)
    IN  /\ n[c] > 1 => ids[c].res = ContextId(sent[c], last, "res")
        /\ n[c] > 1 /\ LastOp(c) # "res" => ids[c].scope = ContextId(sent[c], last, "scope")
        /\ n[c] > 1 /\ LastOp(c) \in {"metric", "point"} =>
            /\ hashValue(heap[cur[c]].mi) = id
            /\ cut[c] = "none" => id \in DOMAIN metrics /\ metrics[id] = cur[c]

\* The metadata shown is one that was received; as long as the metric is not
\* marked, nothing else was received for it.
Agreed ==
    \A id \in DOMAIN metrics :
        /\ \E x \in SentTo(Remaining, id) : x.meta = Metric(id).meta
        /\ ~ Metric(id).conflict =>
            \A x \in SentTo(Untouched, id) :
                /\ x.desc = Metric(id).desc
                /\ hashValue(x.meta) = hashValue(Metric(id).meta)

\* What KeptOnceInOrder counts can be counted.
Countable ==
    (\A c \in Call : cut[c] # "during") =>
        /\ IsFiniteSet(StoredBy(Remaining, "log"))
        /\ IsFiniteSet(StoredBy(Remaining, "point"))
        /\ IsFiniteSet(PointPlaces)

\* The inductive invariant of everything the store keeps.
StoreInv ==
    /\ IInv
    /\ \A c \in Call : Exact(c)
    /\ StoredIsVisible /\ NothingSurvivesReset
    /\ Agreed /\ ConflictIffDiffers /\ LongestDescription
    /\ Countable /\ KeptOnceInOrder
    /\ EmptyStreamHasWriter
=============================================================================
