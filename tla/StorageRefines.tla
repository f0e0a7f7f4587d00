--------------------------- MODULE StorageRefines ---------------------------
(***************************************************************************)
(* Storage implements Telemetry.  An item counts as taken once its loop    *)
(* body is over; a stream counts from its first point on, and a metric     *)
(* object only as long as the map of metrics leads to it.                  *)
(***************************************************************************)
EXTENDS Storage

Positions(b) ==
    {i \in 1 .. Len(b.entries) : b.entries[i].op \in {"span", "log", "point"}}

Item(b, i) ==
    LET e == b.entries[i]
    IN  CASE e.op = "span"  -> [kind |-> "span", key |-> <<e.trace, e.span>>, val |-> AsStored(b, i)]
          [] e.op = "log"   -> [kind |-> "log", val |-> AsStored(b, i)]
          [] e.op = "point" -> [kind |-> "point", key |-> <<MetricIdAt(b, i), hashValue(e.attr)>>,
                                val |-> AsPoint(b, i)]

Taken == [c \in Call |-> Positions(sent[c]) \cap Passed(c)]

Status ==
    [c \in Call |-> CASE pc[c] = "idle" -> "new" [] pc[c] = "done" -> "answered"
                      [] pc[c] = "failed" -> "failed" [] OTHER -> "open"]

SpanKeys == UNION {{t} \X DOMAIN traces[t] : t \in DOMAIN traces}

Spans == [k \in SpanKeys |-> traces[k[1]][k[2]]]

SeriesKeys ==
    UNION {{id} \X {st \in DOMAIN Metric(id).streams : Points(id, st) # <<>>} :
              id \in DOMAIN metrics}

Series == [k \in SeriesKeys |-> Points(k[1], k[2])]

Abstract ==
    INSTANCE Telemetry WITH carried <- sent, taken <- Taken, status <- Status,
                            stale <- Overtaken, spans <- Spans, series <- Series

\* Whatever the interleaving of goroutines and resets, and although a data
\* point takes two critical sections and travels through a pointer that a
\* reset may have cut off (storage.go:297-321, 456-481), senders and readers
\* cannot tell the store from one that takes each item in a single step, once,
\* in the order of its call and under that call's own ids.
StoresAtOnce == Abstract!Spec
=============================================================================
