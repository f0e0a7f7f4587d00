----------------------------- MODULE MCStorage -----------------------------
(***************************************************************************)
(* Small instances of Storage for TLC: the batches of each signal, hash    *)
(* functions with and without collisions.                                  *)
(***************************************************************************)
EXTENDS StorageInv, StorageRefines, TLC

CONSTANTS c1, c2, c3,                   \* calls
          resA, resB, scopeA, scopeB,   \* resources and scopes
          garbled                       \* a string that is not UTF-8

CallSymmetry == Permutations(Call)

Res(r) == [op |-> "res", val |-> r]
Scope(s) == [op |-> "scope", val |-> s]
Span(t, s, v) == [op |-> "span", trace |-> t, span |-> s, val |-> v]
Log(v) == [op |-> "log", val |-> v]
MetricEntry(nm, d, m) == [op |-> "metric", name |-> nm, desc |-> d, meta |-> m]
Point(a, v) == [op |-> "point", attr |-> a, val |-> v]

Carries(m, e) == [via |-> "http", meta |-> m, entries |-> e]

\* Every value has an id of its own.
DistinctHash(v) == <<"id", v>>

\* The two resources share an id, and so do the two scopes.
CollidingHash(v) ==
    CASE v = resB   -> <<"id", resA>>
      [] v = scopeB -> <<"id", scopeA>>
      [] OTHER      -> <<"id", v>>

\* Two resources, a span id sent twice with different contents, an empty scope.
TraceBatches ==
    {Carries("peer1", <<Res(resA), Scope(scopeA), Span("t1", "s1", "v1"), Span("t1", "s2", "v1")>>),
     Carries("peer2", <<Res(resA), Scope(scopeB), Span("t1", "s1", "v2"),
                        Res(resB), Scope(scopeA), Span("t2", "s1", "v1")>>),
     Carries("peer1", <<Res(resB), Scope(scopeB)>>)}

\* The same body twice in a call, and from two calls of one connection.
LogBatches ==
    {Carries("peer1", <<Res(resA), Scope(scopeA), Log("v1"), Log("v2"), Log("v1")>>),
     Carries("peer1", <<Res(resA), Scope(scopeB), Log("v2"), Res(resB), Scope(scopeA), Log("v1")>>),
     Carries("peer2", <<>>)}

\* One metric with descriptions of equal and of different lengths, other
\* metadata, the same under another resource (one metric when their ids
\* collide), one stream fed by several calls, a metric without points.
MetricBatches ==
    LET metric(peer, r, d, m, points) ==
            Carries(peer, <<Res(r), Scope(scopeA), MetricEntry("m", d, m)>> \o points)
    IN  {metric("peer1", resA, <<"x">>, "k1", <<Point("a", "v1")>>),
         metric("peer2", resA, <<"x", "y">>, "k1", <<Point("a", "v3"), Point("b", "v1")>>),
         metric("peer2", resB, <<"z">>, "k1", <<Point("a", "v4")>>),
         metric("peer1", resA, <<"x">>, "k2", <<>>)}

OverGrpc(m, e) == [Carries(m, e) EXCEPT !.via = "grpc"]

\* Batches that hold a value the code cannot convert ("bad"), first, last and
\* on either side of a stream's creation, or a string it cannot print, in a
\* resource, in a log and in a stream, and one without either.
OddBatches ==
    LET start(d) == <<Res(resA), Scope(scopeA), MetricEntry("m", d, "k1")>>
    IN  {Carries("peer1", start(<<"x">>) \o <<Point("a", "bad")>>),
         Carries("peer1", start(<<"x">>) \o <<Point("bad", "v1")>>),
         Carries("peer2", <<Res(resA), Scope(scopeB), Log(garbled)>>),
         Carries("peer1", <<Res("bad")>>),
         OverGrpc("peer2", <<Res(garbled), Scope(scopeA)>>),
         OverGrpc("peer1", start(<<"x", "y">>) \o <<Point("a", "v1")>>),
         OverGrpc("peer1", start(<<"x">>) \o <<Point("a", garbled), Point("b", "bad")>>)}

\* A log that is stored and cannot be printed.
GarbledLog == {OverGrpc("peer1", <<Res(resA), Scope(scopeA), Log("v1"), Log(garbled)>>)}

\* Two calls that write to the same metric.
VerboseBatches ==
    {Carries("peer1", <<Res(resA), Scope(scopeA), MetricEntry("m", <<"x">>, "k1"), Point("a", "v1")>>),
     Carries("peer1", <<Res(resA), Scope(scopeA), MetricEntry("m", <<"x">>, "k1"),
                        Point("b", "v1"), Point("a", "v2")>>),
     Carries("peer1", <<Res(resA), Scope(scopeA), MetricEntry("m", <<"x", "y">>, "k1")>>)}
=============================================================================
