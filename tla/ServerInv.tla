----------------------------- MODULE ServerInv -----------------------------
(***************************************************************************)
(* The inductive invariant of Server: what its properties need to know of  *)
(* the clients, the handlers, the copies in the store and the stops.       *)
(***************************************************************************)
EXTENDS Server

\* The servers of exports and of the UI run their own handlers.
Roles ==
    \A q \in Request :
        /\ at[q] \in {"reading", "storing", "acking"} => q[1] \in Sender
        /\ at[q] \in {"asked", "writing", "flushing"} => q[1] \in Reader

\* The mutex belongs to the one handler that writes.
OneWriter ==
    /\ mutex # None => at[mutex] \in {"writing", "flushing"}
    /\ \A q \in Request : at[q] = "writing" => mutex = q

\* A client makes its tries one after the other.
InTurn ==
    \A q \in Request :
        /\ q[2] > tries[q[1]] => at[q] = "none"
        /\ q[2] < tries[q[1]] => Unanswered(q)

\* How many items a try has stored, where it is and what it has answered go
\* together.
Progress ==
    \A q \in Request : q[1] \in Sender =>
        /\ got[q] > 0 => at[q] \in {"storing", "acking", "over", "broken"}
        /\ at[q] = "acking" => got[q] = Len(Items(q[1]))
        /\ answer[q] # 0 => at[q] = "over"
        /\ answer[q] = 200 => got[q] = Len(Items(q[1]))
        /\ answer[q] \notin {0, 200} => got[q] = 0

\* There are copies of the items that tries have stored, of those only, and
\* of a span one.
Copies ==
    /\ \A x \in kept \cup erased : x[1][1] \in Sender /\ x[2] \in 1 .. got[x[1]]
    /\ \A q \in Request : q[1] \in Sender => 1 .. got[q] \subseteq CopiedByAny(q[1])
    /\ \A x, y \in kept :
        x[1][1] = y[1][1] /\ x[2] = y[2] /\ ItemOf(x).kind = "span" => x = y

\* The servers start in their order.
StartOrder ==
    /\ \A srv \in Servers : listening[srv] > 0 => srv \in Enabled \cup {"ui"}
    /\ phase = "grpc" => listening["grpc"] < 2 /\ listening["http"] = 0
    /\ phase = "http" => listening["http"] < 2
    /\ phase \in {"grpc", "http"} => listening["ui"] = 0
    /\ phase = "ui" => listening["ui"] < 2

WillStop(srv) == \E i \in 1 .. Len(stops) : stops[i] = srv

\* A server that listens, or has a request running, will be stopped, or has
\* got only one of its addresses.
Covered ==
    \A srv \in Servers :
        listening[srv] > 0 \/ (\E q \in Request : ServerOf(q) = srv /\ Running(q)) =>
            \/ WillStop(srv)
            \/ /\ listening[srv] = 1
               /\ phase = srv \/ (phase = "stopping" /\ verdict = "error")

ServerInv ==
    /\ TypeOK /\ stops \in Seq(Servers)
    /\ post \in [Sender -> Post] /\ ask \in [Reader -> Ask]
    /\ got \in [Request -> Nat] /\ tries \in [Sender \cup Reader -> Nat]
    /\ Roles /\ OneWriter /\ InTurn /\ Progress /\ Copies
    /\ StartOrder /\ Covered /\ StopCutsNothing
=============================================================================
