----------------------------- MODULE Telemetry -----------------------------
(***************************************************************************)
(* What TelUI promises about the telemetry it is sent, without the mutex,  *)
(* the goroutines' variables, the registries, the metric objects and their *)
(* pointers: a call hands over its items one by one, in order; each is     *)
(* stored in one step that every reader sees at once, a span under its own *)
(* id unless one is there, a log and a data point after those that are     *)
(* there; a call is answered once all its items are stored; a reset empties*)
(* everything.  Only a call that was running when a reset came may lose    *)
(* data points afterwards.                                                 *)
(***************************************************************************)
EXTENDS Naturals, Sequences

CONSTANTS
    Call,
    Positions(_), Item(_, _)   \* where in a batch its items are, and what they are

VARIABLES
    carried,   \* the batch of each call
    taken,     \* the positions of the items it has handed over
    status,    \* "new", "open", "answered" or "failed"
    stale,     \* the calls that were open at the last reset
    spans, logs, series

telemetry == <<spans, logs, series>>
vars == <<carried, taken, status, stale, telemetry>>

Init ==
    /\ DOMAIN carried = Call
    /\ taken = [c \in Call |-> {}]
    /\ status = [c \in Call |-> "new"]
    /\ stale = {}
    /\ spans = <<>> /\ logs = <<>> /\ series = <<>>

Begin(c) ==
    /\ status[c] = "new"
    /\ status' = [status EXCEPT ![c] = "open"]
    /\ UNCHANGED <<carried, taken, stale, telemetry>>

KeepSpan(x) ==
    /\ x.kind = "span"
    /\ spans' = [k \in DOMAIN spans \cup {x.key} |->
                    IF k \in DOMAIN spans THEN spans[k] ELSE x.val]
    /\ UNCHANGED <<logs, series>>

KeepLog(x) ==
    /\ x.kind = "log"
    /\ logs' = Append(logs, x.val)
    /\ UNCHANGED <<spans, series>>

PointsAt(k) == IF k \in DOMAIN series THEN series[k] ELSE <<>>

KeepPoint(x) ==
    /\ x.kind = "point"
    /\ series' = [k \in DOMAIN series \cup {x.key} |->
                    IF k = x.key THEN Append(PointsAt(k), x.val) ELSE series[k]]
    /\ UNCHANGED <<spans, logs>>

LosePoint(c, x) == x.kind = "point" /\ c \in stale /\ UNCHANGED telemetry

Remaining(c) == Positions(carried[c]) \ taken[c]

\* The first item that is not taken yet is, for good or for nothing.
Take(c) ==
    /\ status[c] = "open"
    /\ \E i \in Remaining(c) :
        /\ \A j \in Remaining(c) : i <= j
        /\ taken' = [taken EXCEPT ![c] = @ \cup {i}]
        /\ LET x == Item(carried[c], i)
           IN  KeepSpan(x) \/ KeepLog(x) \/ KeepPoint(x) \/ LosePoint(c, x)
    /\ UNCHANGED <<carried, status, stale>>

Answer(c) ==
    /\ status[c] = "open"
    /\ Remaining(c) = {}
    /\ status' = [status EXCEPT ![c] = "answered"]
    /\ UNCHANGED <<carried, taken, stale, telemetry>>

Fail(c) ==
    /\ status[c] = "open"
    /\ status' = [status EXCEPT ![c] = "failed"]
    /\ UNCHANGED <<carried, taken, stale, telemetry>>

Reset ==
    /\ spans' = <<>> /\ logs' = <<>> /\ series' = <<>>
    /\ stale' = {c \in Call : status[c] = "open"}
    /\ UNCHANGED <<carried, taken, status>>

Next ==
    \/ \E c \in Call : Begin(c) \/ Take(c) \/ Answer(c) \/ Fail(c)
    \/ Reset

Spec == Init /\ [][Next]_vars
=============================================================================
