------------------------------- MODULE Items -------------------------------
(***************************************************************************)
(* One item on its way: a sender sends it, the store converts it, a UI     *)
(* handler answers with it, the page parses the answer and shows the item. *)
(* At each stage it may be what that stage cannot hold.                    *)
(*                                                                         *)
(* The item is a resource, a scope, the metadata of a request, a span, a   *)
(* log or a metric with its streams of points, as a struct of Objects.  A  *)
(* sender's fields are named like the fields they are stored in; a metric  *)
(* is what the store (Storage) has put together of several calls.          *)
(* What the stages make of values of any depth is recursive, and therefore *)
(* a parameter here: it is defined in Values, and ItemsShown has the       *)
(* properties that depend on it.                                           *)
(***************************************************************************)
EXTENDS Objects, Utf8, FiniteSets, Functions

CONSTANTS
    Sent,             \* the items
    JsonTexts,        \* what jsonToString may return: UTF-8 without a newline
    Now,              \* the time a log is received at
    Converts(_),      \* whether convertValue returns,
    converted(_),     \* and what
    Encodes(_),       \* whether toJson returns,
    encoded(_),       \* and what
    Decodes(_),       \* whether fetchData returns,
    decoded(_),       \* and what
    rendered(_, _)    \* what the page shows of an item of a kind

\* The texts a summary may be cut from are sequences of letters.
ASSUME SentAssumption ==
    \A v \in Sent : v[1] = "log" =>
        /\ v[2].event[2] \in Seq(STRING)
        /\ v[2].body[1] = "str" => v[2].body[2] \in Seq(STRING)

VARIABLES
    sent,      \* as it was sent
    stage,
    item,      \* what has become of it
    row        \* of a log: its logSummary

vars == <<sent, stage, item, row>>

Init ==
    /\ sent \in Sent
    /\ stage = "sent"
    /\ item = sent
    /\ row = Nil

-----------------------------------------------------------------------------
(* The summary of a log *)

\* What simpleBody is cut from.
Bodies(o) ==
    CASE o.event # Str -> {o.event[2]}
      [] o.event = Str /\ o.body = Nil -> {<<"<no body>">>}
      [] o.event = Str /\ o.body[1] = "str" -> {o.body[2]}
      [] OTHER -> JsonTexts

Row(o, s) ==
    <<"logSummary",
      [simpleTime |-> IF o.time # Zero("ts") THEN o.time
                      ELSE IF o.timeObs # Zero("ts") THEN o.timeObs ELSE Now,
       sev |-> o.sev,
       simpleBody |-> <<"str", cut(s)>>]>>

\* A log is not stored if its body has to be written as JSON and cannot be,
\* or its summary has no place to be cut at.
Unsummed(o) ==
    \/ o.event = Str /\ o.body[1] \notin {"nil", "str"} /\ ~Encodes(o.body)
    \/ \E s \in Bodies(o) : TooLong(s) /\ Stops(s) = {}

-----------------------------------------------------------------------------
(* The stages *)

IsLog == sent[1] = "log"

\* receiveResource, receiveScope, receiveTraces, receiveLogs, receivePoints...
receive ==
    /\ stage = "sent" /\ Converts(sent)
    /\ IsLog => ~Unsummed(sent[2])
    /\ item' = converted(sent)
    /\ IF IsLog THEN \E s \in Bodies(sent[2]) : row' = Row(sent[2], s) ELSE row' = row
    /\ stage' = "stored"
    /\ UNCHANGED sent

receivePanics ==
    /\ stage = "sent"
    /\ ~Converts(sent) \/ (IsLog /\ Unsummed(sent[2]))
    /\ stage' = "panicked"
    /\ UNCHANGED <<sent, item, row>>

\* The answer with the item, and the one with its row.
Answered == {item} \cup (IF IsLog THEN {row} ELSE {})

answer ==
    /\ stage = "stored" /\ \A x \in Answered : Encodes(x)
    /\ item' = encoded(item)
    /\ stage' = "answered"
    /\ UNCHANGED <<sent, row>>

answerPanics ==
    /\ stage = "stored" /\ \E x \in Answered : ~Encodes(x)
    /\ stage' = "broken"
    /\ UNCHANGED <<sent, item, row>>

\* fetchData.
parse ==
    /\ stage = "answered" /\ Decodes(item)
    /\ item' = decoded(item)
    /\ stage' = "parsed"
    /\ UNCHANGED <<sent, row>>

parseThrows ==
    /\ stage = "answered" /\ ~Decodes(item)
    /\ stage' = "unreadable"
    /\ UNCHANGED <<sent, item, row>>

\* selectMetric and Graph.render throw at a stream without points, at one
\* whose values are of both types, and at a histogram without bounds that has
\* counted something.
Drawable(m) ==
    \A stream \in Range(m[2][<<0, "streams">>][2]) :
        /\ <<0, "pts">> \in DOMAIN stream[2]
        /\ LET pts == Range(stream[2][<<0, "pts">>][2])
               Of(name) == {p \in pts : <<0, name>> \in DOMAIN p[2]}
           IN  /\ Cardinality({p[2][<<0, "val">>][1] : p \in Of("val")}) <= 1
               /\ \A p \in Of("buckets") \ Of("bounds") :
                    Range(p[2][<<0, "buckets">>][2]) \subseteq {<<"bigint", <<"0">>>>}

Undrawable == sent[1] = "metric" /\ ~Drawable(item)

\* The side panel, the head of a list, the properties of a point of a graph.
show ==
    /\ stage = "parsed" /\ ~Undrawable
    /\ item' = rendered(sent[1], item)
    /\ stage' = "shown"
    /\ UNCHANGED <<sent, row>>

showThrows ==
    /\ stage = "parsed" /\ Undrawable
    /\ stage' = "not drawn"
    /\ UNCHANGED <<sent, item, row>>

Next ==
    \/ receive \/ receivePanics \/ answer \/ answerPanics
    \/ parse \/ parseThrows \/ show \/ showThrows

Spec == Init /\ [][Next]_vars

-----------------------------------------------------------------------------
(* Properties *)

\* What the summary of a log is cut from, if that is a text its sender wrote.
RowText(o) == IF o.event # Str THEN o.event[2] ELSE o.body[2]

\* The row of a log is the first line of its event's name or, without one, of
\* its body, if that fits, and else the longest part of it that does and does
\* not end within a character; and there is always a place to cut at, so the
\* text is never why a log is lost (storage.go:236-258).
RowIsFirstLine ==
    IsLog /\ (sent[2].event # Str \/ sent[2].body[1] = "str") /\ ValidString(RowText(sent[2])) =>
        /\ row # Nil => row[2].simpleBody[2] = FirstLine(RowText(sent[2]))
        /\ stage = "panicked" => ~Converts(sent)
=============================================================================
