----------------------------- MODULE Endpoints -----------------------------
(***************************************************************************)
(* The handlers of the three servers and their clients: senders of         *)
(* telemetry, which give up waiting and send again, and readers of the UI  *)
(* API, which may be slow or go away.  The handlers meet at the mutex of   *)
(* the store: an export takes it for one item at a time, a UI handler keeps*)
(* it while it writes an answer to its client.                             *)
(*                                                                         *)
(* A request is a pair of a client and the number of the try.  What is in  *)
(* the store is written as the set of copies <<request, position of the    *)
(* item>>; Storage has the details of how an item gets there.              *)
(***************************************************************************)
EXTENDS Naturals, Sequences, FiniteSets

CONSTANTS
    Sender, Reader,     \* clients
    Post,               \* what a sender may send
    Ask,                \* what a reader may ask for
    MaxTries,           \* bound on the tries of a sender
    MaxPieces,          \* bound on the writes an answer takes
    Verbose,            \* the flag -verbose
    None

Request == (Sender \X (1 .. MaxTries)) \cup (Reader \X {1})

ASSUME EndpointsAssumption ==
    /\ MaxTries \in Nat \ {0} /\ MaxPieces \in Nat
    /\ Sender \cap Reader = {} /\ None \notin Request
    /\ Verbose \in BOOLEAN
    /\ Ask \subseteq {"list", "span", "log", "reset", "bad id"}
    /\ \A p \in Post : p.via \in {"grpc", "http"} /\ Len(p.items) \in Nat

VARIABLES
    post, ask,     \* what each client sends or asks for
    \* the store: its mutex, when a handler keeps it over several steps
    mutex, kept,
    \* the handler of a request
    at,            \* where it is
    got,           \* how many items it has stored
    left,          \* how many pieces of its answer are still to be written
    answer,        \* the status it has answered with, 0 before
    \* the clients
    tries,         \* how often a sender has sent
    gone,          \* requests whose client does not wait any more
    learned,       \* what a sender was told: "", "stored" or "refused"
    \* the process
    ended,         \* "no", or how it ended: "panic", "killed", "clean", "error"
    \* history
    erased         \* the copies that resets have removed

clients == <<post, ask, tries, gone, learned>>
handlers == <<at, got, left, answer>>
endpoints == <<clients, mutex, kept, handlers, ended, erased>>

Init ==
    /\ post \in [Sender -> Post] /\ ask \in [Reader -> Ask]
    /\ mutex = None /\ kept = {} /\ erased = {}
    /\ at = [q \in Request |-> "none"]
    /\ got = [q \in Request |-> 0] /\ left = [q \in Request |-> 0]
    /\ answer = [q \in Request |-> 0]
    /\ tries = [c \in Sender \cup Reader |-> 0]
    /\ gone = {}
    /\ learned = [s \in Sender |-> ""]
    /\ ended = "no"

Items(s) == post[s].items
Running(q) == at[q] \in {"reading", "storing", "acking", "asked", "writing", "flushing"}
To(q, p) == at' = [at EXCEPT ![q] = p]

\* The server a request goes to.
ServerOf(q) == IF q[1] \in Reader THEN "ui" ELSE post[q[1]].via

-----------------------------------------------------------------------------
(* Clients *)

\* The client can see that no answer will come: it has given up, or the
\* connection was closed.
Unanswered(q) == q \in gone \/ at[q] = "broken"

\* A client asks; a sender asks again while it has learned nothing.
send(c) ==
    LET k == tries[c] + 1
    IN  /\ <<c, k>> \in Request
        /\ k > 1 => Unanswered(<<c, k - 1>>)
        /\ tries' = [tries EXCEPT ![c] = k]
        /\ To(<<c, k>>, "sent")
        /\ UNCHANGED <<post, ask, mutex, kept, got, left, answer, gone, learned, ended, erased>>

\* It gives up (a timeout, a closed tab, a lost connection); the handler may
\* go on, and an answer that was written is lost.
giveUp(q) ==
    /\ Running(q) \/ at[q] = "sent" \/ (at[q] = "over" /\ q[1] \in Sender)
    /\ q \notin gone
    /\ q[1] \in Sender => learned[q[1]] = ""
    /\ gone' = gone \cup {q}
    /\ UNCHANGED <<post, ask, mutex, kept, handlers, tries, learned, ended, erased>>

learn(s) ==
    LET q == <<s, tries[s]>>
    IN  /\ tries[s] > 0 /\ at[q] = "over" /\ q \notin gone /\ learned[s] = ""
        /\ learned' = [learned EXCEPT ![s] = IF answer[q] = 200 THEN "stored" ELSE "refused"]
        /\ UNCHANGED <<post, ask, tries, gone, mutex, kept, handlers, ended, erased>>

-----------------------------------------------------------------------------
(* Exports *)

\* A server starts the handler of a request; grpc-go has decoded it by then.
accept(q) ==
    /\ at[q] = "sent"
    /\ To(q, CASE ServerOf(q) = "grpc" -> "storing"
               [] ServerOf(q) = "http" -> "reading"
               [] ServerOf(q) = "ui"   -> "asked")
    /\ UNCHANGED <<clients, mutex, kept, got, left, answer, ended, erased>>

\* The status with which readOtlpRequest refuses a request that was read, or 0.
Refusal(p) ==
    CASE p.method # "POST" -> 405
      [] p.encoding \notin {"", "gzip"} -> 400
      [] ~p.unpacks -> 400
      [] p.type \notin {"application/x-protobuf", "application/json"} -> 415
      [] ~p.decodes -> 400
      [] OTHER -> 0

\* Mutant: the handler of a refused request goes on.
readOtlpRequestOn(q) ==
    LET status == Refusal(post[q[1]])
    IN  /\ at[q] = "reading"
        /\ To(q, "storing")
        /\ answer' = [answer EXCEPT ![q] = status]
        /\ UNCHANGED <<clients, mutex, kept, got, left, ended, erased>>

\* readOtlpRequest, once the body is there, or its client is not.
readOtlpRequest(q) ==
    LET p == post[q[1]]
        status == IF q \in gone /\ Refusal(p) # 405 THEN 400 ELSE Refusal(p)
    IN  /\ at[q] = "reading"
        /\ To(q, IF status = 0 THEN "storing" ELSE "over")
        /\ answer' = [answer EXCEPT ![q] = status]
        /\ UNCHANGED <<clients, mutex, kept, got, left, ended, erased>>

\* A panic in a handler: net/http closes the connection, grpc-go does not
\* recover it.
Panic(q) ==
    \/ ServerOf(q) # "grpc" /\ To(q, "broken") /\ UNCHANGED ended
    \/ ServerOf(q) = "grpc" /\ ended' = "panic" /\ UNCHANGED at

Next1(q) == Items(q[1])[got[q] + 1]
Storing(q) == at[q] = "storing" /\ got[q] < Len(Items(q[1]))

\* The item stored last is to be printed, and jsonToString panics at it.
Unprinted(q) == Verbose /\ got[q] > 0 /\ Items(q[1])[got[q]].fault = "not UTF-8"

\* Mutant: a span that is there is stored again.
AddsSpanAgain(q) == kept \cup {<<q, got[q] + 1>>}

\* The store with the next item of a call: a span only if it is not there.
Adds(q) ==
    LET i == got[q] + 1
    IN  IF Next1(q).kind = "span" /\ \E x \in kept : x[1][1] = q[1] /\ x[2] = i
        THEN kept
        ELSE kept \cup {<<q, i>>}

\* Mutant: the mutex is not taken.
storeItemUnlocked(q) ==
    /\ Storing(q) /\ Next1(q).fault # "unknown type" /\ ~Unprinted(q)
    /\ kept' = Adds(q)
    /\ got' = [got EXCEPT ![q] = @ + 1]
    /\ UNCHANGED <<clients, mutex, at, left, answer, ended, erased>>

\* One item of receiveTraces, receiveLogs or receiveMetrics.
storeItem(q) ==
    /\ Storing(q) /\ Next1(q).fault # "unknown type" /\ ~Unprinted(q)
    /\ mutex = None
    /\ kept' = Adds(q)
    /\ got' = [got EXCEPT ![q] = @ + 1]
    /\ UNCHANGED <<clients, mutex, at, left, answer, ended, erased>>

\* convertValue panics before an item is stored, the print of one after it is.
storePanics(q) ==
    /\ at[q] = "storing"
    /\ (Storing(q) /\ Next1(q).fault = "unknown type") \/ Unprinted(q)
    /\ Panic(q)
    /\ UNCHANGED <<clients, mutex, kept, got, left, answer, erased>>

\* All items are in: ack(), or the return of Export.
stored(q) ==
    /\ at[q] = "storing" /\ got[q] = Len(Items(q[1])) /\ ~Unprinted(q)
    /\ To(q, "acking")
    /\ UNCHANGED <<clients, mutex, kept, got, left, answer, ended, erased>>

ack(q) ==
    /\ at[q] = "acking"
    /\ answer' = [answer EXCEPT ![q] = 200]
    /\ To(q, "over")
    /\ UNCHANGED <<clients, mutex, kept, got, left, ended, erased>>

-----------------------------------------------------------------------------
(* The UI API *)

Asks(q) == ask[q[1]]

\* The item that a copy is of.
ItemOf(x) == Items(x[1][1])[x[2]]

\* What a request for one span or log finds: in the instances, the stored items
\* of a kind are copies of one.
Found(q) == {x \in kept : ItemOf(x).kind = Asks(q)}

\* An id that does not parse is refused before the store is locked.
badId(q) ==
    /\ at[q] = "asked" /\ Asks(q) = "bad id"
    /\ answer' = [answer EXCEPT ![q] = 400]
    /\ To(q, "over")
    /\ UNCHANGED <<clients, mutex, kept, got, left, ended, erased>>

reset(q) ==
    /\ at[q] = "asked" /\ Asks(q) = "reset"
    /\ mutex = None
    /\ kept' = {} /\ erased' = erased \cup kept
    /\ answer' = [answer EXCEPT ![q] = 200]
    /\ To(q, "over")
    /\ UNCHANGED <<clients, mutex, got, left, ended>>

\* An unknown log or metric: the 404 is written, the mutex given back.
notFound(q) ==
    /\ at[q] = "asked" /\ Asks(q) = "log" /\ Found(q) = {}
    /\ mutex = None
    /\ answer' = [answer EXCEPT ![q] = 404]
    /\ To(q, "over")
    /\ UNCHANGED <<clients, mutex, kept, got, left, ended, erased>>

\* The store is locked and the answer begins.  For an unknown span, the
\* handler goes on after the 404 and writes an empty one.
lock(q) ==
    /\ at[q] = "asked" /\ Asks(q) \in {"list", "span", "log"}
    /\ Asks(q) = "log" => Found(q) # {}
    /\ mutex = None
    /\ mutex' = q
    /\ answer' = [answer EXCEPT ![q] = IF Asks(q) = "span" /\ Found(q) = {} THEN 404 ELSE 200]
    /\ \E k \in 0 .. MaxPieces : left' = [left EXCEPT ![q] = k]
    /\ To(q, "writing")
    /\ UNCHANGED <<clients, kept, got, ended, erased>>

\* The answer has to hold a string that stringValue.toJson refuses.
Unwritable(q) ==
    \E x \in (IF Asks(q) = "list" THEN kept ELSE Found(q)) : ItemOf(x).fault = "not UTF-8"

\* Mutant: one piece more is written than there are.
writePieceOn(q) ==
    /\ at[q] = "writing" /\ q \notin gone
    /\ left' = [left EXCEPT ![q] = @ - 1]
    /\ UNCHANGED <<clients, mutex, kept, at, got, answer, ended, erased>>

\* A piece that does not fit in the buffers is read by the client.
writePiece(q) ==
    /\ at[q] = "writing" /\ left[q] > 0 /\ q \notin gone
    /\ left' = [left EXCEPT ![q] = @ - 1]
    /\ UNCHANGED <<clients, mutex, kept, at, got, answer, ended, erased>>

\* Mutant: the mutex is not given back when the handler panics.
writePanicsLocked(q) ==
    /\ at[q] = "writing"
    /\ (left[q] > 0 /\ q \in gone) \/ Unwritable(q)
    /\ Panic(q)
    /\ UNCHANGED <<clients, mutex, kept, got, left, answer, erased>>

\* forceWrite and toJson panic; the deferred Unlock runs.
writePanics(q) ==
    /\ at[q] = "writing"
    /\ (left[q] > 0 /\ q \in gone) \/ Unwritable(q)
    /\ Panic(q)
    /\ mutex' = None
    /\ UNCHANGED <<clients, kept, got, left, answer, erased>>

\* The producer is over; that of a list gives the mutex back.
written(q) ==
    /\ at[q] = "writing" /\ left[q] = 0 /\ ~Unwritable(q)
    /\ mutex' = IF Asks(q) = "list" THEN None ELSE mutex
    /\ To(q, "flushing")
    /\ UNCHANGED <<clients, kept, got, left, answer, ended, erased>>

\* Mutant: the mutex is not given back after the answer.
flushLocked(q) ==
    /\ at[q] = "flushing"
    /\ To(q, "over")
    /\ UNCHANGED <<clients, mutex, kept, got, left, answer, ended, erased>>

\* The deferred flushes, with an error of no consequence, and then the
\* deferred Unlock of the other handlers.
flush(q) ==
    /\ at[q] = "flushing"
    /\ mutex' = IF mutex = q THEN None ELSE mutex
    /\ To(q, "over")
    /\ UNCHANGED <<clients, kept, got, left, answer, ended, erased>>

-----------------------------------------------------------------------------

\* What a handler does by itself, and what takes a client that sends or reads.
OwnStep(q) ==
    \/ storeItem(q) \/ storePanics(q) \/ stored(q) \/ ack(q)
    \/ badId(q) \/ reset(q) \/ notFound(q) \/ lock(q) \/ writePanics(q) \/ written(q)

WithClient(q) == readOtlpRequest(q) \/ writePiece(q) \/ flush(q)

Handle(q) == OwnStep(q) \/ WithClient(q)

ClientStep ==
    \/ \E c \in Sender \cup Reader : send(c)
    \/ \E q \in Request : giveUp(q)
    \/ \E s \in Sender : learn(s)

-----------------------------------------------------------------------------
(* Properties *)

EndpointsTypeOK ==
    /\ mutex \in Request \cup {None}
    /\ kept \subseteq Request \X Nat /\ erased \subseteq Request \X Nat
    /\ at \in [Request -> {"none", "sent", "reading", "storing", "acking", "asked",
                           "writing", "flushing", "over", "broken"}]
    /\ \A q \in Request : q[1] \in Sender => got[q] \in 0 .. Len(Items(q[1]))
    /\ left \in [Request -> 0 .. MaxPieces]
    /\ answer \in [Request -> {0, 200, 400, 404, 405, 415}]
    /\ gone \subseteq Request
    /\ ended \in {"no", "panic", "killed", "clean", "error"}

\* The items of which there are, or were, copies made by a try.
CopiedBy(q) == {x[2] : x \in {y \in kept \cup erased : y[1] = q}}
CopiedByAny(s) == {x[2] : x \in {y \in kept \cup erased : y[1][1] = s}}

\* A status means what the sender makes of it (serve_otlp_http.go:32-149):
\* after a 200 every item is in the store, after a refusal no item of that
\* try is; a try that broke off has stored what comes before the item that
\* cannot be converted, and one that cannot be printed.
StoredAsAnswered ==
    \A s \in Sender, k \in 1 .. MaxTries :
        LET q == <<s, k>>
            whole == 1 .. Len(Items(s))
        IN  /\ answer[q] = 200 => CopiedByAny(s) = whole
            /\ answer[q] \notin {0, 200} => CopiedBy(q) = {}
            /\ at[q] = "broken" /\ got[q] > 0 =>
                1 .. got[q] \subseteq CopiedByAny(s)

\* A sender that missed an answer sends again.  Spans are then in the store
\* once; logs and data points once for every try that was handled, and more
\* than once only if the sender had got no answer to an earlier one.
RetryKeepsSpansOnce ==
    \A s \in Sender : \A i \in 1 .. Len(Items(s)) :
        LET copies == {x \in kept : x[1][1] = s /\ x[2] = i}
        IN  /\ Items(s)[i].kind = "span" => Cardinality(copies) <= 1
            /\ \A x, y \in copies : x[1][2] < y[1][2] => Unanswered(x[1])

\* The mutex is only kept by a handler that is writing an answer, whatever
\* happens to its client, and as long as it is, no other takes it and nothing
\* changes the store (serve_ui.go:55-186): a list is the store at one moment.
LockedWhileWriting ==
    [][mutex # None =>
        /\ at[mutex] \in {"writing", "flushing"}
        /\ mutex' \in {mutex, None}
        /\ kept' = kept]_endpoints
=============================================================================
