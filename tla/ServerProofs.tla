---------------------------- MODULE ServerProofs ----------------------------
(***************************************************************************)
(* Proofs about the handlers of the three servers, their clients and the   *)
(* process, for any number of clients and tries, any answers and posts.    *)
(***************************************************************************)
EXTENDS ServerInv, FiniteSetTheorems, SequenceTheorems, TLAPS

(***************************************************************************)
(* Requests and the steps that are about them                              *)
(***************************************************************************)

\* A request is a try of a sender, or what a reader asks.
LEMMA RequestLemma ==
    ASSUME NEW q \in Request
    PROVE  /\ q = <<q[1], q[2]>> /\ q[2] \in Nat \ {0} /\ q # None
           /\ \/ q[1] \in Sender /\ q[1] \notin Reader /\ q[2] \in 1 .. MaxTries
              \/ q[1] \in Reader /\ q[1] \notin Sender /\ q[2] = 1
  <1>1. MaxTries \in Nat /\ Sender \cap Reader = {} /\ None # q
    BY EndpointsAssumption
  <1>2. CASE q \in Sender \X (1 .. MaxTries)
    BY <1>1, <1>2
  <1>3. CASE q \in Reader \X {1}
    BY <1>1, <1>3
  <1> QED
    BY <1>2, <1>3 DEF Request

\* The tries of a sender are requests.
LEMMA TryLemma ==
    ASSUME NEW s \in Sender, NEW k \in 1 .. MaxTries
    PROVE  <<s, k>> \in Request /\ <<s, k>>[1] = s /\ <<s, k>>[2] = k
  BY DEF Request

\* The UI serves the readers, an OTLP server the senders.
LEMMA ServerLemma ==
    ASSUME post \in [Sender -> Post], NEW q \in Request
    PROVE  /\ q[1] \in Reader => ServerOf(q) = "ui"
           /\ q[1] \in Sender => ServerOf(q) \in {"grpc", "http"}
           /\ q[1] \in Sender => Len(Items(q[1])) \in Nat
  BY RequestLemma, EndpointsAssumption DEF ServerOf, Items

\* A step of the process, or the end of it, that leaves clients and handlers
\* as they are.
Quiet == UNCHANGED <<clients, mutex, kept, handlers, erased>>

\* What a step can be.
LEMMA StepCases ==
    ASSUME [Next]_vars
    PROVE  \/ Quiet
           \/ \E q \in Request : accept(q) \/ Handle(q)
           \/ \E c \in Sender \cup Reader : send(c)
           \/ \E q \in Request : giveUp(q)
           \/ \E s \in Sender : learn(s)
  BY DEF Next, vars, endpoints, Start, Stop, skip, listen, listenFails, notify, interrupt,
         kill, closeListeners, stopped, exit, connect, ClientStep, Quiet

\* What the handlers and clients have the type of.
Shape ==
    /\ EndpointsTypeOK
    /\ post \in [Sender -> Post] /\ ask \in [Reader -> Ask]
    /\ got \in [Request -> Nat] /\ tries \in [Sender \cup Reader -> Nat]

\* The places of a handler and the ways between them.
Place == {"none", "sent", "reading", "storing", "acking", "asked",
          "writing", "flushing", "over", "broken"}

Edges(q) ==
    IF q[1] \in Sender
    THEN {<<"sent", "reading">>, <<"sent", "storing">>, <<"reading", "storing">>,
          <<"reading", "over">>, <<"storing", "storing">>, <<"storing", "broken">>,
          <<"storing", "acking">>, <<"acking", "over">>}
    ELSE {<<"sent", "asked">>, <<"asked", "over">>, <<"asked", "writing">>,
          <<"writing", "writing">>, <<"writing", "broken">>, <<"writing", "flushing">>,
          <<"flushing", "over">>}

\* A handler goes along one of them, and leaves the others alone.
Goes(q) ==
    /\ \E p \in Place : at' = [at EXCEPT ![q] = p]
    /\ <<at[q], at'[q]>> \in Edges(q)

LEMMA GoesLemma ==
    ASSUME Shape, Roles, NEW q \in Request, accept(q) \/ Handle(q)
    PROVE  Goes(q) /\ UNCHANGED clients
  <1>1. /\ q[1] \in Reader <=> q[1] \notin Sender
        /\ at \in [Request -> Place]
    BY RequestLemma DEF Shape, EndpointsTypeOK, Place
  <1>2. /\ q[1] \in Reader => ServerOf(q) = "ui"
        /\ q[1] \in Sender => ServerOf(q) \in {"grpc", "http"}
    BY ServerLemma DEF Shape
  <1>3. at[q] \in {"reading", "storing", "acking"} => q[1] \in Sender
    BY DEF Roles
  <1>4. at[q] \in {"asked", "writing", "flushing"} => q[1] \notin Sender
    BY <1>1 DEF Roles
  <1>5. ASSUME NEW p \in Place, To(q, p), <<at[q], p>> \in Edges(q)
        PROVE  Goes(q)
    BY <1>1, <1>5 DEF Goes, To
  <1>6. ASSUME UNCHANGED at, at[q] \in {"storing", "writing"}
        PROVE  Goes(q)
    <2>1. <<at[q], at[q]>> \in Edges(q)
      BY <1>3, <1>4, <1>6 DEF Edges
    <2>2. at' = [at EXCEPT ![q] = at[q]] /\ at[q] \in Place
      BY <1>1, <1>6
    <2> QED
      BY <1>6, <2>1, <2>2 DEF Goes
  <1>7. CASE accept(q)
    <2> DEFINE p == CASE ServerOf(q) = "grpc" -> "storing"
                      [] ServerOf(q) = "http" -> "reading"
                      [] ServerOf(q) = "ui"   -> "asked"
    <2>1. To(q, p) /\ at[q] = "sent" /\ UNCHANGED clients
      BY <1>7 DEF accept
    <2>2. p \in Place /\ <<"sent", p>> \in Edges(q)
      BY <1>1, <1>2 DEF Edges, Place
    <2> QED
      BY <1>5, <2>1, <2>2
  <1>8. CASE readOtlpRequest(q)
    BY <1>3, <1>5, <1>8 DEF readOtlpRequest, Edges, Place
  <1>9. CASE storeItem(q) \/ stored(q) \/ ack(q)
    BY <1>3, <1>5, <1>6, <1>9 DEF storeItem, Storing, stored, ack, Edges, Place
  <1>10. CASE storePanics(q) \/ writePanics(q)
    BY <1>1, <1>2, <1>3, <1>4, <1>5, <1>6, <1>10
    DEF storePanics, Storing, writePanics, Panic, Edges, Place
  <1>11. CASE badId(q) \/ reset(q) \/ notFound(q) \/ lock(q)
    BY <1>4, <1>5, <1>11 DEF badId, reset, notFound, lock, Edges, Place
  <1>12. CASE writePiece(q) \/ written(q) \/ flush(q)
    BY <1>4, <1>5, <1>6, <1>12 DEF writePiece, written, flush, Edges, Place
  <1> QED
    BY <1>7, <1>8, <1>9, <1>10, <1>11, <1>12 DEF Handle, OwnStep, WithClient

\* What a client does leaves the store and the answers alone; only a new try
\* changes where a request is.
LEMMA SendLemma ==
    ASSUME Shape, InTurn, NEW c \in Sender \cup Reader, send(c)
    PROVE  \E q \in Request :
                /\ q = <<c, tries[c] + 1>> /\ q[1] = c /\ q[2] = tries[c] + 1 /\ at[q] = "none"
                /\ at' = [at EXCEPT ![q] = "sent"]
                /\ tries' = [tries EXCEPT ![c] = tries[c] + 1] /\ tries[c] + 1 \in Nat
                /\ tries[c] > 0 => Unanswered(<<c, tries[c]>>)
                /\ UNCHANGED <<post, ask, mutex, kept, got, left, answer, gone, ended, erased>>
  <1> DEFINE k == tries[c] + 1
  <1>1. tries[c] \in Nat
    BY DEF Shape
  <1>2. PICK q \in Request : q = <<c, k>>
    BY DEF send
  <1>3. q[1] = c /\ q[2] = k
    BY <1>2
  <1>4. at[q] = "none"
    BY <1>1, <1>3 DEF InTurn
  <1>5. tries[c] > 0 => Unanswered(<<c, tries[c]>>)
    <2>1. k > 1 => Unanswered(<<c, k - 1>>)
      BY DEF send
    <2>2. k - 1 = tries[c]
      BY <1>1
    <2> QED
      BY <1>1, <2>1, <2>2
  <1>6. /\ at' = [at EXCEPT ![q] = "sent"] /\ tries' = [tries EXCEPT ![c] = k]
        /\ UNCHANGED <<post, ask, mutex, kept, got, left, answer, gone, ended, erased>>
    BY <1>2 DEF send, To
  <1>7. k \in Nat
    BY <1>1
  <1> WITNESS q \in Request
  <1> QED
    BY <1>2, <1>3, <1>4, <1>5, <1>6, <1>7

LEMMA ListenLemma ==
    ASSUME \/ \E q \in Request : giveUp(q)
           \/ \E s \in Sender : learn(s)
    PROVE  /\ gone \subseteq gone' /\ gone' \subseteq gone \cup Request
           /\ UNCHANGED <<post, ask, mutex, kept, at, got, left, answer, tries, ended, erased>>
  BY DEF giveUp, learn, handlers

\* Every step keeps the types,
LEMMA ShapeStep ==
    ASSUME Shape, Roles, InTurn, [Next]_vars, ended' \in {"no", "panic", "killed", "clean", "error"}
    PROVE  Shape'
  <1>1. CASE Quiet
    BY <1>1 DEF Quiet, clients, handlers, Shape, EndpointsTypeOK, Items
  <1>2. ASSUME NEW c \in Sender \cup Reader, send(c)
        PROVE  Shape'
    <2>1. PICK q \in Request :
            /\ at' = [at EXCEPT ![q] = "sent"]
            /\ tries' = [tries EXCEPT ![c] = tries[c] + 1] /\ tries[c] + 1 \in Nat
            /\ UNCHANGED <<post, ask, mutex, kept, got, left, answer, gone, ended, erased>>
      BY <1>2, SendLemma
    <2> QED
      BY <2>1 DEF Shape, EndpointsTypeOK, Items
  <1>3. CASE \/ \E q \in Request : giveUp(q)
             \/ \E s \in Sender : learn(s)
    BY <1>3, ListenLemma DEF Shape, EndpointsTypeOK, Items
  <1>5. ASSUME NEW q \in Request, accept(q) \/ Handle(q)
        PROVE  Shape'
    <2>1. Goes(q) /\ UNCHANGED clients
      BY <1>5, GoesLemma
    <2>2. at' \in [Request -> Place]
      BY <2>1 DEF Goes, Shape, EndpointsTypeOK, Place
    <2>3. /\ \A s : Items(s)' = Items(s)
          /\ q[1] \in Sender => Len(Items(q[1])) \in Nat
      BY <2>1, ServerLemma DEF clients, Items, Shape
    <2>4. /\ \/ got' = got \/ (Storing(q) /\ got' = [got EXCEPT ![q] = @ + 1])
          /\ \/ kept' = kept \/ kept' = {} \/ (Storing(q) /\ kept' \subseteq kept \cup {<<q, got[q] + 1>>})
          /\ erased' = erased \/ erased' = erased \cup kept
          /\ mutex' \in {mutex, None, q}
      BY <1>5 DEF accept, Handle, OwnStep, WithClient, storeItem, Adds, storePanics, stored,
                  ack, badId, reset, notFound, lock, writePanics, written, readOtlpRequest,
                  writePiece, flush
    <2>5. left' \in [Request -> 0 .. MaxPieces]
      <3>1. CASE writePiece(q)
        <4>1. left[q] \in 0 .. MaxPieces /\ MaxPieces \in Nat /\ left[q] > 0
          BY <3>1, EndpointsAssumption DEF writePiece, Shape, EndpointsTypeOK
        <4>2. left[q] - 1 \in 0 .. MaxPieces
          BY <4>1
        <4> QED
          BY <3>1, <4>2 DEF writePiece, Shape, EndpointsTypeOK
      <3>2. CASE lock(q)
        BY <3>2 DEF lock, Shape, EndpointsTypeOK
      <3>3. left' = left \/ writePiece(q) \/ lock(q)
        BY <1>5 DEF accept, Handle, OwnStep, WithClient, storeItem, storePanics, stored,
                    ack, badId, reset, notFound, writePanics, written, readOtlpRequest, flush
      <3> QED
        BY <3>1, <3>2, <3>3 DEF Shape, EndpointsTypeOK
    <2>6. answer' \in [Request -> {0, 200, 400, 404, 405, 415}]
      <3>1. CASE readOtlpRequest(q)
        <4> DEFINE a == IF q \in gone /\ Refusal(post[q[1]]) # 405 THEN 400
                        ELSE Refusal(post[q[1]])
        <4>1. Refusal(post[q[1]]) \in {0, 400, 405, 415}
          BY DEF Refusal
        <4>2. answer' = [answer EXCEPT ![q] = a]
          BY <3>1 DEF readOtlpRequest
        <4>3. a \in {0, 200, 400, 404, 405, 415}
          BY <4>1
        <4> HIDE DEF a
        <4> QED
          BY <4>2, <4>3 DEF Shape, EndpointsTypeOK
      <3>2. CASE ack(q) \/ badId(q) \/ reset(q) \/ notFound(q)
        <4>1. \/ answer' = [answer EXCEPT ![q] = 200]
              \/ answer' = [answer EXCEPT ![q] = 400]
              \/ answer' = [answer EXCEPT ![q] = 404]
          BY <3>2, Zenon DEF ack, badId, reset, notFound
        <4>2. CASE answer' = [answer EXCEPT ![q] = 200]
          BY <4>2 DEF Shape, EndpointsTypeOK
        <4>3. CASE answer' = [answer EXCEPT ![q] = 400]
          BY <4>3 DEF Shape, EndpointsTypeOK
        <4>4. CASE answer' = [answer EXCEPT ![q] = 404]
          BY <4>4 DEF Shape, EndpointsTypeOK
        <4> QED
          BY <4>1, <4>2, <4>3, <4>4
      <3>4. CASE lock(q)
        <4> DEFINE a == IF Asks(q) = "span" /\ Found(q) = {} THEN 404 ELSE 200
        <4>1. answer' = [answer EXCEPT ![q] = a]
          BY <3>4 DEF lock
        <4>2. a \in {0, 200, 400, 404, 405, 415}
          OBVIOUS
        <4> HIDE DEF a
        <4> QED
          BY <4>1, <4>2 DEF Shape, EndpointsTypeOK
      <3>3. \/ answer' = answer \/ readOtlpRequest(q)
            \/ ack(q) \/ badId(q) \/ reset(q) \/ notFound(q) \/ lock(q)
        BY <1>5 DEF accept, Handle, OwnStep, WithClient, storeItem, storePanics, stored,
                    writePanics, written, writePiece, flush
      <3> QED
        BY <3>1, <3>2, <3>3, <3>4 DEF Shape, EndpointsTypeOK
    <2>7. got' \in [Request -> Nat]
      BY <2>4 DEF Shape
    <2>8. \A p \in Request : p[1] \in Sender => got'[p] \in 0 .. Len(Items(p[1]))
      <3>1. CASE got' = got
        BY <3>1 DEF Shape, EndpointsTypeOK
      <3>2. CASE Storing(q) /\ got' = [got EXCEPT ![q] = @ + 1]
        BY <2>3, <3>2 DEF Storing, Shape, EndpointsTypeOK
      <3> QED
        BY <2>4, <3>1, <3>2
    <2>9. kept' \subseteq Request \X Nat /\ erased' \subseteq Request \X Nat
      <3>1. <<q, got[q] + 1>> \in Request \X Nat
        BY DEF Shape
      <3> QED
        BY <2>4, <3>1 DEF Shape, EndpointsTypeOK
    <2>10. mutex' \in Request \cup {None}
      BY <2>4 DEF Shape, EndpointsTypeOK
    <2> QED
      BY <2>1, <2>2, <2>3, <2>5, <2>6, <2>7, <2>8, <2>9, <2>10 DEF Shape, EndpointsTypeOK, Place, clients
  <1> QED
    BY <1>1, <1>2, <1>3, <1>5, StepCases

\* the roles,
LEMMA RolesStep ==
    ASSUME Shape, Roles, InTurn, [Next]_vars
    PROVE  Roles'
  <1>1. CASE at' = at
    BY <1>1 DEF Roles
  <1>2. ASSUME NEW c \in Sender \cup Reader, send(c)
        PROVE  Roles'
    <2>1. PICK q \in Request : at' = [at EXCEPT ![q] = "sent"]
      BY <1>2, SendLemma
    <2> QED
      BY <2>1 DEF Roles, Shape, EndpointsTypeOK
  <1>3. ASSUME NEW q \in Request, accept(q) \/ Handle(q)
        PROVE  Roles'
    <2>1. Goes(q)
      BY <1>3, GoesLemma
    <2>2. \A p \in Request : p # q => at'[p] = at[p]
      BY <2>1 DEF Goes, Shape, EndpointsTypeOK
    <2>3. q[1] \in Reader <=> q[1] \notin Sender
      BY RequestLemma
    <2>4. /\ at'[q] \in {"reading", "storing", "acking"} => q[1] \in Sender
          /\ at'[q] \in {"asked", "writing", "flushing"} => q[1] \in Reader
      BY <2>1, <2>3 DEF Goes, Edges
    <2> QED
      BY <2>2, <2>4 DEF Roles
  <1>4. Quiet => at' = at
    BY DEF Quiet, handlers
  <1> QED
    BY <1>1, <1>2, <1>3, <1>4, ListenLemma, StepCases

\* the mutex's one writer,
LEMMA WriterLemma ==
    ASSUME Shape, Roles, OneWriter, NEW q \in Request, accept(q) \/ Handle(q)
    PROVE  \/ /\ mutex' = mutex
              /\ at'[q] = "writing" => at[q] = "writing"
              /\ mutex = q => at'[q] \in {"writing", "flushing"}
           \/ mutex = None /\ mutex' = q /\ at'[q] = "writing" /\ kept' = kept
           \/ mutex = q /\ mutex' = None /\ at'[q] # "writing" /\ kept' = kept
  <1>1. Goes(q)
    BY GoesLemma
  <1>2. q[1] \in Reader => ServerOf(q) = "ui"
    BY ServerLemma DEF Shape
  <1>3. at[q] \in {"writing", "flushing"} => q[1] \in Reader
    BY DEF Roles
  <1>4. q # None /\ (mutex = q => at[q] \in {"writing", "flushing"}) /\ (at[q] = "writing" => mutex = q)
    BY RequestLemma DEF OneWriter
  <1>5. at \in [Request -> Place]
    BY DEF Shape, EndpointsTypeOK, Place
  <1>6. CASE accept(q) \/ readOtlpRequest(q) \/ storeItem(q) \/ storePanics(q) \/ stored(q)
             \/ ack(q) \/ badId(q) \/ reset(q) \/ notFound(q)
    <2>1. mutex' = mutex /\ at[q] \notin {"writing", "flushing"}
      BY <1>6 DEF accept, readOtlpRequest, storeItem, storePanics, Storing, stored, ack, badId,
                  reset, notFound
    <2>2. at'[q] # "writing"
      <3>1. at[q] \in {"sent", "reading", "storing", "acking"} => at'[q] # "writing"
        BY <1>1 DEF Goes, Edges
      <3>2. badId(q) \/ reset(q) \/ notFound(q) => at'[q] = "over"
        BY <1>5 DEF badId, reset, notFound, To
      <3> QED
        BY <1>6, <3>1, <3>2 DEF accept, readOtlpRequest, storeItem, storePanics, Storing,
                                stored, ack
    <2> QED
      BY <1>4, <2>1, <2>2
  <1>7. CASE lock(q)
    BY <1>5, <1>7 DEF lock, To
  <1>8. CASE writePiece(q)
    BY <1>4, <1>5, <1>8 DEF writePiece
  <1>9. CASE writePanics(q)
    BY <1>2, <1>3, <1>4, <1>5, <1>9 DEF writePanics, Panic, To
  <1>10. CASE written(q) \/ flush(q)
    BY <1>4, <1>5, <1>10 DEF written, flush, To
  <1> QED
    BY <1>6, <1>7, <1>8, <1>9, <1>10 DEF Handle, OwnStep, WithClient

LEMMA WriterStep ==
    ASSUME Shape, Roles, InTurn, OneWriter, [Next]_vars
    PROVE  OneWriter'
  <1>1. CASE UNCHANGED <<at, mutex>>
    BY <1>1 DEF OneWriter
  <1>2. ASSUME NEW c \in Sender \cup Reader, send(c)
        PROVE  OneWriter'
    <2>1. PICK q \in Request : at[q] = "none" /\ mutex' = mutex /\ at' = [at EXCEPT ![q] = "sent"]
      BY <1>2, SendLemma
    <2>2. at'[q] = "sent" /\ \A p \in Request : p # q => at'[p] = at[p]
      BY <2>1 DEF Shape, EndpointsTypeOK
    <2>3. mutex \in Request \cup {None} /\ mutex # q
      BY <2>1, RequestLemma DEF OneWriter, Shape, EndpointsTypeOK
    <2> QED
      BY <2>1, <2>2, <2>3 DEF OneWriter
  <1>3. ASSUME NEW q \in Request, accept(q) \/ Handle(q)
        PROVE  OneWriter'
    <2>1. \A p \in Request : p # q => at'[p] = at[p]
      <3>1. Goes(q)
        BY <1>3, GoesLemma
      <3> QED
        BY <3>1 DEF Goes, Shape, EndpointsTypeOK
    <2>2. mutex \in Request \cup {None} /\ \A p \in Request : p # None
      BY RequestLemma DEF Shape, EndpointsTypeOK
    <2>3. CASE /\ mutex' = mutex
               /\ at'[q] = "writing" => at[q] = "writing"
               /\ mutex = q => at'[q] \in {"writing", "flushing"}
      BY <2>1, <2>2, <2>3 DEF OneWriter
    <2>4. CASE mutex = None /\ mutex' = q /\ at'[q] = "writing"
      BY <2>1, <2>2, <2>4 DEF OneWriter
    <2>5. CASE mutex = q /\ mutex' = None /\ at'[q] # "writing"
      BY <2>1, <2>2, <2>5 DEF OneWriter
    <2> QED
      BY <1>3, <2>3, <2>4, <2>5, WriterLemma
  <1>4. Quiet => UNCHANGED <<at, mutex>>
    BY DEF Quiet, handlers
  <1> QED
    BY <1>1, <1>2, <1>3, <1>4, ListenLemma, StepCases

\* the order of the tries,
LEMMA InTurnStep ==
    ASSUME Shape, Roles, InTurn, [Next]_vars
    PROVE  InTurn'
  <1>1. CASE UNCHANGED <<at, tries>> /\ gone \subseteq gone'
    BY <1>1 DEF InTurn, Unanswered
  <1>2. ASSUME NEW c \in Sender \cup Reader, send(c)
        PROVE  InTurn'
    <2>1. PICK q \in Request :
            /\ q = <<c, tries[c] + 1>> /\ q[1] = c /\ q[2] = tries[c] + 1
            /\ at' = [at EXCEPT ![q] = "sent"]
            /\ tries' = [tries EXCEPT ![c] = tries[c] + 1]
            /\ tries[c] > 0 => Unanswered(<<c, tries[c]>>)
            /\ gone' = gone
      BY <1>2, SendLemma
    <2>2. tries[c] \in Nat /\ tries'[c] = tries[c] + 1
      BY <2>1 DEF Shape
    <2>3. ASSUME NEW p \in Request, p # q
          PROVE  /\ p[2] > tries'[p[1]] => at'[p] = "none"
                 /\ p[2] < tries'[p[1]] => Unanswered(p)'
      <3>1. at'[p] = at[p] /\ p[2] \in Nat \ {0} /\ p = <<p[1], p[2]>>
        BY <2>1, <2>3, RequestLemma DEF Shape, EndpointsTypeOK
      <3>2. Unanswered(p) => Unanswered(p)'
        BY <2>1, <3>1 DEF Unanswered
      <3>3. CASE p[1] # c
        <4>1. tries'[p[1]] = tries[p[1]]
          BY <2>1, <3>3, RequestLemma DEF Shape
        <4> QED
          BY <3>1, <3>2, <4>1 DEF InTurn
      <3>4. CASE p[1] = c /\ p[2] = tries[c]
        BY <2>1, <2>2, <3>1, <3>2, <3>4
      <3>5. CASE p[1] = c /\ p[2] # tries[c]
        BY <2>2, <3>1, <3>2, <3>5 DEF InTurn
      <3> QED
        BY <3>3, <3>4, <3>5
    <2> QED
      BY <2>1, <2>2, <2>3 DEF InTurn
  <1>3. ASSUME NEW q \in Request, accept(q) \/ Handle(q)
        PROVE  InTurn'
    <2>1. Goes(q) /\ UNCHANGED clients
      BY <1>3, GoesLemma
    <2>2. \A p \in Request : p # q => at'[p] = at[p]
      BY <2>1 DEF Goes, Shape, EndpointsTypeOK
    <2>3. at[q] \notin {"none", "broken"}
      BY <2>1 DEF Goes, Edges
    <2> QED
      BY <2>1, <2>2, <2>3 DEF InTurn, Unanswered, clients
  <1>4. Quiet => UNCHANGED <<at, tries>> /\ gone \subseteq gone'
    BY DEF Quiet, handlers, clients
  <1> QED
    BY <1>1, <1>2, <1>3, <1>4, ListenLemma, StepCases

\* A step of one handler leaves the others where they are.
LEMMA OthersLemma ==
    ASSUME Shape, Roles, NEW q \in Request, accept(q) \/ Handle(q)
    PROVE  \A p \in Request \ {q} : UNCHANGED <<at[p], got[p], left[p], answer[p]>>
  <1>1. \/ got' = got \/ got' = [got EXCEPT ![q] = @ + 1]
    BY DEF accept, Handle, OwnStep, WithClient, storeItem, storePanics, stored,
                ack, badId, reset, notFound, lock, writePanics, written, readOtlpRequest,
                writePiece, flush
  <1>2. \A p \in Request : p # q => answer'[p] = answer[p]
    <2>1. CASE readOtlpRequest(q)
      <3> DEFINE a == IF q \in gone /\ Refusal(post[q[1]]) # 405 THEN 400
                      ELSE Refusal(post[q[1]])
      <3>1. answer' = [answer EXCEPT ![q] = a]
        BY <2>1 DEF readOtlpRequest
      <3> HIDE DEF a
      <3> QED
        BY <3>1 DEF Shape, EndpointsTypeOK
    <2>2. CASE ack(q)
      BY <2>2 DEF ack, Shape, EndpointsTypeOK
    <2>3. CASE badId(q)
      <3>1. answer' = [answer EXCEPT ![q] = 400]
        BY <2>3, Zenon DEF badId
      <3> QED
        BY <3>1 DEF Shape, EndpointsTypeOK
    <2>4. CASE reset(q) \/ notFound(q)
      BY <2>4 DEF reset, notFound, Shape, EndpointsTypeOK
    <2>5. CASE lock(q)
      BY <2>5 DEF lock, Shape, EndpointsTypeOK
    <2>6. \/ answer' = answer \/ readOtlpRequest(q)
          \/ ack(q) \/ badId(q) \/ reset(q) \/ notFound(q) \/ lock(q)
      BY DEF accept, Handle, OwnStep, WithClient, storeItem, storePanics, stored,
                  writePanics, written, writePiece, flush
    <2> QED
      BY <2>1, <2>2, <2>3, <2>4, <2>5, <2>6
  <1>3. \A p \in Request : p # q => left'[p] = left[p]
    <2>1. CASE lock(q)
      BY <2>1 DEF lock, Shape, EndpointsTypeOK
    <2>2. CASE ~lock(q)
      <3>1. left' = left \/ left' = [left EXCEPT ![q] = @ - 1]
        BY <2>2 DEF accept, Handle, OwnStep, WithClient, storeItem, storePanics, stored,
                    ack, badId, reset, notFound, writePanics, written, readOtlpRequest,
                    writePiece, flush
      <3> QED
        BY <3>1 DEF Shape, EndpointsTypeOK
    <2> QED
      BY <2>1, <2>2
  <1>4. \A p \in Request : p # q => at'[p] = at[p]
    <2>1. Goes(q)
      BY GoesLemma
    <2> QED
      BY <2>1 DEF Goes, Shape, EndpointsTypeOK
  <1> QED
    BY <1>1, <1>2, <1>3, <1>4 DEF Shape

\* what a handler has stored and answered,
LEMMA ProgressStep ==
    ASSUME Shape, Roles, InTurn, Progress, [Next]_vars
    PROVE  Progress'
  <1>1. CASE UNCHANGED <<at, got, answer, post>>
    BY <1>1 DEF Progress, Items
  <1>2. ASSUME NEW c \in Sender \cup Reader, send(c)
        PROVE  Progress'
    <2>1. PICK q \in Request :
            /\ at[q] = "none" /\ at' = [at EXCEPT ![q] = "sent"]
            /\ UNCHANGED <<got, answer, post>>
      BY <1>2, SendLemma
    <2>2. at'[q] = "sent" /\ \A p \in Request : p # q => at'[p] = at[p]
      BY <2>1 DEF Shape, EndpointsTypeOK
    <2> QED
      BY <2>1, <2>2 DEF Progress, Items
  <1>3. ASSUME NEW q \in Request, accept(q) \/ Handle(q)
        PROVE  Progress'
    <2>1. Goes(q) /\ UNCHANGED clients
      BY <1>3, GoesLemma
    <2>2. \A p \in Request : p # q => at'[p] = at[p]
      BY <2>1 DEF Goes, Shape, EndpointsTypeOK
    <2>3. \A s : Items(s)' = Items(s)
      BY <2>1 DEF clients, Items
    <2>4. /\ \A p \in Request : p # q => got'[p] = got[p]
          /\ \A p \in Request : p # q => answer'[p] = answer[p]
      BY <1>3, OthersLemma
    <2>5. ASSUME q[1] \in Sender
          PROVE  /\ got'[q] > 0 => at'[q] \in {"storing", "acking", "over", "broken"}
                 /\ at'[q] = "acking" => got'[q] = Len(Items(q[1]))
                 /\ answer'[q] # 0 => at'[q] = "over"
                 /\ answer'[q] = 200 => got'[q] = Len(Items(q[1]))
                 /\ answer'[q] \notin {0, 200} => got'[q] = 0
      <3>1. q[1] \notin Reader /\ Len(Items(q[1])) \in Nat
        BY <2>5, RequestLemma, ServerLemma DEF Shape
      <3>2. /\ got[q] \in Nat /\ at \in [Request -> Place]
            /\ answer \in [Request -> {0, 200, 400, 404, 405, 415}]
        BY DEF Shape, EndpointsTypeOK, Place
      <3>3. /\ got[q] > 0 => at[q] \in {"storing", "acking", "over", "broken"}
            /\ at[q] = "acking" => got[q] = Len(Items(q[1]))
            /\ answer[q] # 0 => at[q] = "over"
        BY <2>5 DEF Progress
      <3>4. CASE accept(q)
        <4>1. at[q] = "sent" /\ got' = got /\ answer' = answer
          BY <3>4 DEF accept
        <4>2. at'[q] \in {"storing", "reading"}
          BY <2>1, <2>5, <4>1 DEF Goes, Edges
        <4> QED
          BY <3>2, <3>3, <4>1, <4>2
      <3>5. CASE readOtlpRequest(q)
        <4> DEFINE a == IF q \in gone /\ Refusal(post[q[1]]) # 405 THEN 400
                        ELSE Refusal(post[q[1]])
        <4>1. a # 200
          BY DEF Refusal
        <4>2. /\ at[q] = "reading" /\ got' = got /\ answer' = [answer EXCEPT ![q] = a]
              /\ To(q, IF a = 0 THEN "storing" ELSE "over")
          BY <3>5 DEF readOtlpRequest
        <4> SUFFICES \/ answer'[q] = 0 /\ at'[q] = "storing"
                     \/ answer'[q] \notin {0, 200} /\ at'[q] = "over" /\ got'[q] = 0
          BY <3>2, <3>3, <4>2
        <4> HIDE DEF a
        <4>3. got'[q] = 0
          BY <3>2, <3>3, <4>2
        <4>4. answer'[q] = a /\ at'[q] = (IF a = 0 THEN "storing" ELSE "over")
          BY <3>2, <4>2 DEF To
        <4> QED
          BY <4>1, <4>3, <4>4
      <3>6. CASE storeItem(q)
        <4>1. /\ at[q] = "storing" /\ at' = at /\ answer' = answer
              /\ got' = [got EXCEPT ![q] = @ + 1]
          BY <3>6 DEF storeItem, Storing
        <4> QED
          BY <3>2, <3>3, <4>1
      <3>7. CASE storePanics(q)
        <4>1. at[q] = "storing" /\ got' = got /\ answer' = answer
          BY <3>7 DEF storePanics, Storing
        <4>2. at'[q] \in {"storing", "broken"}
          <5>1. at' = at \/ To(q, "broken")
            BY <3>7 DEF storePanics, Panic
          <5> QED
            BY <3>2, <4>1, <5>1 DEF To
        <4> QED
          BY <3>2, <3>3, <4>1, <4>2
      <3>8. CASE stored(q)
        BY <3>2, <3>3, <3>8 DEF stored, To
      <3>9. CASE ack(q)
        BY <3>1, <3>2, <3>3, <3>9 DEF ack, To
      <3>10. at[q] \notin {"asked", "writing", "flushing"}
        BY <3>1 DEF Roles
      <3> QED
        BY <1>3, <3>4, <3>5, <3>6, <3>7, <3>8, <3>9, <3>10
        DEF Handle, OwnStep, WithClient, badId, reset, notFound, lock, writePanics, written,
            writePiece, flush
    <2> QED
      BY <2>2, <2>3, <2>4, <2>5 DEF Progress
  <1>4. Quiet => UNCHANGED <<at, got, answer, post>>
    BY DEF Quiet, handlers, clients
  <1> QED
    BY <1>1, <1>2, <1>3, <1>4, ListenLemma, StepCases

\* and the copies of what was stored.
LEMMA CopiesLemma ==
    ASSUME kept \cup erased \subseteq kept' \cup erased', NEW s
    PROVE  CopiedByAny(s) \subseteq CopiedByAny(s)'
  BY DEF CopiedByAny

LEMMA CopiesStep ==
    ASSUME Shape, Roles, InTurn, Copies, [Next]_vars
    PROVE  Copies'
  <1>1. CASE UNCHANGED <<post, kept, erased, got>>
    BY <1>1 DEF Copies, CopiedByAny, ItemOf, Items
  <1>2. ASSUME NEW q \in Request, storeItem(q)
        PROVE  Copies'
    <2> DEFINE i == got[q] + 1
    <2>1. q[1] \in Sender /\ got[q] \in Nat
      BY <1>2 DEF storeItem, Storing, Roles, Shape
    <2>2. /\ kept' = Adds(q) /\ UNCHANGED <<post, erased>>
          /\ got' = [got EXCEPT ![q] = i]
      BY <1>2 DEF storeItem, clients
    <2>3. /\ kept \subseteq kept' /\ kept' \subseteq kept \cup {<<q, i>>}
          /\ \E x \in kept' : x[1][1] = q[1] /\ x[2] = i
      <3>1. <<q, i>>[1][1] = q[1] /\ <<q, i>>[2] = i
        OBVIOUS
      <3>2. CASE kept' = kept /\ \E x \in kept : x[1][1] = q[1] /\ x[2] = i
        BY <3>2
      <3>3. CASE kept' = kept \cup {<<q, i>>}
        BY <3>1, <3>3
      <3> QED
        BY <2>2, <3>2, <3>3 DEF Adds
    <2>4. got'[q] = i /\ \A p \in Request : p # q => got'[p] = got[p]
      BY <2>2 DEF Shape
    <2>5. \A x \in kept' \cup erased' : x[1][1] \in Sender /\ x[2] \in 1 .. got'[x[1]]
      <3> SUFFICES ASSUME NEW x \in kept' \cup erased'
                   PROVE  x[1][1] \in Sender /\ x[2] \in 1 .. got'[x[1]]
        OBVIOUS
      <3>1. CASE x \in kept \cup erased
        <4>1. x[1] \in Request /\ x[2] \in Nat
          BY <3>1 DEF Shape, EndpointsTypeOK
        <4>2. x[1][1] \in Sender /\ x[2] \in 1 .. got[x[1]]
          BY <3>1 DEF Copies
        <4>3. got[x[1]] \in Nat /\ got'[x[1]] \in Nat /\ got[x[1]] <= got'[x[1]]
          BY <2>1, <2>4, <4>1 DEF Shape
        <4> QED
          BY <4>2, <4>3
      <3>2. CASE x = <<q, i>>
        BY <2>1, <2>4, <3>2
      <3> QED
        BY <2>2, <2>3, <3>1, <3>2
    <2>6. ASSUME NEW p \in Request, p[1] \in Sender
          PROVE  1 .. got'[p] \subseteq CopiedByAny(p[1])'
      <3>1. 1 .. got[p] \subseteq CopiedByAny(p[1])'
        BY <2>2, <2>3, <2>6, CopiesLemma DEF Copies
      <3>2. CASE p = q
        <4>1. i \in CopiedByAny(p[1])'
          BY <2>3, <3>2 DEF CopiedByAny
        <4>2. \A n \in 1 .. i : n \in 1 .. got[p] \/ n = i
          BY <2>1, <3>2
        <4> QED
          BY <2>4, <3>1, <3>2, <4>1, <4>2
      <3> QED
        BY <2>4, <3>1, <3>2
    <2>7. ASSUME NEW x \in kept', NEW y \in kept',
                 x[1][1] = y[1][1], x[2] = y[2], ItemOf(x)'.kind = "span"
          PROVE  x = y
      <3>1. ItemOf(x)' = ItemOf(x) /\ ItemOf(x) = Items(x[1][1])[x[2]]
            /\ ItemOf(y) = Items(y[1][1])[y[2]]
        BY <2>2 DEF ItemOf, Items
      <3>2. CASE x \in kept /\ y \in kept
        BY <2>7, <3>1, <3>2 DEF Copies
      <3>3. CASE x \notin kept \/ y \notin kept
        <4>1. <<q, i>> \in kept' /\ <<q, i>> \notin kept
          BY <2>3, <3>3
        <4>2. x[1][1] = q[1] /\ x[2] = i
          BY <2>3, <2>7, <3>3
        <4>3. Next1(q) = ItemOf(x)
          BY <3>1, <4>2 DEF Next1
        <4>4. ~ \E z \in kept : z[1][1] = q[1] /\ z[2] = i
          BY <2>2, <2>7, <3>1, <4>1, <4>3 DEF Adds
        <4> QED
          BY <2>3, <2>7, <4>2, <4>4
      <3> QED
        BY <3>2, <3>3
    <2> QED
      BY <2>5, <2>6, <2>7 DEF Copies
  <1>3. ASSUME NEW q \in Request, reset(q)
        PROVE  Copies'
    <2>1. /\ kept' = {} /\ kept' \cup erased' = kept \cup erased
          /\ UNCHANGED <<post, got>>
      BY <1>3 DEF reset, clients
    <2> QED
      BY <2>1 DEF Copies, CopiedByAny
  <1>4. ASSUME NEW q \in Request, accept(q) \/ Handle(q)
        PROVE  storeItem(q) \/ reset(q) \/ UNCHANGED <<post, kept, erased, got>>
    BY <1>4 DEF accept, Handle, OwnStep, WithClient, storePanics, stored, ack, badId, notFound,
                lock, writePanics, written, readOtlpRequest, writePiece, flush, clients
  <1>5. ASSUME NEW c \in Sender \cup Reader, send(c)
        PROVE  UNCHANGED <<post, kept, erased, got>>
    BY <1>5, SendLemma
  <1>6. Quiet => UNCHANGED <<post, kept, erased, got>>
    BY DEF Quiet, handlers, clients
  <1> QED
    BY <1>1, <1>2, <1>3, <1>4, <1>5, <1>6, ListenLemma, StepCases

(***************************************************************************)
(* The process                                                             *)
(***************************************************************************)

ProcessShape ==
    /\ phase \in Servers \cup {"notify", "waiting", "stopping"}
    /\ listening \in [Servers -> 0 .. 2]
    /\ stops \in Seq(Servers)
    /\ verdict \in {"clean", "error"}

\* What a server's stop has to wait for, or to close.
Busy(srv) == listening[srv] > 0 \/ \E q \in Request : ServerOf(q) = srv /\ Running(q)

\* What the process does.
LEMMA ProcessCases ==
    ASSUME [Next]_vars
    PROVE  \/ UNCHANGED process
           \/ Quiet /\ \E srv \in Servers :
                skip(srv) \/ listen(srv) \/ listenFails(srv) \/ closeListeners(srv) \/ stopped(srv)
           \/ Quiet /\ (notify \/ interrupt)
  BY DEF Next, vars, process, endpoints, Start, Stop, skip, listen, listenFails, notify,
         interrupt, kill, closeListeners, stopped, exit, connect, Quiet

\* A server that is busy after a step was so before, or has begun to listen.
LEMMA BusyLemma ==
    ASSUME Shape, Roles, InTurn, [Next]_vars, NEW srv, Busy(srv)'
    PROVE  Busy(srv) \/ listening'[srv] > 0
  <1>1. CASE UNCHANGED <<at, post>>
    BY <1>1 DEF Busy, Running, ServerOf
  <1>2. ASSUME NEW c \in Sender \cup Reader, send(c)
        PROVE  Busy(srv) \/ listening'[srv] > 0
    <2>1. PICK q \in Request : at' = [at EXCEPT ![q] = "sent"] /\ post' = post
      BY <1>2, SendLemma
    <2>2. \A p \in Request : Running(p)' => Running(p)
      BY <2>1 DEF Running, Shape, EndpointsTypeOK
    <2> QED
      BY <2>1, <2>2 DEF Busy, ServerOf
  <1>3. ASSUME NEW q \in Request, Handle(q)
        PROVE  Busy(srv) \/ listening'[srv] > 0
    <2>1. Goes(q) /\ UNCHANGED clients
      BY <1>3, GoesLemma
    <2>2. \A p \in Request : p # q => at'[p] = at[p]
      BY <2>1 DEF Goes, Shape, EndpointsTypeOK
    <2>3. at[q] # "sent"
      BY <1>3 DEF Handle, OwnStep, WithClient, storeItem, Storing, storePanics, stored, ack,
                  badId, reset, notFound, lock, writePanics, written, readOtlpRequest,
                  writePiece, flush
    <2>4. Running(q)
      BY <2>1, <2>3 DEF Goes, Edges, Running
    <2>5. \A p \in Request : Running(p)' => Running(p)
      BY <2>2, <2>4 DEF Running
    <2> QED
      BY <2>1, <2>5 DEF Busy, ServerOf, clients
  <1>4. ASSUME NEW q \in Request, connect(q)
        PROVE  Busy(srv) \/ listening'[srv] > 0
    <2>1. /\ listening[ServerOf(q)] > 0 /\ UNCHANGED <<listening, post>> /\ accept(q)
      BY <1>4 DEF connect, accept, clients, process
    <2>2. \A p \in Request : p # q => at'[p] = at[p]
      BY <2>1 DEF accept, To, Shape, EndpointsTypeOK
    <2>3. \A p \in Request : p # q => (Running(p)' => Running(p))
      BY <2>2 DEF Running
    <2> QED
      BY <2>1, <2>3 DEF Busy, ServerOf
  <1>5. \/ UNCHANGED <<at, post>>
        \/ \E c \in Sender \cup Reader : send(c)
        \/ \E q \in Request : Handle(q) \/ connect(q)
    BY DEF Next, vars, endpoints, Start, Stop, skip, listen, listenFails, notify, interrupt,
           kill, closeListeners, stopped, exit, ClientStep, giveUp, learn, handlers, clients
  <1> QED
    BY <1>1, <1>2, <1>3, <1>4, <1>5

LEMMA ProcessShapeStep ==
    ASSUME ProcessShape, StartOrder, [Next]_vars
    PROVE  ProcessShape'
  <1>1. CASE UNCHANGED process
    BY <1>1 DEF ProcessShape, process
  <1>2. ASSUME NEW srv \in Servers, skip(srv) \/ listenFails(srv)
        PROVE  ProcessShape'
    BY <1>2 DEF skip, listenFails, ProcessShape, Servers, After
  <1>3. ASSUME NEW srv \in Servers, listen(srv)
        PROVE  ProcessShape'
    <2>1. phase = srv /\ listening[srv] \in 0 .. 1
      BY <1>3 DEF listen, Serves, StartOrder, ProcessShape, Servers
    <2>2. <<srv>> \o stops \in Seq(Servers)
      BY ConcatProperties DEF ProcessShape
    <2>3. /\ listening' = [listening EXCEPT ![srv] = @ + 1] /\ verdict' = verdict
          /\ phase' \in {phase, After(srv)} /\ stops' \in {stops, <<srv>> \o stops}
      BY <1>3 DEF listen
    <2>4. listening' \in [Servers -> 0 .. 2]
      BY <2>1, <2>3 DEF ProcessShape
    <2>5. phase' \in Servers \cup {"notify", "waiting", "stopping"}
      BY <2>3 DEF ProcessShape, Servers, After
    <2> QED
      BY <2>2, <2>3, <2>4, <2>5 DEF ProcessShape
  <1>4. ASSUME NEW srv \in Servers, closeListeners(srv)
        PROVE  ProcessShape'
    BY <1>4 DEF closeListeners, ProcessShape
  <1>5. ASSUME NEW srv \in Servers, stopped(srv)
        PROVE  ProcessShape'
    <2>1. stops # <<>> /\ stops' = Tail(stops)
      BY <1>5 DEF stopped, Stopping, Servers
    <2>2. Tail(stops) \in Seq(Servers)
      BY <2>1, HeadTailProperties DEF ProcessShape
    <2> QED
      BY <1>5, <2>1, <2>2 DEF stopped, ProcessShape
  <1>6. CASE notify \/ interrupt
    BY <1>6 DEF notify, interrupt, ProcessShape
  <1> QED
    BY <1>1, <1>2, <1>3, <1>4, <1>5, <1>6, ProcessCases

LEMMA StartOrderStep ==
    ASSUME ProcessShape, StartOrder, [Next]_vars
    PROVE  StartOrder'
  <1>1. CASE UNCHANGED process
    BY <1>1 DEF StartOrder, process
  <1>2. ASSUME NEW srv \in Servers, skip(srv) \/ listenFails(srv)
        PROVE  StartOrder'
    BY <1>2 DEF skip, listenFails, ProcessShape, Servers, After, StartOrder
  <1>3. ASSUME NEW srv \in Servers, listen(srv)
        PROVE  StartOrder'
    <2>1. /\ phase = srv /\ srv \in Enabled \cup {"ui"}
          /\ listening' = [listening EXCEPT ![srv] = @ + 1]
          /\ phase' = IF listening[srv] = 1 THEN After(srv) ELSE srv
      BY <1>3 DEF listen, Serves
    <2>2. /\ listening'[srv] = listening[srv] + 1
          /\ \A s \in Servers : s # srv => listening'[s] = listening[s]
          /\ \A s \in Servers : listening[s] \in 0 .. 2
      BY <2>1 DEF ProcessShape
    <2> QED
      BY <2>1, <2>2 DEF StartOrder, Servers, After
  <1>4. ASSUME NEW srv \in Servers, closeListeners(srv)
        PROVE  StartOrder'
    BY <1>4 DEF closeListeners, Stopping, ProcessShape, StartOrder, Servers
  <1>5. ASSUME NEW srv \in Servers, stopped(srv)
        PROVE  StartOrder'
    BY <1>5 DEF stopped, StartOrder
  <1>6. CASE notify \/ interrupt
    BY <1>6 DEF notify, interrupt, StartOrder, Servers
  <1> QED
    BY <1>1, <1>2, <1>3, <1>4, <1>5, <1>6, ProcessCases

LEMMA CoveredStep ==
    ASSUME Shape, Roles, InTurn, ProcessShape, StartOrder, Covered, [Next]_vars
    PROVE  Covered'
  <1> DEFINE Partly(srv) == /\ listening[srv] = 1
                            /\ phase = srv \/ (phase = "stopping" /\ verdict = "error")
  <1> SUFFICES ASSUME NEW srv \in Servers, Busy(srv)'
               PROVE  WillStop(srv)' \/ Partly(srv)'
    BY DEF Covered, Busy
  <1>1. Busy(srv) => WillStop(srv) \/ Partly(srv)
    BY DEF Covered, Busy
  <1>2. Busy(srv) \/ listening'[srv] > 0
    BY BusyLemma
  <1>3. stops \in Seq(Servers) /\ Len(stops) \in Nat /\ \A s \in Servers : listening[s] \in 0 .. 2
    BY DEF ProcessShape
  <1>4. CASE UNCHANGED process
    BY <1>1, <1>2, <1>4 DEF process, WillStop, Busy
  <1>5. ASSUME NEW s \in Servers, skip(s)
        PROVE  WillStop(srv)'
    <2>1. UNCHANGED <<listening, stops>> /\ phase = s /\ s # "stopping" /\ listening[s] = 0
      BY <1>3, <1>5 DEF skip, Servers, StartOrder
    <2> QED
      BY <1>1, <1>2, <2>1 DEF WillStop, Busy
  <1>6. ASSUME NEW s \in Servers, listen(s)
        PROVE  WillStop(srv)' \/ Partly(srv)'
    <2>1. /\ phase = s /\ s # "stopping" /\ listening[s] \in 0 .. 1
      BY <1>3, <1>6 DEF listen, Serves, Servers, StartOrder
    <2>2. /\ listening'[s] = listening[s] + 1
          /\ \A t \in Servers : t # s => listening'[t] = listening[t]
      BY <1>6 DEF listen, ProcessShape
    <2>3. CASE listening[s] = 1
      <3>1. stops' = <<s>> \o stops
        BY <1>6, <2>3 DEF listen
      <3>2. /\ Len(stops') = Len(stops) + 1 /\ stops'[1] = s
            /\ \A i \in 1 .. Len(stops) : stops'[i + 1] = stops[i]
        BY <1>3, <3>1
      <3>3. WillStop(s)'
        BY <1>3, <3>2 DEF WillStop
      <3>4. WillStop(srv) => WillStop(srv)'
        <4> SUFFICES ASSUME NEW i \in 1 .. Len(stops), stops[i] = srv
                     PROVE  WillStop(srv)'
          BY DEF WillStop
        <4>1. i + 1 \in 1 .. Len(stops') /\ stops'[i + 1] = srv
          BY <1>3, <3>2
        <4> QED
          BY <4>1 DEF WillStop
      <3>5. srv # s => WillStop(srv)
        BY <1>1, <1>2, <2>1, <2>2 DEF Busy
      <3> QED
        BY <3>3, <3>4, <3>5
    <2>4. CASE listening[s] = 0
      <3>1. UNCHANGED <<stops, phase>>
        BY <1>6, <2>4 DEF listen
      <3> QED
        BY <1>1, <1>2, <2>1, <2>2, <2>4, <3>1 DEF WillStop, Busy
    <2> QED
      BY <2>1, <2>3, <2>4
  <1>7. ASSUME NEW s \in Servers, listenFails(s)
        PROVE  WillStop(srv)' \/ Partly(srv)'
    <2>1. /\ phase = s /\ s # "stopping" /\ phase' = "stopping" /\ verdict' = "error"
          /\ UNCHANGED <<listening, stops>>
      BY <1>7 DEF listenFails, Serves, Servers
    <2> QED
      BY <1>1, <1>2, <2>1 DEF WillStop, Busy
  <1>8. CASE notify \/ interrupt
    <2>1. phase \in {"notify", "waiting"} /\ UNCHANGED <<listening, stops>>
      BY <1>8 DEF notify, interrupt
    <2>2. srv \notin {"notify", "waiting"}
      BY DEF Servers
    <2> QED
      BY <1>1, <1>2, <2>1, <2>2 DEF WillStop, Busy
  <1>9. ASSUME NEW s \in Servers, closeListeners(s)
        PROVE  WillStop(srv)' \/ Partly(srv)'
    <2>1. /\ stops # <<>> /\ s = Head(stops) /\ UNCHANGED <<phase, stops, verdict>>
          /\ listening' = [listening EXCEPT ![s] = 0]
      BY <1>9 DEF closeListeners, Stopping, Servers
    <2>2. WillStop(s)
      BY <1>3, <2>1 DEF WillStop
    <2>3. /\ listening'[s] = 0
          /\ \A t \in Servers : t # s => listening'[t] = listening[t]
      BY <2>1 DEF ProcessShape
    <2> QED
      BY <1>1, <1>2, <2>1, <2>2, <2>3 DEF WillStop, Busy
  <1>10. ASSUME NEW s \in Servers, stopped(s), Quiet
         PROVE  WillStop(srv)' \/ Partly(srv)'
    <2>1. /\ stops # <<>> /\ s = Head(stops) /\ stops' = Tail(stops) /\ listening[s] = 0
          /\ UNCHANGED <<phase, listening, verdict>>
          /\ \A q \in Request : ServerOf(q) = s => ~Running(q)
      BY <1>10 DEF stopped, Stopping, Servers
    <2>2. srv # s /\ Busy(srv)
      BY <1>2, <2>1 DEF Busy
    <2>3. WillStop(srv) => WillStop(srv)'
      <3> SUFFICES ASSUME NEW i \in 1 .. Len(stops), stops[i] = srv
                   PROVE  WillStop(srv)'
        BY DEF WillStop
      <3>1. /\ stops[1] = s /\ Len(stops') = Len(stops) - 1
            /\ \A k \in 1 .. Len(stops) - 1 : stops'[k] = stops[k + 1]
        BY <1>3, <2>1
      <3>2. i # 1
        BY <2>2, <3>1
      <3>3. i - 1 \in 1 .. Len(stops') /\ stops'[i - 1] = srv
        BY <1>3, <3>1, <3>2
      <3> QED
        BY <3>3 DEF WillStop
    <2> QED
      BY <1>1, <2>1, <2>2, <2>3
  <1> QED
    BY <1>4, <1>5, <1>6, <1>7, <1>8, <1>9, <1>10, ProcessCases

\* How the process ends, and what it cuts off then.
LEMMA EndStep ==
    ASSUME Shape, ProcessShape, Covered, StopCutsNothing, [Next]_vars
    PROVE  /\ ended' \in {"no", "panic", "killed", "clean", "error"}
           /\ StopCutsNothing'
  <1>1. CASE UNCHANGED vars
    BY <1>1 DEF vars, endpoints, process, clients, handlers, Shape, EndpointsTypeOK,
                StopCutsNothing, Running, ServerOf
  <1>2. CASE ended' \in {"no", "panic", "killed"}
    BY <1>2 DEF StopCutsNothing
  <1>3. CASE exit
    <2>1. /\ phase = "stopping" /\ stops = <<>> /\ ended' = verdict
          /\ UNCHANGED <<at, post, listening>>
      BY <1>3 DEF exit, handlers, clients, process
    <2>2. ASSUME NEW q \in Request, Running(q)
          PROVE  verdict = "error" /\ listening[ServerOf(q)] = 1
      <3>1. ServerOf(q) \in Servers
        BY RequestLemma, ServerLemma DEF Shape, Servers
      <3>2. ~WillStop(ServerOf(q))
        BY <2>1 DEF WillStop
      <3>3. ServerOf(q) # "stopping"
        BY <3>1 DEF Servers
      <3> QED
        BY <2>1, <2>2, <3>1, <3>2, <3>3 DEF Covered
    <2> QED
      BY <2>1, <2>2 DEF StopCutsNothing, ProcessShape, Running, ServerOf
  <1>4. Next => exit \/ ended' \in {"no", "panic", "killed"}
    <2>1. ASSUME NEW q \in Request, ended = "no", accept(q) \/ Handle(q)
          PROVE  ended' \in {"no", "panic"}
      BY <2>1 DEF accept, Handle, OwnStep, WithClient, storeItem, storePanics, stored, ack,
                  badId, reset, notFound, lock, writePanics, written, readOtlpRequest,
                  writePiece, flush, Panic
    <2>2. ASSUME ended = "no", ClientStep
          PROVE  ended' = "no"
      BY <2>2 DEF ClientStep, send, giveUp, learn
    <2>3. ASSUME ended = "no",
                 \/ Start \/ notify \/ interrupt \/ kill
                 \/ \E srv \in Servers : closeListeners(srv) \/ stopped(srv)
          PROVE  ended' \in {"no", "killed"}
      BY <2>3 DEF Start, skip, listen, listenFails, notify, interrupt, kill, closeListeners,
                  stopped, endpoints
    <2> QED
      BY <2>1, <2>2, <2>3 DEF Next, Stop, connect
  <1> QED
    BY <1>1, <1>2, <1>3, <1>4

(***************************************************************************)
(* The invariant                                                           *)
(***************************************************************************)

LEMMA ServerInvShape ==
    ServerInv <=> /\ Shape /\ ProcessShape
                  /\ Roles /\ OneWriter /\ InTurn /\ Progress /\ Copies
                  /\ StartOrder /\ Covered /\ StopCutsNothing
  <1>1. stops \in Seq(Servers) => \A i \in 1 .. Len(stops) : stops[i] \in Servers
    OBVIOUS
  <1> QED
    BY <1>1 DEF ServerInv, TypeOK, Shape, ProcessShape

LEMMA ServerInitInv ==
    ASSUME ServerInit
    PROVE  ServerInv
  <1>0. /\ post \in [Sender -> Post] /\ ask \in [Reader -> Ask]
        /\ mutex = None /\ kept = {} /\ erased = {} /\ gone = {} /\ ended = "no"
        /\ at = [q \in Request |-> "none"]
        /\ got = [q \in Request |-> 0] /\ left = [q \in Request |-> 0]
        /\ answer = [q \in Request |-> 0]
        /\ tries = [c \in Sender \cup Reader |-> 0]
        /\ phase = "grpc" /\ listening = [srv \in Servers |-> 0]
        /\ stops = <<>> /\ verdict = "clean"
    BY Zenon DEF ServerInit, Init
  <1>1. Shape
    <2>1. \A q \in Request : q[1] \in Sender => got[q] \in 0 .. Len(Items(q[1]))
      <3>1. \A q \in Request : got[q] = 0
        BY <1>0
      <3>2. \A q \in Request : q[1] \in Sender => Len(Items(q[1])) \in Nat
        BY <1>0, ServerLemma
      <3> QED
        BY <3>1, <3>2
    <2>2. left \in [Request -> 0 .. MaxPieces]
      <3>1. 0 \in 0 .. MaxPieces
        <4>1. MaxPieces \in Nat
          BY EndpointsAssumption, Zenon
        <4> QED
          BY <4>1
      <3> QED
        BY <1>0, <3>1
    <2>3. at \in [Request -> {"none", "sent", "reading", "storing", "acking", "asked",
                              "writing", "flushing", "over", "broken"}]
      BY <1>0
    <2>4. answer \in [Request -> {0, 200, 400, 404, 405, 415}]
      BY <1>0
    <2>5. got \in [Request -> Nat] /\ tries \in [Sender \cup Reader -> Nat]
      BY <1>0
    <2> QED
      BY <1>0, <2>1, <2>2, <2>3, <2>4, <2>5 DEF Shape, EndpointsTypeOK
  <1>2. ProcessShape
    BY <1>0 DEF ProcessShape, Servers
  <1>3. Roles /\ OneWriter
    BY <1>0 DEF Roles, OneWriter
  <1>4. InTurn /\ Progress
    <2>1. \A q \in Request : q[2] \in Nat /\ tries[q[1]] = 0
      BY <1>0, RequestLemma
    <2> QED
      BY <1>0, <2>1 DEF InTurn, Progress
  <1>5. Copies
    BY <1>0 DEF Copies
  <1>6. StartOrder
    BY <1>0 DEF StartOrder, Servers
  <1>7. Covered
    BY <1>0 DEF Covered, Running
  <1>8. StopCutsNothing
    BY <1>0 DEF StopCutsNothing
  <1> QED
    BY <1>1, <1>2, <1>3, <1>4, <1>5, <1>6, <1>7, <1>8, ServerInvShape

LEMMA ServerInvStep ==
    ASSUME ServerInv, [Next]_vars
    PROVE  ServerInv'
  <1>1. /\ Shape /\ ProcessShape
        /\ Roles /\ OneWriter /\ InTurn /\ Progress /\ Copies
        /\ StartOrder /\ Covered /\ StopCutsNothing
    BY ServerInvShape
  <1>2. Shape' /\ StopCutsNothing'
    BY <1>1, ShapeStep, EndStep
  <1>3. ProcessShape' /\ StartOrder' /\ Covered'
    BY <1>1, ProcessShapeStep, StartOrderStep, CoveredStep
  <1>4. Roles' /\ OneWriter' /\ InTurn' /\ Progress' /\ Copies'
    BY <1>1, RolesStep, WriterStep, InTurnStep, ProgressStep, CopiesStep
  <1>5. stops' \in Seq(Servers) => \A i \in 1 .. Len(stops') : stops'[i] \in Servers
    OBVIOUS
  <1> QED
    BY <1>2, <1>3, <1>4, <1>5 DEF ServerInv, TypeOK, Shape, ProcessShape

\* The clients, the handlers of the three servers and the process keep to the
\* invariant, for any number of clients and tries, any posts and any length
\* of the answers: the basis of the theorems below.
THEOREM ServerInvariant == Spec => []ServerInv
  <1>1. ServerInit => ServerInv
    BY ServerInitInv
  <1>2. ServerInv /\ [Next]_vars => ServerInv'
    BY ServerInvStep
  <1> QED
    BY <1>1, <1>2, PTL DEF Spec

\* The variables keep their types.
THEOREM ServerTypes == Spec => []TypeOK
  <1>1. ServerInv => TypeOK
    BY DEF ServerInv
  <1> QED
    BY <1>1, ServerInvariant, PTL

\* After a 200 every item that the sender has sent is in the store or was in
\* it until a reset, whatever other tries, readers and resets did meanwhile;
\* a request that was refused has stored nothing; and a handler that broke
\* off has stored what comes before the item it broke off at.
THEOREM Answers == Spec => []StoredAsAnswered
  <1>1. ServerInv => StoredAsAnswered
    <2> SUFFICES ASSUME ServerInv, NEW s \in Sender, NEW k \in 1 .. MaxTries
                 PROVE  /\ answer[<<s, k>>] = 200 => CopiedByAny(s) = 1 .. Len(Items(s))
                        /\ answer[<<s, k>>] \notin {0, 200} => CopiedBy(<<s, k>>) = {}
                        /\ 1 .. got[<<s, k>>] \subseteq CopiedByAny(s)
      BY DEF StoredAsAnswered
    <2> DEFINE q == <<s, k>>
    <2>1. q \in Request /\ q[1] = s
      BY TryLemma
    <2>2. 1 .. got[q] \subseteq CopiedByAny(s)
      BY <2>1 DEF ServerInv, Copies
    <2>3. /\ answer[q] = 200 => got[q] = Len(Items(s))
          /\ answer[q] \notin {0, 200} => got[q] = 0
      BY <2>1 DEF ServerInv, Progress
    <2>4. \A x \in kept \cup erased : x[2] \in 1 .. got[x[1]] /\ x[1] \in Request
      BY DEF ServerInv, Copies, TypeOK, EndpointsTypeOK
    <2>5. ASSUME NEW n \in CopiedByAny(s)
          PROVE  n \in 1 .. Len(Items(s))
      <3>1. PICK x \in kept \cup erased : x[1][1] = s /\ x[2] = n
        BY DEF CopiedByAny
      <3>2. n \in 1 .. got[x[1]] /\ x[1] \in Request
        BY <2>4, <3>1
      <3>3. got[x[1]] \in 0 .. Len(Items(s))
        BY <3>1, <3>2 DEF ServerInv, TypeOK, EndpointsTypeOK
      <3>4. Len(Items(s)) \in Nat
        BY <2>1, ServerLemma DEF ServerInv
      <3> QED
        BY <3>2, <3>3, <3>4
    <2>6. got[q] = 0 => CopiedBy(q) = {}
      BY <2>4 DEF CopiedBy
    <2> QED
      BY <2>2, <2>3, <2>5, <2>6
  <1> QED
    BY <1>1, ServerInvariant, PTL

\* A sender that sends again, as often as it likes, leaves one copy of each
\* span, and a second copy of a log or a point only if it has missed the
\* answer to the first.
THEOREM Retries == Spec => []RetryKeepsSpansOnce
  <1>1. ServerInv => RetryKeepsSpansOnce
    <2> SUFFICES ASSUME ServerInv, NEW s \in Sender, NEW i \in 1 .. Len(Items(s)),
                        NEW copies, copies = {x \in kept : x[1][1] = s /\ x[2] = i}
                 PROVE  /\ Items(s)[i].kind = "span" => Cardinality(copies) <= 1
                        /\ \A x, y \in copies : x[1][2] < y[1][2] => Unanswered(x[1])
      BY DEF RetryKeepsSpansOnce
    <2>1. ASSUME Items(s)[i].kind = "span"
          PROVE  Cardinality(copies) <= 1
      <3>1. \A x, y \in copies : x = y
        BY <2>1 DEF ServerInv, Copies, ItemOf
      <3>2. CASE copies = {}
        BY <3>2, FS_EmptySet
      <3>3. ASSUME NEW x \in copies
            PROVE  Cardinality(copies) <= 1
        <4>1. copies = {x}
          BY <3>1, <3>3
        <4>2. Cardinality(copies) = 1
          BY <4>1, FS_Singleton, Zenon
        <4> QED
          BY <4>2
      <3> QED
        BY <3>2, <3>3
    <2>2. ASSUME NEW x \in copies, NEW y \in copies, x[1][2] < y[1][2]
          PROVE  Unanswered(x[1])
      <3>1. /\ x[1] \in Request /\ y[1] \in Request /\ x[1][1] = s /\ y[1][1] = s
            /\ y[2] \in 1 .. got[y[1]] /\ got[y[1]] \in Nat
        BY DEF ServerInv, TypeOK, EndpointsTypeOK, Copies
      <3>2. at[y[1]] # "none"
        <4>1. got[y[1]] > 0
          BY <3>1
        <4> QED
          BY <3>1, <4>1 DEF ServerInv, Progress
      <3>3. x[1][2] \in Nat /\ y[1][2] \in Nat /\ tries[s] \in Nat
        BY <3>1, RequestLemma DEF ServerInv
      <3>4. ~(y[1][2] > tries[s])
        BY <3>1, <3>2 DEF ServerInv, InTurn
      <3>5. x[1][2] < tries[s]
        BY <2>2, <3>3, <3>4
      <3> QED
        BY <3>1, <3>5 DEF ServerInv, InTurn
    <2> QED
      BY <2>1, <2>2
  <1> QED
    BY <1>1, ServerInvariant, PTL

\* A stop cuts off no request, but on the first address of a server whose
\* second one could not be had.
THEOREM Stops == Spec => []StopCutsNothing
  <1>1. ServerInv => StopCutsNothing
    BY DEF ServerInv
  <1> QED
    BY <1>1, ServerInvariant, PTL

\* The mutex of the store is kept by the handler that took it, until that
\* handler gives it back, and nothing changes the store before.
THEOREM Locked == Spec => LockedWhileWriting
  <1> DEFINE Step == mutex # None => /\ at[mutex] \in {"writing", "flushing"}
                                     /\ mutex' \in {mutex, None}
                                     /\ kept' = kept
  <1>1. ServerInv /\ [Next]_vars => [Step]_endpoints
    <2> SUFFICES ASSUME ServerInv, [Next]_vars, mutex # None
                 PROVE  Step
      OBVIOUS
    <2>1. at[mutex] \in {"writing", "flushing"}
      BY DEF ServerInv, OneWriter
    <2>2. Shape /\ Roles /\ OneWriter /\ InTurn
      BY ServerInvShape
    <2>3. CASE UNCHANGED <<mutex, kept>>
      BY <2>1, <2>3
    <2>4. ASSUME NEW q \in Request, accept(q) \/ Handle(q)
          PROVE  mutex' \in {mutex, None} /\ kept' = kept
      <3>1. mutex' \in {mutex, None}
        BY <2>2, <2>4, WriterLemma
      <3>2. kept' = kept
        BY <2>4 DEF accept, Handle, OwnStep, WithClient, storeItem, storePanics, stored, ack,
                    badId, reset, notFound, lock, writePanics, written, readOtlpRequest,
                    writePiece, flush
      <3> QED
        BY <3>1, <3>2
    <2>5. ASSUME NEW c \in Sender \cup Reader, send(c)
          PROVE  UNCHANGED <<mutex, kept>>
      BY <2>2, <2>5, SendLemma
    <2> QED
      BY <2>1, <2>3, <2>4, <2>5, ListenLemma, StepCases DEF Quiet
  <1> QED
    BY <1>1, ServerInvariant, PTL DEF Spec, LockedWhileWriting

(***************************************************************************)
(* Handlers get on                                                         *)
(***************************************************************************)

\* The steps that a handler has to take at most: one for each item or piece of
\* an answer, and three around them.
StepsLeft(q) ==
    CASE at[q] = "reading" -> Len(Items(q[1])) + 3
      [] at[q] = "storing" -> (Len(Items(q[1])) - got[q]) + 2
      [] at[q] = "asked" -> MaxPieces + 3
      [] at[q] = "writing" -> left[q] + 2
      [] at[q] \in {"acking", "flushing"} -> 1
      [] OTHER -> 0

Advances(q) == Running(q) /\ StepsLeft(q)' < StepsLeft(q)
Rests(q) == UNCHANGED <<at[q], got[q], left[q], answer[q]>>

LEMMA PiecesLemma ==
    ASSUME Shape, NEW q \in Request
    PROVE  MaxPieces \in Nat /\ left[q] \in Nat
  <1>1. MaxPieces \in Nat
    BY EndpointsAssumption
  <1>2. left[q] \in 0 .. MaxPieces
    BY DEF Shape, EndpointsTypeOK
  <1> QED
    BY <1>1, <1>2

\* A handler that comes to its end.
LEMMA OverLemma ==
    ASSUME Shape, NEW q \in Request, Running(q),
           at'[q] \in {"over", "broken"}, at[q] = "storing" => got[q] <= Len(Items(q[1])),
           at[q] \in {"reading", "storing"} => Len(Items(q[1])) \in Nat
    PROVE  Advances(q)
  <1>1. StepsLeft(q)' = 0
    BY DEF StepsLeft
  <1>2. StepsLeft(q) > 0
    <2>1. MaxPieces \in Nat /\ left[q] \in Nat /\ got[q] \in Nat
      BY PiecesLemma DEF Shape
    <2> QED
      BY <2>1 DEF StepsLeft, Running
  <1>3. 0 < StepsLeft(q)
    BY <1>2
  <1> QED
    BY <1>1, <1>3 DEF Advances

\* Each step of a handler is one of those it has left, except that grpc-go does
\* not come back from a panic, which ends the process where the handler is.
LEMMA AdvanceLemma ==
    ASSUME Shape, Roles, Progress, NEW q \in Request, Handle(q)
    PROVE  Advances(q) \/ (Rests(q) /\ UNCHANGED <<mutex, kept, erased>>)
  <1>1. /\ at \in [Request -> Place] /\ got[q] \in Nat /\ left \in [Request -> 0 .. MaxPieces]
        /\ got \in [Request -> Nat] /\ MaxPieces \in Nat /\ left[q] \in Nat
    BY PiecesLemma DEF Shape, EndpointsTypeOK, Place
  <1>2. at[q] \in {"reading", "storing", "acking"} =>
            /\ q[1] \in Sender /\ Len(Items(q[1])) \in Nat /\ got[q] <= Len(Items(q[1]))
    <2>1. at[q] \in {"reading", "storing", "acking"} => q[1] \in Sender
      BY DEF Roles
    <2>2. q[1] \in Sender => Len(Items(q[1])) \in Nat /\ got[q] \in 0 .. Len(Items(q[1]))
      BY ServerLemma DEF Shape, EndpointsTypeOK
    <2> QED
      BY <2>1, <2>2
  <1>3. at[q] = "reading" => got[q] = 0
    BY <1>1, <1>2 DEF Progress
  <1>4. UNCHANGED clients /\ Len(Items(q[1]))' = Len(Items(q[1]))
    <2>1. UNCHANGED clients
      BY GoesLemma
    <2> QED
      BY <2>1 DEF clients, Items
  <1>5. \A i, j \in Nat : /\ (i - 0) + 2 < i + 3
                          /\ j < i => (i - (j + 1)) + 2 < (i - j) + 2
                          /\ j = i => 1 < (i - j) + 2
                          /\ j <= i => j + 2 < i + 3
                          /\ i > 0 => (i - 1) + 2 < i + 2
                          /\ 1 < i + 2
    OBVIOUS
  <1> DEFINE len == Len(Items(q[1]))
  <1>6. CASE readOtlpRequest(q)
    <2>1. at[q] = "reading" /\ got' = got /\ at'[q] \in {"storing", "over"}
      BY <1>1, <1>6 DEF readOtlpRequest, To
    <2>2. CASE at'[q] = "storing"
      <3>1. StepsLeft(q) = len + 3 /\ StepsLeft(q)' = (len - 0) + 2
        BY <1>3, <1>4, <2>1, <2>2 DEF StepsLeft
      <3> QED
        BY <1>2, <1>5, <2>1, <3>1 DEF Advances, Running
    <2> QED
      BY <1>2, <2>1, <2>2, OverLemma DEF Running
  <1>7. CASE storeItem(q)
    <2>1. at[q] = "storing" /\ at' = at /\ got[q] < len /\ got'[q] = got[q] + 1
      BY <1>1, <1>7 DEF storeItem, Storing
    <2>2. StepsLeft(q) = (len - got[q]) + 2 /\ StepsLeft(q)' = (len - (got[q] + 1)) + 2
      BY <1>4, <2>1 DEF StepsLeft
    <2> QED
      BY <1>1, <1>2, <1>5, <2>1, <2>2 DEF Advances, Running
  <1>8. CASE storePanics(q)
    <2>1. /\ at[q] = "storing" /\ UNCHANGED <<mutex, kept, erased, got, left, answer>>
          /\ at' = at \/ at'[q] = "broken"
      BY <1>1, <1>8 DEF storePanics, Storing, Panic, To
    <2> QED
      BY <1>2, <2>1, OverLemma DEF Rests, Running
  <1>9. CASE stored(q)
    <2>1. at[q] = "storing" /\ at'[q] = "acking" /\ got[q] = len
      BY <1>1, <1>9 DEF stored, To
    <2>2. StepsLeft(q) = (len - got[q]) + 2 /\ StepsLeft(q)' = 1
      BY <2>1 DEF StepsLeft
    <2> QED
      BY <1>1, <1>2, <1>5, <2>1, <2>2 DEF Advances, Running
  <1>10. CASE ack(q) \/ badId(q) \/ reset(q) \/ notFound(q) \/ flush(q)
    <2>1. at'[q] = "over" /\ at[q] \in {"acking", "asked", "flushing"}
      BY <1>1, <1>10 DEF ack, badId, reset, notFound, flush, To
    <2> QED
      BY <2>1, OverLemma DEF Running
  <1>11. CASE lock(q)
    <2>1. at[q] = "asked" /\ at'[q] = "writing" /\ left'[q] \in 0 .. MaxPieces
      BY <1>1, <1>11 DEF lock, To
    <2>2. StepsLeft(q) = MaxPieces + 3 /\ StepsLeft(q)' = left'[q] + 2
      BY <2>1 DEF StepsLeft
    <2> QED
      BY <1>1, <1>5, <2>1, <2>2 DEF Advances, Running
  <1>12. CASE writePiece(q)
    <2>1. at[q] = "writing" /\ at' = at /\ left[q] > 0 /\ left'[q] = left[q] - 1
      BY <1>1, <1>12 DEF writePiece
    <2>2. StepsLeft(q) = left[q] + 2 /\ StepsLeft(q)' = (left[q] - 1) + 2
      BY <2>1 DEF StepsLeft
    <2> QED
      BY <1>1, <1>5, <2>1, <2>2 DEF Advances, Running
  <1>13. CASE writePanics(q)
    <2>1. q[1] \in Reader /\ at[q] = "writing"
      BY <1>13 DEF writePanics, Roles
    <2>2. at'[q] = "broken"
      BY <1>1, <1>13, <2>1, ServerLemma DEF writePanics, Panic, To, Shape
    <2> QED
      BY <2>1, <2>2, OverLemma DEF Running
  <1>14. CASE written(q)
    <2>1. at[q] = "writing" /\ at'[q] = "flushing"
      BY <1>1, <1>14 DEF written, To
    <2>2. StepsLeft(q) = left[q] + 2 /\ StepsLeft(q)' = 1
      BY <2>1 DEF StepsLeft
    <2> QED
      BY <1>1, <1>5, <2>1, <2>2 DEF Advances, Running
  <1> QED
    BY <1>6, <1>7, <1>8, <1>9, <1>10, <1>11, <1>12, <1>13, <1>14 DEF Handle, OwnStep, WithClient

\* A handler that runs is where it was, or nearer to its end, whatever the
\* others, the clients and the process do; and nobody takes or gives back the
\* mutex or touches the store without being nearer.  So a request costs at most
\* three steps and one for each item or piece, however many wait for the mutex.
THEOREM HandlersAdvance ==
    Spec => [][/\ \A q \in Request : Running(q) => Rests(q) \/ Advances(q)
               /\ UNCHANGED <<mutex, kept, erased>> \/ \E q \in Request : Advances(q)]_vars
  <1> DEFINE Step == /\ \A q \in Request : Running(q) => Rests(q) \/ Advances(q)
                     /\ UNCHANGED <<mutex, kept, erased>> \/ \E q \in Request : Advances(q)
  <1>1. ServerInv /\ [Next]_vars => Step
    <2> SUFFICES ASSUME ServerInv, [Next]_vars
                 PROVE  Step
      OBVIOUS
    <2>1. Shape /\ Roles /\ Progress /\ InTurn
      BY ServerInvShape
    <2>2. CASE Quiet
      BY <2>2 DEF Quiet, handlers, Rests
    <2>3. ASSUME NEW r \in Request, Handle(r)
          PROVE  Step
      <3>1. \A p \in Request \ {r} : Rests(p)
        BY <2>1, <2>3, OthersLemma DEF Rests
      <3>2. Advances(r) \/ (Rests(r) /\ UNCHANGED <<mutex, kept, erased>>)
        BY <2>1, <2>3, AdvanceLemma
      <3> QED
        BY <3>1, <3>2
    <2>4. ASSUME NEW r \in Request, accept(r)
          PROVE  Step
      <3>1. \A p \in Request \ {r} : Rests(p)
        BY <2>1, <2>4, OthersLemma DEF Rests
      <3>2. ~Running(r) /\ UNCHANGED <<mutex, kept, erased>>
        BY <2>4 DEF accept, Running
      <3> QED
        BY <3>1, <3>2
    <2>5. ASSUME NEW c \in Sender \cup Reader, send(c)
          PROVE  Step
      <3>1. PICK r \in Request : at[r] = "none" /\ at' = [at EXCEPT ![r] = "sent"]
        BY <2>1, <2>5, SendLemma
      <3>2. \A p \in Request : Running(p) => at'[p] = at[p]
        BY <2>1, <3>1 DEF Running, Shape, EndpointsTypeOK
      <3>3. UNCHANGED <<mutex, kept, erased, got, left, answer>>
        BY <2>5 DEF send
      <3> QED
        BY <3>2, <3>3 DEF Rests
    <2>6. CASE (\E q \in Request : giveUp(q)) \/ (\E s \in Sender : learn(s))
      BY <2>6, ListenLemma DEF Rests
    <2> QED
      BY <2>2, <2>3, <2>4, <2>5, <2>6, StepCases
  <1> QED
    BY <1>1, ServerInvariant, PTL DEF Spec
=============================================================================
