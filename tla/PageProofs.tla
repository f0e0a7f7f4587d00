----------------------------- MODULE PageProofs -----------------------------
(***************************************************************************)
(* Proofs about the page: for any items and tabs of theirs, and however    *)
(* often users act, data arrives and requests fail.                        *)
(***************************************************************************)
EXTENDS PageInv, SequenceTheorems, TLAPS

(***************************************************************************)
(* Loops and answers                                                       *)
(***************************************************************************)

AnAnswer == [of : Tab \cup {Nowhere}, items : SUBSET Item, ver : Nat]

\* What is known of the values that the page makes.
LEMMA ValuesLemma ==
    /\ NoReply \in AReply /\ Over \in ALoop
    /\ \A tab \in Tab \cup {Nowhere} : NewLoop(tab) \in ALoop
    /\ Loading \in AnAnswer /\ Loading \in [of : Item \cup {Nowhere}, items : SUBSET Item, ver : Nat]
  BY DEF NoReply, Over, NewLoop, AReply, ALoop, Loading, Contents, AnAnswer

LEMMA ReplyLemma ==
    ASSUME present \subseteq Item, version \in Nat, NEW items
    PROVE  Reply(items) \in AReply /\ Reply(items).ver = version
  BY DEF Reply, AReply

LEMMA ContentsLemma ==
    ASSUME NEW of, NEW r \in AReply
    PROVE  /\ Contents(of, r).of = of /\ Contents(of, r).ver = r.ver
           /\ \A S : of \in S => Contents(of, r) \in [of : S, items : SUBSET Item, ver : Nat]
  BY DEF Contents, AReply

\* A loop that waits for an answer or sleeps is not over.
LEMMA NotOver ==
    ASSUME NEW l, \E place \in {"list", "panel", "sleep"} : At(l, place)
    PROVE  l \in DOMAIN loops /\ loops[l] # Over
  BY DEF At, Over

LEMMA OverLemma == [Over EXCEPT !.running = FALSE] = Over
  <1>1. Over \in ALoop /\ Over.running = FALSE
    BY ValuesLemma DEF Over
  <1> QED
    BY <1>1 DEF ALoop

\* A list with one place replaced.
LEMMA ReplaceLemma ==
    ASSUME NEW S, NEW ls \in Seq(S), NEW l \in DOMAIN ls, NEW x \in S
    PROVE  /\ [ls EXCEPT ![l] = x] \in Seq(S)
           /\ Len([ls EXCEPT ![l] = x]) = Len(ls)
           /\ DOMAIN [ls EXCEPT ![l] = x] = DOMAIN ls
           /\ [ls EXCEPT ![l] = x][l] = x
           /\ \A k \in DOMAIN ls : k # l => [ls EXCEPT ![l] = x][k] = ls[k]
  OBVIOUS

(***************************************************************************)
(* What a step does to the loops and the list                              *)
(***************************************************************************)

TabsType ==
    /\ hash \in Tab \cup {Nowhere} /\ events \in Nat
    /\ updatingTab \in BOOLEAN
    /\ loops \in Seq(ALoop)
    /\ loopPromise \in 0 .. Len(loops) /\ stopLoop \in 0 .. Len(loops)
    /\ active \in Tab \cup {Nowhere}
    /\ body \in AnAnswer

\* Nothing but that there is a click to handle,
Kept ==
    /\ UNCHANGED <<updatingTab, loopPromise, stopLoop, loops, active, body>>
    /\ updatingTab \/ events' > 0 \/ UNCHANGED <<hash, events>>

\* or the tab of the address is opened, and its loop is the only one that is not over,
Opened ==
    /\ Len(loops') = Len(loops) + 1
    /\ \A k \in 1 .. Len(loops) : loops'[k] = Over
    /\ loops'[Len(loops) + 1] = NewLoop(active')
    /\ loopPromise' = Len(loops) + 1 /\ stopLoop' = Len(loops) + 1
    /\ body' = Loading /\ updatingTab' = FALSE /\ hash' = active'

\* or the running loop is told to stop, and its end awaited,
Stops ==
    /\ Len(loops') = Len(loops)
    /\ \A k \in 1 .. Len(loops) :
        \/ loops'[k] \in {loops[k], Over}
        \/ /\ loops[k] # Over /\ loops'[k].tab = loops[k].tab /\ loops'[k].at = loops[k].at
           /\ loops'[k].item = loops[k].item /\ loops'[k].reply = loops[k].reply
    /\ loopPromise # 0 /\ loops'[loopPromise] # Over
    /\ loops'[loopPromise].running = FALSE /\ loops'[loopPromise].at # "sleep"
    /\ UNCHANGED <<loopPromise, stopLoop, active, body>>
    /\ updatingTab' = TRUE

\* or one loop goes on, which ends or not as it was told.
RunsOn(l) ==
    /\ loops'[l] # Over =>
        \/ /\ loops'[l].running = loops[l].running
           /\ loops'[l].running \/ loops'[l].at # "sleep"
        \/ loops[l].at = "sleep" /\ loops'[l].running = TRUE
    /\ loops'[l] = Over => ~loops[l].running /\ ~(updatingTab /\ loopPromise = l)
    /\ UNCHANGED <<hash, events>>

Moves(l) ==
    /\ l \in 1 .. Len(loops) /\ loops[l] # Over /\ Len(loops') = Len(loops)
    /\ \A k \in 1 .. Len(loops) : k # l => loops'[k] = loops[k]
    /\ loops'[l] # Over => loops'[l].tab = loops[l].tab
    /\ Answered(l, "list")' => loops'[l].reply.ver = version /\ body' = body
    /\ \/ body' = body
       \/ Answered(l, "list") /\ body' = Contents(loops[l].tab, loops[l].reply)
    /\ At(l, "panel")' => \/ At(l, "panel") /\ loops'[l].item = loops[l].item
                          \/ panelUpdater # None /\ loops'[l].item = panelUpdater
    /\ stopLoop' \in {stopLoop, l}
    /\ UNCHANGED <<updatingTab, loopPromise, active, version, wiped, acked>>
    /\ RunsOn(l)

LEMMA OpenLemma ==
    ASSUME TabsType, NEW ls \in Seq(ALoop), Len(ls) = Len(loops),
           \A k \in 1 .. Len(ls) : ls[k] = Over,
           NEW ev \in Nat, openTab(ls, ev)
    PROVE  Opened /\ TabsType'
  <1> DEFINE tab == IF hash \in Tab THEN hash ELSE "#traces"
  <1>1. /\ hash' = tab /\ events' = (IF hash \in Tab THEN ev ELSE ev + 1)
        /\ active' = tab /\ body' = Loading /\ loops' = Append(ls, NewLoop(tab))
        /\ loopPromise' = Len(ls) + 1 /\ stopLoop' = Len(ls) + 1 /\ updatingTab' = FALSE
    BY Zenon DEF openTab
  <1>2. tab \in Tab
    BY DEF Tab
  <1> HIDE DEF tab
  <1>3. NewLoop(tab) \in ALoop
    BY <1>2, ValuesLemma
  <1>4. /\ loops' \in Seq(ALoop) /\ Len(loops') = Len(ls) + 1
        /\ \A k \in 1 .. Len(ls) : loops'[k] = ls[k]
        /\ loops'[Len(ls) + 1] = NewLoop(tab) /\ Len(ls) \in Nat
    BY <1>1, <1>3
  <1>5. Opened
    BY <1>1, <1>4 DEF Opened
  <1>6. TabsType'
    <2>1. events' \in Nat
      BY <1>1
    <2>2. loopPromise' \in 0 .. Len(loops') /\ stopLoop' \in 0 .. Len(loops')
      BY <1>1, <1>4
    <2>3. hash' \in Tab /\ active' \in Tab /\ updatingTab' \in BOOLEAN /\ body' \in AnAnswer
      BY <1>1, <1>2, ValuesLemma
    <2> QED
      BY <1>4, <2>1, <2>2, <2>3 DEF TabsType
  <1> QED
    BY <1>5, <1>6

LEMMA UpdateTabLemma ==
    ASSUME TabsType, OneLoop, NEW ev \in Nat, updateTab(ev)
    PROVE  /\ TabsType'
           /\ Opened \/ Stops \/ (Kept /\ updatingTab)
  <1>1. loops \in Seq(ALoop) /\ Len(loops) \in Nat /\ DOMAIN loops = 1 .. Len(loops)
    BY DEF TabsType
  <1>2. /\ Stopped \in Seq(ALoop) /\ Len(Stopped) = Len(loops)
        /\ \A k \in 1 .. Len(loops) : k # stopLoop => Stopped[k] = loops[k]
        /\ stopLoop \in 1 .. Len(loops) =>
            Stopped[stopLoop] = IF loops[stopLoop].at = "sleep" THEN Over
                                ELSE [loops[stopLoop] EXCEPT !.running = FALSE]
    <2> DEFINE x == IF loops[stopLoop].at = "sleep" THEN Over
                    ELSE [loops[stopLoop] EXCEPT !.running = FALSE]
    <2>1. Stopped = [loops EXCEPT ![stopLoop] = x]
      BY DEF Stopped
    <2>2. CASE stopLoop \in 1 .. Len(loops)
      <3>1. x \in ALoop
        <4>1. loops[stopLoop] \in ALoop
          BY <1>1, <2>2
        <4>2. [loops[stopLoop] EXCEPT !.running = FALSE] \in ALoop
          BY <4>1 DEF ALoop
        <4> QED
          BY <4>2, ValuesLemma
      <3> HIDE DEF x
      <3>2. /\ Stopped \in Seq(ALoop) /\ Len(Stopped) = Len(loops)
            /\ \A k \in 1 .. Len(loops) : k # stopLoop => Stopped[k] = loops[k]
            /\ Stopped[stopLoop] = x
        BY <1>1, <2>1, <2>2, <3>1
      <3> QED
        BY <3>2 DEF x
    <2>3. CASE stopLoop \notin 1 .. Len(loops)
      <3> HIDE DEF x
      <3>1. Stopped = loops
        BY <1>1, <2>1, <2>3
      <3> QED
        BY <1>1, <2>3, <3>1
    <2> QED
      BY <2>2, <2>3
  <1>3. \A k \in 1 .. Len(loops) : loops[k] # Over => k = loopPromise /\ k = stopLoop
    BY <1>1 DEF OneLoop
  <1>4. CASE updatingTab /\ events' = ev
             /\ UNCHANGED <<hash, updatingTab, loopPromise, stopLoop, loops, active, body>>
    BY <1>4 DEF TabsType, Kept
  <1>5. CASE loopPromise = 0 /\ openTab(loops, ev)
    <2>1. \A k \in 1 .. Len(loops) : loops[k] = Over
      BY <1>3, <1>5
    <2> QED
      BY <1>1, <1>5, <2>1, OpenLemma
  <1>6. CASE Stopped[loopPromise] = Over /\ openTab(Stopped, ev)
    <2>1. \A k \in 1 .. Len(Stopped) : Stopped[k] = Over
      <3> SUFFICES ASSUME NEW k \in 1 .. Len(loops)
                   PROVE  Stopped[k] = Over
        BY <1>2
      <3>1. CASE k = loopPromise
        BY <1>6, <3>1
      <3>2. CASE k # loopPromise /\ k # stopLoop
        BY <1>2, <1>3, <3>2
      <3>3. CASE k # loopPromise /\ k = stopLoop
        <4>1. loops[k] = Over
          BY <1>3, <3>3
        <4> QED
          BY <1>2, <3>3, <4>1, OverLemma
      <3> QED
        BY <3>1, <3>2, <3>3
    <2> QED
      BY <1>2, <1>6, <2>1, OpenLemma
  <1>7. CASE /\ ~updatingTab /\ updatingTab' = TRUE /\ loops' = Stopped /\ events' = ev
             /\ loopPromise # 0 /\ Stopped[loopPromise] # Over
             /\ UNCHANGED <<hash, loopPromise, stopLoop, active, body>>
    <2>1. TabsType'
      BY <1>2, <1>7 DEF TabsType
    <2>2. ASSUME NEW k \in 1 .. Len(loops)
          PROVE  \/ loops'[k] \in {loops[k], Over}
                 \/ /\ loops[k] # Over /\ loops'[k].tab = loops[k].tab
                    /\ loops'[k].at = loops[k].at
                    /\ loops'[k].item = loops[k].item /\ loops'[k].reply = loops[k].reply
      <3>1. CASE k # stopLoop
        BY <1>2, <1>7, <3>1
      <3>2. CASE k = stopLoop /\ loops[k] = Over
        BY <1>2, <1>7, <3>2, OverLemma
      <3>3. CASE k = stopLoop /\ loops[k] # Over
        <4>1. loops[k] \in ALoop
          BY <1>1
        <4>2. CASE loops[k].at = "sleep"
          BY <1>2, <1>7, <3>3, <4>2
        <4>3. CASE loops[k].at # "sleep"
          BY <1>2, <1>7, <3>3, <4>1, <4>3 DEF ALoop
        <4> QED
          BY <4>2, <4>3
      <3> QED
        BY <3>1, <3>2, <3>3
    <2>3. loopPromise \in 1 .. Len(loops)
      BY <1>1, <1>7 DEF TabsType
    <2>4. loops[loopPromise] # Over /\ loopPromise = stopLoop
      <3>1. CASE loops[loopPromise] # Over
        BY <1>3, <2>3, <3>1
      <3>2. CASE loops[loopPromise] = Over
        <4>1. Stopped[loopPromise] = Over
          BY <1>2, <2>3, <3>2, OverLemma
        <4> QED
          BY <1>7, <4>1
      <3> QED
        BY <3>1, <3>2
    <2>5. loops'[loopPromise].running = FALSE /\ loops'[loopPromise].at # "sleep"
      <3>1. loops[stopLoop] \in ALoop /\ loops[stopLoop].at # "sleep"
        BY <1>1, <1>2, <1>7, <2>3, <2>4
      <3>2. loops'[loopPromise] = [loops[stopLoop] EXCEPT !.running = FALSE]
        BY <1>2, <1>7, <2>3, <2>4, <3>1
      <3> QED
        BY <3>1, <3>2 DEF ALoop
    <2> QED
      BY <1>2, <1>7, <2>1, <2>2, <2>5 DEF Stops
  <1> QED
    BY <1>4, <1>5, <1>6, <1>7 DEF updateTab

LEMMA EndOfTryLemma ==
    ASSUME TabsType, OneLoop, NEW l, At(l, "list") \/ At(l, "panel"),
           NEW b \in AnAnswer, endOfTry(l, b)
    PROVE  /\ TabsType'
           /\ \/ Opened
              \/ /\ l \in 1 .. Len(loops) /\ loops[l] # Over /\ Len(loops') = Len(loops)
                 /\ \A k \in 1 .. Len(loops) : k # l => loops'[k] = loops[k]
                 /\ loops'[l] # Over => loops'[l].tab = loops[l].tab
                 /\ ~At(l, "list")' /\ ~At(l, "panel")' /\ body' = b
                 /\ stopLoop' \in {stopLoop, l} /\ UNCHANGED <<updatingTab, loopPromise, active>>
                 /\ RunsOn(l)
  <1>1. /\ loops \in Seq(ALoop) /\ Len(loops) \in Nat /\ DOMAIN loops = 1 .. Len(loops)
        /\ l \in 1 .. Len(loops) /\ loops[l] # Over
    BY NotOver DEF TabsType
  <1>2. loops[l] \in ALoop /\ loops[l].tab \in Tab \cup {Nowhere}
    <2>1. loops[l] \in ALoop
      BY <1>1
    <2> QED
      BY <2>1 DEF ALoop
  <1>3. CASE loops[l].running
    <2> DEFINE x == [NewLoop(loops[l].tab) EXCEPT !.at = "sleep"]
    <2>1. /\ loops' = [loops EXCEPT ![l] = x] /\ stopLoop' = l /\ body' = b
          /\ UNCHANGED <<hash, events, updatingTab, loopPromise, active>>
      BY <1>3 DEF endOfTry
    <2>2. x \in ALoop /\ x.at = "sleep" /\ x.tab = loops[l].tab /\ x.running = TRUE
      BY <1>2, ValuesLemma DEF NewLoop, ALoop
    <2> HIDE DEF x
    <2>3. /\ loops' \in Seq(ALoop) /\ Len(loops') = Len(loops) /\ loops'[l] = x
          /\ \A k \in 1 .. Len(loops) : k # l => loops'[k] = loops[k]
      BY <1>1, <2>1, <2>2, ReplaceLemma
    <2>4. TabsType'
      BY <1>1, <2>1, <2>3 DEF TabsType
    <2>5. RunsOn(l)
      <3>1. loops[l].running = TRUE /\ x # Over
        BY <1>2, <1>3, <2>2 DEF ALoop, Over
      <3> QED
        BY <2>1, <2>2, <2>3, <3>1 DEF RunsOn
    <2> QED
      BY <1>1, <2>1, <2>2, <2>3, <2>4, <2>5 DEF At
  <1>4. Over \in ALoop /\ Over.at = "over"
    BY ValuesLemma DEF Over
  <1>5. /\ [loops EXCEPT ![l] = Over] \in Seq(ALoop)
        /\ Len([loops EXCEPT ![l] = Over]) = Len(loops)
        /\ [loops EXCEPT ![l] = Over][l] = Over
        /\ \A k \in 1 .. Len(loops) : k # l => [loops EXCEPT ![l] = Over][k] = loops[k]
    BY <1>1, <1>4, ReplaceLemma
  <1>6. CASE ~loops[l].running /\ openTab([loops EXCEPT ![l] = Over], events)
    <2> DEFINE ls == [loops EXCEPT ![l] = Over]
    <2>1. \A k \in 1 .. Len(ls) : ls[k] = Over
      BY <1>1, <1>5 DEF OneLoop
    <2>2. events \in Nat
      BY DEF TabsType
    <2> QED
      BY <1>5, <1>6, <2>1, <2>2, OpenLemma
  <1>7. CASE /\ loops' = [loops EXCEPT ![l] = Over] /\ body' = b
             /\ ~loops[l].running /\ ~(updatingTab /\ loopPromise = l)
             /\ UNCHANGED <<hash, events, updatingTab, loopPromise, stopLoop, active>>
    <2>1. TabsType'
      BY <1>5, <1>7 DEF TabsType
    <2>2. RunsOn(l)
      BY <1>5, <1>7 DEF RunsOn
    <2> QED
      BY <1>1, <1>4, <1>5, <1>7, <2>1, <2>2 DEF At
  <1> QED
    BY <1>3, <1>6, <1>7 DEF endOfTry

LEMMA ServeLoopLemma ==
    ASSUME TypeOK, NEW l, serveLoop(l)
    PROVE  TabsType' /\ Moves(l)
  <1>1. /\ loops \in Seq(ALoop) /\ Len(loops) \in Nat /\ DOMAIN loops = 1 .. Len(loops)
        /\ l \in 1 .. Len(loops) /\ loops[l] # Over
    BY NotOver DEF TypeOK, serveLoop
  <1>2. PICK items : loops' = [loops EXCEPT ![l].reply = Reply(items)]
    BY DEF serveLoop
  <1>3. Reply(items) \in AReply /\ Reply(items).ver = version
    BY ReplyLemma DEF TypeOK
  <1> DEFINE x == [loops[l] EXCEPT !.reply = Reply(items)]
  <1>4. /\ x \in ALoop /\ x.tab = loops[l].tab /\ x.at = loops[l].at
        /\ x.item = loops[l].item /\ x.reply = Reply(items)
        /\ x.running = loops[l].running
    <2>1. loops[l] \in ALoop
      BY <1>1
    <2> QED
      BY <1>3, <2>1 DEF ALoop
  <1>5. loops' = [loops EXCEPT ![l] = x]
    BY <1>2
  <1> HIDE DEF x
  <1>6. /\ loops' \in Seq(ALoop) /\ Len(loops') = Len(loops) /\ loops'[l] = x
        /\ DOMAIN loops' = DOMAIN loops
        /\ \A k \in 1 .. Len(loops) : k # l => loops'[k] = loops[k]
    BY <1>1, <1>4, <1>5, ReplaceLemma
  <1>7. UNCHANGED <<version, wiped, acked, hash, events, updatingTab, loopPromise, stopLoop,
                    active, body>>
    BY DEF serveLoop, server, button
  <1>8. TabsType'
    BY <1>6, <1>7 DEF TabsType, TypeOK, AnAnswer
  <1>9. Moves(l)
    <2>1. x.at # "sleep" /\ x # Over
      BY <1>4 DEF serveLoop, At, Over
    <2>2. RunsOn(l)
      BY <1>4, <1>6, <1>7, <2>1 DEF RunsOn
    <2> QED
      BY <1>1, <1>3, <1>4, <1>6, <1>7, <2>2 DEF Moves, At
  <1> QED
    BY <1>8, <1>9

LEMMA TypeTabs == ASSUME TypeOK PROVE TabsType
  BY DEF TypeOK, TabsType, AnAnswer

\* The list of a loop's answer.
LEMMA ListLemma ==
    ASSUME TypeOK, NEW l \in 1 .. Len(loops)
    PROVE  Contents(loops[l].tab, loops[l].reply) \in AnAnswer
  <1>1. loops[l] \in ALoop
    BY DEF TypeOK
  <1>2. loops[l].tab \in Tab \cup {Nowhere} /\ loops[l].reply \in AReply
    BY <1>1 DEF ALoop
  <1> QED
    BY <1>2, ContentsLemma DEF AnAnswer

LEMMA ListArrivesLemma ==
    ASSUME TypeOK, OneLoop, NEW l, listArrives(l)
    PROVE  TabsType' /\ (Opened \/ Moves(l))
  <1>1. /\ loops \in Seq(ALoop) /\ Len(loops) \in Nat /\ DOMAIN loops = 1 .. Len(loops)
        /\ l \in 1 .. Len(loops) /\ loops[l] # Over
        /\ Answered(l, "list") /\ At(l, "list")
    BY NotOver DEF TypeOK, listArrives, Answered
  <1> DEFINE list == Contents(loops[l].tab, loops[l].reply)
  <1>2. list \in AnAnswer
    BY <1>1, ListLemma
  <1>3. UNCHANGED <<version, wiped, acked>>
    BY DEF listArrives, server, button
  <1>4. CASE endOfTry(l, list)
    <2> HIDE DEF list
    <2>1. TabsType'
      BY <1>1, <1>2, <1>4, EndOfTryLemma, TypeTabs
    <2>2. CASE Opened
      BY <2>1, <2>2
    <2>3. CASE /\ Len(loops') = Len(loops)
               /\ \A k \in 1 .. Len(loops) : k # l => loops'[k] = loops[k]
               /\ loops'[l] # Over => loops'[l].tab = loops[l].tab
               /\ ~At(l, "list")' /\ ~At(l, "panel")' /\ body' = list
               /\ stopLoop' \in {stopLoop, l} /\ UNCHANGED <<updatingTab, loopPromise, active>>
               /\ RunsOn(l)
      BY <1>1, <1>3, <2>1, <2>3 DEF Moves, Answered, list
    <2> QED
      BY <1>1, <1>2, <1>4, <2>2, <2>3, EndOfTryLemma, TypeTabs
  <1>5. CASE /\ panelUpdater # None
             /\ loops' = [loops EXCEPT ![l].at = "panel", ![l].item = panelUpdater,
                                       ![l].reply = NoReply]
             /\ body' = list
             /\ UNCHANGED <<hash, events, updatingTab, loopPromise, stopLoop, active>>
    <2> DEFINE x == [loops[l] EXCEPT !.at = "panel", !.item = panelUpdater, !.reply = NoReply]
    <2>1. /\ x \in ALoop /\ x.tab = loops[l].tab /\ x.at = "panel" /\ x.item = panelUpdater
          /\ x.running = loops[l].running /\ x # Over
      <3>1. loops[l] \in ALoop /\ panelUpdater \in Item \cup {None}
        BY <1>1 DEF TypeOK
      <3> QED
        BY <3>1, ValuesLemma DEF ALoop, Over
    <2>2. loops' = [loops EXCEPT ![l] = x]
      BY <1>5
    <2> HIDE DEF x
    <2>3. /\ loops' \in Seq(ALoop) /\ Len(loops') = Len(loops) /\ loops'[l] = x
          /\ \A k \in 1 .. Len(loops) : k # l => loops'[k] = loops[k]
      BY <1>1, <2>1, <2>2, ReplaceLemma
    <2>4. TabsType'
      BY <1>2, <1>5, <2>3 DEF TabsType, TypeOK
    <2>5. RunsOn(l)
      BY <1>5, <2>1, <2>3 DEF RunsOn
    <2>6. Moves(l)
      BY <1>1, <1>3, <1>5, <2>1, <2>3, <2>5 DEF Moves, At, Answered
    <2> QED
      BY <2>4, <2>6
  <1> QED
    BY <1>4, <1>5 DEF listArrives

\* The end of a request that leaves the list as it is.
LEMMA EndLemma ==
    ASSUME TypeOK, OneLoop, NEW l, At(l, "list") \/ At(l, "panel"), endOfTry(l, body),
           UNCHANGED <<version, wiped, acked>>
    PROVE  TabsType' /\ (Opened \/ Moves(l))
  <1>1. TabsType /\ body \in AnAnswer
    BY TypeTabs DEF TabsType
  <1>2. TabsType'
    BY <1>1, EndOfTryLemma
  <1>3. CASE Opened
    BY <1>2, <1>3
  <1>4. CASE /\ l \in 1 .. Len(loops) /\ loops[l] # Over /\ Len(loops') = Len(loops)
             /\ \A k \in 1 .. Len(loops) : k # l => loops'[k] = loops[k]
             /\ loops'[l] # Over => loops'[l].tab = loops[l].tab
             /\ ~At(l, "list")' /\ ~At(l, "panel")' /\ body' = body
             /\ stopLoop' \in {stopLoop, l} /\ UNCHANGED <<updatingTab, loopPromise, active>>
             /\ RunsOn(l)
    BY <1>2, <1>4 DEF Moves, Answered
  <1> QED
    BY <1>1, <1>3, <1>4, EndOfTryLemma

LEMMA TimerLemma ==
    ASSUME TypeOK, NEW l, timer(l)
    PROVE  TabsType' /\ Moves(l)
  <1>1. /\ loops \in Seq(ALoop) /\ Len(loops) \in Nat /\ DOMAIN loops = 1 .. Len(loops)
        /\ l \in 1 .. Len(loops) /\ loops[l] # Over
    BY NotOver DEF TypeOK, timer
  <1> DEFINE x == NewLoop(loops[l].tab)
  <1>2. loops' = [loops EXCEPT ![l] = x] /\ stopLoop' = l
    BY DEF timer
  <1>3. /\ x \in ALoop /\ x.tab = loops[l].tab /\ x.at = "list" /\ x.reply = NoReply
        /\ x.running = TRUE /\ x # Over
    <2>1. loops[l] \in ALoop
      BY <1>1
    <2>2. loops[l].tab \in Tab \cup {Nowhere}
      BY <2>1 DEF ALoop
    <2> QED
      BY <2>2, ValuesLemma DEF NewLoop, Over
  <1> HIDE DEF x
  <1>4. /\ loops' \in Seq(ALoop) /\ Len(loops') = Len(loops) /\ loops'[l] = x
        /\ \A k \in 1 .. Len(loops) : k # l => loops'[k] = loops[k]
    BY <1>1, <1>2, <1>3, ReplaceLemma
  <1>5. UNCHANGED <<version, wiped, acked, hash, events, updatingTab, loopPromise, active, body>>
    BY DEF timer, server, button
  <1>6. TabsType'
    BY <1>1, <1>2, <1>4, <1>5 DEF TabsType, TypeOK, AnAnswer
  <1>7. Moves(l)
    <2>1. RunsOn(l)
      BY <1>3, <1>4, <1>5 DEF RunsOn, timer, At
    <2> QED
      BY <1>1, <1>2, <1>3, <1>4, <1>5, <2>1 DEF Moves, At, Answered
  <1> QED
    BY <1>6, <1>7

\* What a step can be.
LEMMA TabsStep ==
    ASSUME TypeOK, OneLoop, [Next]_vars
    PROVE  /\ TabsType'
           /\ Kept \/ Opened \/ Stops \/ \E l : Moves(l)
           /\ \/ acked' = acked
              \/ acked' = wiped /\ (Opened \/ Stops \/ (Kept /\ updatingTab))
  <1> USE TypeTabs
  <1>1. CASE hashchange
    <2>1. events - 1 \in Nat /\ updateTab(events - 1) /\ acked' = acked
      BY <1>1 DEF hashchange, TypeOK, button
    <2> QED
      BY <2>1, UpdateTabLemma
  <1>2. ASSUME NEW l, LoopStep(l)
        PROVE  /\ TabsType' /\ (Opened \/ Moves(l))
               /\ acked' = acked
    <2>1. CASE panelArrives(l)
      <3>1. /\ At(l, "panel") /\ endOfTry(l, body) /\ UNCHANGED <<version, wiped, acked>>
        BY <2>1 DEF panelArrives, Answered, server, button
      <3> QED
        BY <3>1, EndLemma
    <2>2. CASE serveLoop(l) \/ listArrives(l) \/ timer(l)
      <3>1. acked' = acked
        BY <2>2 DEF serveLoop, listArrives, timer, button
      <3> QED
        BY <2>2, <3>1, ServeLoopLemma, ListArrivesLemma, TimerLemma
    <2> QED
      BY <1>2, <2>1, <2>2 DEF LoopStep
  <1>3. CASE resetArrives
    <2>1. events \in Nat /\ updateTab(events) /\ acked' = wiped
      BY <1>3 DEF resetArrives, TypeOK
    <2> QED
      BY <2>1, UpdateTabLemma
  <1>4. CASE UNCHANGED <<tabs, acked>>
    BY <1>4 DEF tabs, TabsType, Kept
  <1>5. CASE Act
    <2>1. ASSUME NEW tab \in Tab, clickTab(tab), UNCHANGED button
          PROVE  TabsType' /\ Kept /\ acked' = acked
      BY <2>1 DEF clickTab, TabsType, Kept, button
    <2>2. ASSUME NEW l, listFails(l), UNCHANGED <<server, button>>
          PROVE  TabsType' /\ (Opened \/ Moves(l)) /\ acked' = acked
      BY <2>2, EndLemma DEF listFails, server, button
    <2>3. ASSUME NEW l, panelFails(l), UNCHANGED <<server, button>>
          PROVE  TabsType' /\ (Opened \/ Moves(l)) /\ acked' = acked
      BY <2>3, EndLemma DEF panelFails, server, button
    <2>4. \/ \E tab \in Tab : clickTab(tab) /\ UNCHANGED button
          \/ \E l : listFails(l) /\ UNCHANGED <<server, button>>
          \/ \E l : panelFails(l) /\ UNCHANGED <<server, button>>
          \/ UNCHANGED <<tabs, acked>>
      BY <1>5 DEF Act, button, clickReset, postFails
    <2> QED
      BY <1>4, <2>1, <2>2, <2>3, <2>4
  <1>6. ASSUME NEW k, SelectStep(k)
        PROVE  UNCHANGED <<tabs, acked>>
    BY <1>6 DEF SelectStep, serveSelect, selectArrives, button
  <1>7. serveReset => UNCHANGED <<tabs, acked>>
    BY DEF serveReset
  <1>8. UNCHANGED vars => UNCHANGED <<tabs, acked>>
    BY DEF vars, button
  <1> QED
    BY <1>1, <1>2, <1>3, <1>4, <1>5, <1>6, <1>7, <1>8 DEF Next

(***************************************************************************)
(* What a step does to the store, the button and the panel                 *)
(***************************************************************************)

ServerType ==
    /\ present \subseteq Item /\ version \in Nat \ {0}
    /\ live \in BOOLEAN /\ disabled \in BOOLEAN /\ post \in {"none", "sent", "done"}
    /\ wiped \in 0 .. version /\ acked \in 0 .. wiped
    /\ acts \in 0 .. MaxActs

LEMMA ServerStep ==
    ASSUME TypeOK, [Next]_vars
    PROVE  ServerType' /\ version <= version'
  <1>1. ServerType /\ version \in Nat
    BY DEF TypeOK, ServerType
  <1>2. CASE UNCHANGED <<server, button, live, acts>>
    BY <1>1, <1>2 DEF ServerType, server, button
  <1>3. CASE serveReset
    <2>1. /\ present' = {} /\ version' = version + 1 /\ post' = "done" /\ wiped' = version + 1
          /\ UNCHANGED <<disabled, acked, live, acts>>
      BY <1>3 DEF serveReset
    <2> QED
      BY <1>1, <2>1 DEF ServerType
  <1>4. CASE resetArrives
    <2>1. /\ post' = "none" /\ acked' = wiped
          /\ UNCHANGED <<present, version, wiped, live, acts>>
      BY <1>4 DEF resetArrives, server
    <2>2. disabled' \in BOOLEAN
      BY <1>4, Zenon DEF resetArrives
    <2> QED
      BY <1>1, <2>1, <2>2 DEF ServerType
  <1>5. CASE Act
    <2>1. acts' \in 0 .. MaxActs
      BY <1>1, <1>5, PageAssumption DEF Act, ServerType
    <2>2. CASE UNCHANGED <<server, button, live>>
      BY <1>1, <2>1, <2>2 DEF ServerType, server, button
    <2>3. CASE (clickReset \/ postFails) /\ UNCHANGED <<server, live>>
      <3>1. disabled' \in BOOLEAN
        BY <1>1, <2>3, Zenon DEF clickReset, postFails, ServerType
      <3>2. /\ post' \in {"none", "sent", "done"}
            /\ UNCHANGED <<present, version, wiped, acked, live>>
        BY <2>3 DEF server, clickReset, postFails
      <3> QED
        BY <1>1, <2>1, <3>1, <3>2 DEF ServerType
    <2>4. CASE (\E i \in Item : ingest(i)) /\ UNCHANGED <<button, live>>
      <3>1. PICK i \in Item : present' = present \cup {i} /\ version' = version + 1
        BY <2>4 DEF ingest
      <3> QED
        BY <1>1, <2>1, <2>4, <3>1 DEF ServerType, button
    <2>5. CASE live' = ~live /\ UNCHANGED <<server, button>>
      <3>1. live' \in BOOLEAN
        BY <2>5
      <3> QED
        BY <1>1, <2>1, <2>5, <3>1 DEF ServerType, server, button
    <2> QED
      BY <1>5, <2>2, <2>3, <2>4, <2>5 DEF Act
  <1>6. ASSUME NEW l, LoopStep(l)
        PROVE  UNCHANGED <<server, button, live, acts>>
    BY <1>6 DEF LoopStep, serveLoop, listArrives, panelArrives, timer
  <1>7. ASSUME NEW k, SelectStep(k)
        PROVE  UNCHANGED <<server, button, live, acts>>
    BY <1>7 DEF SelectStep, serveSelect, selectArrives
  <1>8. hashchange \/ UNCHANGED vars => UNCHANGED <<server, button, live, acts>>
    BY DEF hashchange, vars
  <1> QED
    BY <1>2, <1>3, <1>4, <1>5, <1>6, <1>7, <1>8 DEF Next

PanelType ==
    /\ selected \in Item \cup {None} /\ panelUpdater \in {selected, None}
    /\ panelBody \in [of : Item \cup {Nowhere}, items : SUBSET Item, ver : Nat]
    /\ asked \in Seq(ARequest)
    /\ rivals \subseteq Item

AskedFor == {asked[k].item : k \in {j \in DOMAIN asked : asked[j].waiting}}
LoopsAskFor == {loops[l].item : l \in {k \in DOMAIN loops : At(k, "panel")}}

LEMMA RequestedLemma ==
    ASSUME TypeOK, PanelRequests
    PROVE  /\ Requested = LoopsAskFor \cup AskedFor
           /\ LoopsAskFor \subseteq Item /\ AskedFor \subseteq Item
  <1>1. LoopsAskFor \subseteq Item
    BY DEF PanelRequests, LoopsAskFor
  <1>2. ASSUME NEW k \in DOMAIN asked
        PROVE  asked[k].item \in Item
    <2>1. asked[k] \in ARequest
      BY DEF TypeOK
    <2> QED
      BY <2>1 DEF ARequest
  <1> QED
    BY <1>1, <1>2 DEF Requested, LoopsAskFor, AskedFor

\* Of the requests for the panel, one is answered and shown, or none is.
Shows ==
    /\ UNCHANGED <<selected, panelUpdater, rivals>>
    /\ AskedFor' \subseteq AskedFor
    /\ panelBody' = panelBody \/ panelBody'.of \in Requested

Closes == selected' = None /\ AskedFor' \subseteq AskedFor

Selects(i) ==
    /\ selected' = i /\ rivals' = Requested /\ panelBody' = Loading
    /\ AskedFor' \subseteq AskedFor \cup {i}

\* A request made by a click is answered, or it fails; one is made.
LEMMA AskedReplace ==
    ASSUME PanelType, NEW k \in DOMAIN asked, NEW x \in ARequest,
           x.item = asked[k].item, asked[k].waiting, asked' = [asked EXCEPT ![k] = x]
    PROVE  asked' \in Seq(ARequest) /\ AskedFor' \subseteq AskedFor
  <1>1. /\ asked' \in Seq(ARequest) /\ DOMAIN asked' = DOMAIN asked /\ asked'[k] = x
        /\ \A j \in DOMAIN asked : j # k => asked'[j] = asked[j]
    BY ReplaceLemma DEF PanelType
  <1>2. \A j \in DOMAIN asked' : asked'[j].waiting =>
            j \in DOMAIN asked /\ asked[j].waiting /\ asked'[j].item = asked[j].item
    BY <1>1
  <1> QED
    BY <1>1, <1>2 DEF AskedFor

LEMMA ClickLemma ==
    ASSUME TypeOK, PanelRequests, NEW k, selectArrives(k) \/ selectFails(k)
    PROVE  PanelType' /\ Shows
  <1>0. PanelType
    BY DEF TypeOK, PanelType
  <1>1. /\ k \in DOMAIN asked /\ asked[k].waiting
        /\ asked' = [asked EXCEPT ![k].waiting = FALSE, ![k].reply = NoReply]
        /\ \/ panelBody' = panelBody
           \/ \E r \in {asked[k].reply, NoReply} : panelBody' = Contents(asked[k].item, r)
        /\ UNCHANGED <<selected, panelUpdater, rivals>>
    BY DEF selectArrives, selectFails, Failed
  <1>2. asked[k] \in ARequest
    BY <1>0, <1>1 DEF PanelType
  <1> DEFINE x == [asked[k] EXCEPT !.waiting = FALSE, !.reply = NoReply]
  <1>3. x \in ARequest /\ x.item = asked[k].item
    BY <1>2, ValuesLemma DEF ARequest
  <1>4. asked' = [asked EXCEPT ![k] = x]
    BY <1>1
  <1> HIDE DEF x
  <1>5. asked' \in Seq(ARequest) /\ AskedFor' \subseteq AskedFor
    BY <1>0, <1>1, <1>3, <1>4, AskedReplace
  <1>6. asked[k].item \in Item /\ asked[k].reply \in AReply
    BY <1>2 DEF ARequest
  <1>7. asked[k].item \in Requested
    BY <1>1 DEF Requested
  <1>8. /\ panelBody' \in [of : Item \cup {Nowhere}, items : SUBSET Item, ver : Nat]
        /\ panelBody' = panelBody \/ panelBody'.of \in Requested
    <2>1. CASE panelBody' = panelBody
      BY <1>0, <2>1 DEF PanelType
    <2>2. ASSUME NEW r \in {asked[k].reply, NoReply}, panelBody' = Contents(asked[k].item, r)
          PROVE  /\ panelBody' \in [of : Item \cup {Nowhere}, items : SUBSET Item, ver : Nat]
                 /\ panelBody'.of \in Requested
      <3>1. r \in AReply
        BY <1>6, ValuesLemma
      <3> QED
        BY <1>6, <1>7, <2>2, <3>1, ContentsLemma
    <2> QED
      BY <1>1, <2>1, <2>2
  <1> QED
    BY <1>0, <1>1, <1>5, <1>8 DEF PanelType, Shows

LEMMA ServeSelectLemma ==
    ASSUME TypeOK, PanelRequests, NEW k, serveSelect(k)
    PROVE  PanelType' /\ Shows
  <1>0. PanelType
    BY DEF TypeOK, PanelType
  <1>1. /\ k \in DOMAIN asked /\ asked[k].waiting
        /\ UNCHANGED <<selected, panelUpdater, panelBody, rivals>>
    BY DEF serveSelect
  <1> DEFINE r == Reply({asked[k].item})
             x == [asked[k] EXCEPT !.reply = r]
  <1>2. asked' = [asked EXCEPT ![k] = x]
    BY DEF serveSelect
  <1>3. x \in ARequest /\ x.item = asked[k].item
    <2>1. asked[k] \in ARequest
      BY <1>0, <1>1 DEF PanelType
    <2>2. r \in AReply
      BY ReplyLemma DEF TypeOK
    <2> HIDE DEF r
    <2> QED
      BY <2>1, <2>2 DEF ARequest
  <1> HIDE DEF x
  <1>4. asked' \in Seq(ARequest) /\ AskedFor' \subseteq AskedFor
    BY <1>0, <1>1, <1>2, <1>3, AskedReplace
  <1> QED
    BY <1>0, <1>1, <1>4 DEF PanelType, Shows

LEMMA PanelAnswerLemma ==
    ASSUME TypeOK, PanelRequests, NEW l, panelArrives(l) \/ panelFails(l)
    PROVE  PanelType' /\ Shows
  <1>0. PanelType
    BY DEF TypeOK, PanelType
  <1>1. /\ At(l, "panel") /\ l \in DOMAIN loops
        /\ UNCHANGED <<selected, panelUpdater, asked, rivals>>
        /\ \/ panelBody' = panelBody
           \/ \E r \in {loops[l].reply, NoReply} : panelBody' = Contents(loops[l].item, r)
    BY DEF panelArrives, panelFails, Answered, At, Failed
  <1>2. loops[l] \in ALoop
    BY <1>1 DEF TypeOK
  <1>3. loops[l].item \in Item /\ loops[l].reply \in AReply
    BY <1>1, <1>2 DEF PanelRequests, ALoop
  <1>4. loops[l].item \in Requested
    BY <1>1 DEF Requested
  <1>5. /\ panelBody' \in [of : Item \cup {Nowhere}, items : SUBSET Item, ver : Nat]
        /\ panelBody' = panelBody \/ panelBody'.of \in Requested
    <2>1. CASE panelBody' = panelBody
      BY <1>0, <2>1 DEF PanelType
    <2>2. ASSUME NEW r \in {loops[l].reply, NoReply}, panelBody' = Contents(loops[l].item, r)
          PROVE  /\ panelBody' \in [of : Item \cup {Nowhere}, items : SUBSET Item, ver : Nat]
                 /\ panelBody'.of \in Requested
      <3>1. r \in AReply
        BY <1>3, ValuesLemma
      <3> QED
        BY <1>3, <1>4, <2>2, <3>1, ContentsLemma
    <2> QED
      BY <1>1, <2>1, <2>2
  <1> QED
    BY <1>0, <1>1, <1>5 DEF PanelType, Shows, AskedFor

LEMMA SelectLemma ==
    ASSUME TypeOK, PanelRequests, NEW i \in Item, select(i)
    PROVE  PanelType' /\ Selects(i)
  <1> DEFINE x == [item |-> i, waiting |-> TRUE, reply |-> NoReply]
  <1>1. /\ selected' = i /\ panelUpdater' \in {i, None} /\ panelBody' = Loading
        /\ asked' = Append(asked, x) /\ rivals' = Requested
    BY DEF select
  <1>2. x \in ARequest /\ x.item = i
    BY ValuesLemma DEF ARequest
  <1> HIDE DEF x
  <1>3. asked \in Seq(ARequest) /\ Len(asked) \in Nat
    BY DEF TypeOK
  <1>4. /\ asked' \in Seq(ARequest) /\ DOMAIN asked' = 1 .. Len(asked) + 1
        /\ asked'[Len(asked) + 1] = x /\ DOMAIN asked = 1 .. Len(asked)
        /\ \A k \in DOMAIN asked : asked'[k] = asked[k]
    BY <1>1, <1>2, <1>3
  <1>5. AskedFor' \subseteq AskedFor \cup {i}
    <2>1. \A k \in DOMAIN asked' : k \in DOMAIN asked \/ asked'[k] = x
      BY <1>3, <1>4
    <2> QED
      BY <1>2, <1>4, <2>1 DEF AskedFor
  <1>6. Requested \subseteq Item
    BY RequestedLemma
  <1>7. PanelType'
    BY <1>1, <1>4, <1>6, ValuesLemma DEF PanelType
  <1> QED
    BY <1>1, <1>5, <1>7 DEF Selects

LEMMA PanelStep ==
    ASSUME TypeOK, PanelRequests, [Next]_vars
    PROVE  /\ PanelType'
           /\ \/ Shows \/ Closes
              \/ \E i \in Item : Selects(i) /\ UNCHANGED tabs
  <1>1. CASE UNCHANGED panel
    BY <1>1 DEF panel, PanelType, TypeOK, Shows, AskedFor
  <1>2. ASSUME NEW l, panelArrives(l) \/ panelFails(l)
        PROVE  PanelType' /\ Shows
    BY <1>2, PanelAnswerLemma
  <1>3. ASSUME NEW k, SelectStep(k) \/ selectFails(k)
        PROVE  PanelType' /\ Shows
    BY <1>3, ClickLemma, ServeSelectLemma DEF SelectStep
  <1>4. ASSUME NEW i \in Item, select(i)
        PROVE  PanelType' /\ Selects(i)
    BY <1>4, SelectLemma
  <1>5. CASE closePanel
    BY <1>5 DEF closePanel, PanelType, TypeOK, Closes, AskedFor
  <1>6. \/ UNCHANGED panel
        \/ \E l : panelArrives(l) \/ panelFails(l)
        \/ \E k : SelectStep(k) \/ selectFails(k)
        \/ \E i \in Item : select(i) /\ UNCHANGED tabs
        \/ closePanel
    BY DEF Next, Act, hashchange, LoopStep, serveLoop, listArrives, timer, serveReset,
           resetArrives, vars
  <1> QED
    BY <1>1, <1>2, <1>3, <1>4, <1>5, <1>6

(***************************************************************************)
(* The parts of the invariant                                              *)
(***************************************************************************)

LEMMA TypeStep ==
    ASSUME TypeOK, OneLoop, PanelRequests, [Next]_vars
    PROVE  TypeOK'
  <1>1. TabsType' /\ ServerType' /\ PanelType'
    BY TabsStep, ServerStep, PanelStep
  <1> QED
    BY <1>1 DEF TabsType, ServerType, PanelType, TypeOK, AnAnswer

\* Where the loops of a list are.
LEMMA LoopsDomain ==
    ASSUME TypeOK
    PROVE  /\ Len(loops) \in Nat /\ DOMAIN loops = 1 .. Len(loops)
           /\ \A l \in DOMAIN loops : loops[l] \in ALoop /\ loops[l].reply.ver \in Nat
           /\ version \in Nat /\ acked \in Nat /\ acked <= version
           /\ body.ver \in Nat
  <1>1. loops \in Seq(ALoop)
    BY DEF TypeOK
  <1>2. \A l \in DOMAIN loops : loops[l] \in ALoop
    BY <1>1
  <1>3. \A l \in DOMAIN loops : loops[l].reply.ver \in Nat
    BY <1>2 DEF ALoop, AReply
  <1> QED
    BY <1>1, <1>2, <1>3 DEF TypeOK

LEMMA OneLoopStep ==
    ASSUME TypeOK, OneLoop, LoopOfActive, [Next]_vars
    PROVE  OneLoop' /\ LoopOfActive'
  <1>1. Len(loops) \in Nat /\ DOMAIN loops = 1 .. Len(loops)
    BY LoopsDomain
  <1>2. DOMAIN loops' = 1 .. Len(loops')
    BY TabsStep DEF TabsType
  <1>3. CASE Kept
    BY <1>3 DEF Kept, OneLoop, LoopOfActive
  <1>4. CASE Opened
    <2>1. \A l \in DOMAIN loops' : loops'[l] # Over => l = Len(loops) + 1
      BY <1>1, <1>2, <1>4 DEF Opened
    <2>2. NewLoop(active').tab = active'
      BY DEF NewLoop
    <2> QED
      BY <1>4, <2>1, <2>2 DEF Opened, OneLoop, LoopOfActive
  <1>5. CASE Stops
    <2>1. \A l \in 1 .. Len(loops) :
            loops'[l] # Over => loops[l] # Over /\ loops'[l].tab = loops[l].tab
      BY <1>5 DEF Stops
    <2> QED
      BY <1>1, <1>2, <1>5, <2>1 DEF Stops, OneLoop, LoopOfActive
  <1>6. ASSUME NEW l, Moves(l)
        PROVE  OneLoop' /\ LoopOfActive'
    BY <1>1, <1>2, <1>6 DEF Moves, OneLoop, LoopOfActive
  <1> QED
    BY <1>3, <1>4, <1>5, <1>6, TabsStep

\* A loop that is not waited for goes on, one that is ends, and its end opens
\* the tab of the address.
LEMMA ClicksStep ==
    ASSUME TypeOK, OneLoop, NoClickLost, [Next]_vars
    PROVE  NoClickLost'
  <1>1. Len(loops) \in Nat /\ DOMAIN loops = 1 .. Len(loops) /\ updatingTab \in BOOLEAN
    BY LoopsDomain DEF TypeOK
  <1>2. CASE Kept
    BY <1>2 DEF Kept, NoClickLost
  <1>3. CASE Opened
    <2>1. /\ loops'[loopPromise'] = NewLoop(active') /\ loopPromise' # 0
          /\ updatingTab' = FALSE /\ hash' = active'
      BY <1>1, <1>3 DEF Opened
    <2>2. NewLoop(active') # Over /\ NewLoop(active').running = TRUE
      BY DEF NewLoop, Over
    <2> QED
      BY <2>1, <2>2 DEF NoClickLost
  <1>4. CASE Stops
    BY <1>4 DEF Stops, NoClickLost
  <1>5. ASSUME NEW l, Moves(l)
        PROVE  NoClickLost'
    <2>1. /\ l \in DOMAIN loops /\ loops[l] # Over
          /\ UNCHANGED <<updatingTab, loopPromise, active, hash, events>> /\ RunsOn(l)
      BY <1>1, <1>5 DEF Moves, RunsOn
    <2>2. l = loopPromise /\ loopPromise # 0
      BY <1>1, <2>1 DEF OneLoop
    <2>3. loops[l].running = ~updatingTab /\ (updatingTab => loops[l].at # "sleep")
      BY <2>2 DEF NoClickLost
    <2>4. loops'[l] # Over
      BY <2>1, <2>2, <2>3 DEF RunsOn
    <2>5. loops'[l].running = ~updatingTab /\ (updatingTab => loops'[l].at # "sleep")
      BY <1>1, <2>1, <2>3, <2>4 DEF RunsOn
    <2> QED
      BY <2>1, <2>2, <2>4, <2>5 DEF NoClickLost
  <1> QED
    BY <1>2, <1>3, <1>4, <1>5, TabsStep

\* What is shown of a loop's answer.
LEMMA MovesLemma ==
    ASSUME TypeOK, LoopOfActive, AnswersAreNews, NEW l, Moves(l)
    PROVE  \/ body' = body
           \/ /\ Answered(l, "list")
              /\ body'.of = active /\ body'.ver = loops[l].reply.ver
              /\ body.ver <= body'.ver /\ body'.ver <= version
              /\ ~updatingTab => acked <= body'.ver
  <1> SUFFICES ASSUME body' # body
               PROVE  /\ Answered(l, "list")
                      /\ body'.of = active /\ body'.ver = loops[l].reply.ver
                      /\ body.ver <= body'.ver /\ body'.ver <= version
                      /\ ~updatingTab => acked <= body'.ver
    OBVIOUS
  <1>1. Answered(l, "list") /\ body' = Contents(loops[l].tab, loops[l].reply)
        /\ loops[l].tab = active /\ l \in DOMAIN loops
    <2>1. l \in DOMAIN loops /\ loops[l] # Over
      BY LoopsDomain DEF Moves
    <2> QED
      BY <2>1 DEF Moves, LoopOfActive
  <1>2. loops[l].reply \in AReply
    <2>1. loops[l] \in ALoop
      BY <1>1, LoopsDomain
    <2> QED
      BY <2>1 DEF ALoop
  <1>3. body'.of = active /\ body'.ver = loops[l].reply.ver
    BY <1>1, <1>2, ContentsLemma
  <1> QED
    BY <1>1, <1>3 DEF AnswersAreNews

LEMMA NewsStep ==
    ASSUME TypeOK, OneLoop, LoopOfActive, AnswersAreNews, [Next]_vars
    PROVE  AnswersAreNews'
  <1>1. Len(loops) \in Nat /\ DOMAIN loops = 1 .. Len(loops)
    BY LoopsDomain
  <1>2. DOMAIN loops' = 1 .. Len(loops')
    BY TabsStep DEF TabsType
  <1>3. /\ version \in Nat /\ version' \in Nat /\ version <= version'
        /\ acked \in Nat /\ acked <= version /\ body.ver \in Nat
        /\ \A l \in DOMAIN loops : loops[l].reply.ver \in Nat
    BY LoopsDomain, ServerStep DEF ServerType
  <1>4. Loading.ver = 0 /\ \A tab : NewLoop(tab).reply = NoReply /\ Over.at = "over"
    BY DEF Loading, Contents, NewLoop, Over, NoReply
  <1>5. CASE Opened
    <2>1. \A l \in DOMAIN loops' : ~Answered(l, "list")'
      BY <1>1, <1>2, <1>4, <1>5 DEF Opened, Answered, At
    <2> QED
      BY <1>3, <1>4, <1>5, <2>1 DEF Opened, AnswersAreNews
  <1>6. CASE Kept /\ (acked' = acked \/ updatingTab)
    <2>1. \A l : Answered(l, "list")' <=> Answered(l, "list")
      BY <1>6 DEF Kept, Answered, At
    <2>2. body.ver <= version'
      BY <1>3 DEF AnswersAreNews
    <2>3. ASSUME NEW l \in DOMAIN loops', Answered(l, "list")'
          PROVE  /\ body'.ver <= loops'[l].reply.ver /\ loops'[l].reply.ver <= version'
                 /\ ~updatingTab' => acked' <= loops'[l].reply.ver
      <3>1. l \in DOMAIN loops /\ Answered(l, "list") /\ loops' = loops /\ body' = body
            /\ updatingTab' = updatingTab
        BY <1>6, <2>1, <2>3 DEF Kept
      <3>2. /\ body.ver <= loops[l].reply.ver /\ loops[l].reply.ver <= version
            /\ ~updatingTab => acked <= loops[l].reply.ver
        BY <3>1 DEF AnswersAreNews
      <3> QED
        BY <1>3, <1>6, <3>1, <3>2
    <2> QED
      BY <1>6, <2>2, <2>3 DEF Kept, AnswersAreNews
  <1>7. CASE Stops
    <2>1. ASSUME NEW l \in DOMAIN loops', Answered(l, "list")'
          PROVE  /\ body'.ver <= loops'[l].reply.ver /\ loops'[l].reply.ver <= version'
      <3>1. /\ l \in DOMAIN loops /\ loops'[l].at = loops[l].at
            /\ loops'[l].reply = loops[l].reply
        BY <1>1, <1>2, <1>4, <1>7, <2>1 DEF Stops, Answered, At
      <3>2. Answered(l, "list")
        BY <2>1, <3>1 DEF Answered, At
      <3> QED
        BY <1>3, <1>7, <3>1, <3>2 DEF Stops, AnswersAreNews
    <2> QED
      BY <1>3, <1>7, <2>1 DEF Stops, AnswersAreNews
  <1>8. ASSUME NEW l, Moves(l), acked' = acked
        PROVE  AnswersAreNews'
    <2>1. l \in DOMAIN loops /\ loops[l] # Over /\ l \in DOMAIN loops'
      BY <1>1, <1>2, <1>8 DEF Moves
    <2>2. \A k \in DOMAIN loops' : k # l => ~Answered(k, "list")'
      <3> SUFFICES ASSUME NEW k \in DOMAIN loops', k # l
                   PROVE  loops'[k] = Over
        BY <1>4 DEF Answered, At
      <3>1. k \in DOMAIN loops /\ loops'[k] = loops[k]
        BY <1>1, <1>2, <1>8 DEF Moves
      <3> QED
        BY <2>1, <3>1 DEF OneLoop
    <2>3. version' = version /\ updatingTab' = updatingTab
      BY <1>8 DEF Moves
    <2>4. body'.ver <= version
      BY <1>8, MovesLemma DEF AnswersAreNews
    <2>5. CASE Answered(l, "list")'
      <3>1. loops'[l].reply.ver = version /\ body' = body
        BY <1>8, <2>5 DEF Moves
      <3> QED
        BY <1>3, <1>8, <2>2, <2>3, <2>4, <3>1 DEF AnswersAreNews
    <2>6. CASE ~Answered(l, "list")'
      BY <2>2, <2>3, <2>4, <2>6 DEF AnswersAreNews
    <2> QED
      BY <2>5, <2>6
  <1>9. Stops \/ Opened \/ (Kept /\ (acked' = acked \/ updatingTab))
        \/ \E l : Moves(l) /\ acked' = acked
    <2>1. ASSUME NEW l, Moves(l) PROVE acked' = acked
      BY <2>1 DEF Moves
    <2> QED
      BY <2>1, TabsStep
  <1> QED
    BY <1>5, <1>6, <1>7, <1>8, <1>9

LEMMA ListStep ==
    ASSUME TypeOK, OneLoop, LoopOfActive, AnswersAreNews, ListOfActiveTab, ResetIsShown,
           [Next]_vars
    PROVE  /\ ListOfActiveTab' /\ ResetIsShown'
           /\ body # Loading /\ body' # Loading => body'.of = body.of /\ body'.ver >= body.ver
  <1>1. body.ver \in Nat /\ acked \in Nat
    BY LoopsDomain
  <1>2. CASE Opened
    BY <1>2 DEF Opened, ListOfActiveTab, ResetIsShown
  <1>3. CASE Stops
    BY <1>1, <1>3 DEF Stops, ListOfActiveTab, ResetIsShown
  <1>4. CASE Kept /\ (acked' = acked \/ updatingTab)
    BY <1>1, <1>4 DEF Kept, ListOfActiveTab, ResetIsShown
  <1>5. ASSUME NEW l, Moves(l)
        PROVE  /\ ListOfActiveTab' /\ ResetIsShown'
               /\ body # Loading /\ body' # Loading => body'.of = body.of /\ body'.ver >= body.ver
    <2>1. UNCHANGED <<updatingTab, active, acked>>
      BY <1>5 DEF Moves
    <2>2. CASE body' = body
      BY <1>1, <2>1, <2>2 DEF ListOfActiveTab, ResetIsShown
    <2>3. CASE /\ body'.of = active /\ body.ver <= body'.ver
               /\ ~updatingTab => acked <= body'.ver
               /\ body'.ver = loops[l].reply.ver /\ Answered(l, "list")
      <3>1. body'.ver \in Nat
        BY <2>3, LoopsDomain DEF Answered, At
      <3> QED
        BY <1>1, <2>1, <2>3, <3>1 DEF ListOfActiveTab, ResetIsShown
    <2> QED
      BY <1>5, <2>2, <2>3, MovesLemma
  <1> QED
    BY <1>2, <1>3, <1>4, <1>5, TabsStep

LEMMA PanelRequestsStep ==
    ASSUME TypeOK, OneLoop, PanelRequests, PanelOfSelected, [Next]_vars
    PROVE  PanelRequests' /\ PanelOfSelected'
  <1>0. panelUpdater \in {selected, None} /\ selected \in Item \cup {None} /\ None \notin Item
    BY PageAssumption DEF TypeOK
  <1>1. Len(loops) \in Nat /\ DOMAIN loops = 1 .. Len(loops)
    BY LoopsDomain
  <1>2. DOMAIN loops' = 1 .. Len(loops')
    BY TabsStep DEF TabsType
  <1>3. Over.at = "over" /\ \A tab : NewLoop(tab).at = "list"
    BY DEF Over, NewLoop
  <1>4. \A l \in DOMAIN loops' : At(l, "panel")' =>
            \/ l \in DOMAIN loops /\ At(l, "panel") /\ loops'[l].item = loops[l].item
            \/ panelUpdater # None /\ loops'[l].item = panelUpdater
    <2>1. CASE Kept
      BY <2>1 DEF Kept, At
    <2>2. CASE Opened
      BY <1>1, <1>2, <1>3, <2>2 DEF Opened, At
    <2>3. CASE Stops
      BY <1>1, <1>2, <1>3, <2>3 DEF Stops, At
    <2>4. ASSUME NEW k, Moves(k)
          PROVE  \A l \in DOMAIN loops' : At(l, "panel")' =>
                    \/ l \in DOMAIN loops /\ At(l, "panel") /\ loops'[l].item = loops[l].item
                    \/ panelUpdater # None /\ loops'[l].item = panelUpdater
      BY <1>1, <1>2, <2>4 DEF Moves, At
    <2> QED
      BY <2>1, <2>2, <2>3, <2>4, TabsStep
  <1>5. \A l \in DOMAIN loops' : At(l, "panel")' => loops'[l].item \in Item
    BY <1>0, <1>4 DEF PanelRequests
  <1>6. LoopsAskFor' \subseteq LoopsAskFor \cup ({selected} \ {None})
    BY <1>0, <1>4 DEF LoopsAskFor
  <1>7. Requested = LoopsAskFor \cup AskedFor /\ Requested' = LoopsAskFor' \cup AskedFor'
    BY DEF Requested, LoopsAskFor, AskedFor
  <1>8. selected # None => Requested \subseteq {selected} \cup rivals
    BY DEF PanelRequests
  <1>9. CASE Shows
    BY <1>5, <1>6, <1>7, <1>8, <1>9 DEF Shows, PanelRequests, PanelOfSelected
  <1>10. CASE Closes
    BY <1>5, <1>10 DEF Closes, PanelRequests, PanelOfSelected
  <1>11. ASSUME NEW i \in Item, Selects(i), UNCHANGED tabs
         PROVE  PanelRequests' /\ PanelOfSelected'
    <2>1. LoopsAskFor' = LoopsAskFor
      BY <1>11 DEF tabs, LoopsAskFor, At
    <2> QED
      BY <1>5, <1>7, <1>11, <2>1 DEF Selects, PanelRequests, PanelOfSelected
  <1> QED
    BY <1>9, <1>10, <1>11, PanelStep

(***************************************************************************)
(* The invariant                                                           *)
(***************************************************************************)

LEMMA PageInitInv ==
    ASSUME Init
    PROVE  PageInv
  <1>1. /\ present \subseteq Item /\ version = 1
        /\ hash \in Tab \cup {Nowhere} /\ events = 1
        /\ post = "none" /\ loopPromise = 0 /\ stopLoop = 0 /\ loops = <<>>
        /\ active = Nowhere /\ body = Loading
        /\ selected = None /\ panelUpdater = None /\ panelBody = Loading
        /\ asked = <<>>
        /\ wiped = 0 /\ acked = 0 /\ rivals = {} /\ acts = 0
    BY DEF Init
  <1>2. live \in BOOLEAN /\ disabled \in BOOLEAN /\ updatingTab \in BOOLEAN
    BY Zenon DEF Init
  <1>3. 0 \in 0 .. MaxActs
    BY PageAssumption
  <1>4. TypeOK
    BY <1>1, <1>2, <1>3, ValuesLemma DEF TypeOK, AnAnswer
  <1>5. OneLoop /\ NoClickLost /\ LoopOfActive /\ ListOfActiveTab /\ ResetIsShown
    BY <1>1 DEF Init, OneLoop, NoClickLost, LoopOfActive, ListOfActiveTab, ResetIsShown
  <1>6. AnswersAreNews
    <2>1. Loading.ver = 0
      BY DEF Loading, Contents, NoReply
    <2> QED
      BY <1>1, <2>1 DEF AnswersAreNews
  <1>7. PanelRequests /\ PanelOfSelected
    BY <1>1 DEF PanelRequests, PanelOfSelected
  <1> QED
    BY <1>4, <1>5, <1>6, <1>7 DEF PageInv

LEMMA PageInvStep ==
    ASSUME PageInv, [Next]_vars
    PROVE  PageInv'
  <1> USE DEF PageInv
  <1>1. TypeOK'
    BY TypeStep
  <1>2. OneLoop' /\ LoopOfActive' /\ NoClickLost'
    BY OneLoopStep, ClicksStep
  <1>3. AnswersAreNews'
    BY NewsStep
  <1>4. ListOfActiveTab' /\ ResetIsShown'
    BY ListStep
  <1>5. PanelRequests' /\ PanelOfSelected'
    BY PanelRequestsStep
  <1> QED
    BY <1>1, <1>2, <1>3, <1>4, <1>5

\* The page keeps to the invariant, whatever users do, in whichever order
\* answers come, and however many of them fail: the basis of the theorems
\* below.
THEOREM PageInvariant == Spec => []PageInv
  <1>1. Init => PageInv
    BY PageInitInv
  <1>2. PageInv /\ [Next]_vars => PageInv'
    BY PageInvStep
  <1> QED
    BY <1>1, <1>2, PTL DEF Spec

\* The variables of the page keep their types; in particular stopLoop and
\* loopPromise are of loops there have been.
THEOREM PageTypes == Spec => []TypeOK
  <1>1. PageInv => TypeOK
    BY DEF PageInv
  <1> QED
    BY <1>1, PageInvariant, PTL

\* Never do two loops run.
THEOREM Single == Spec => []OneLoop
  <1>1. PageInv => OneLoop
    BY DEF PageInv
  <1> QED
    BY <1>1, PageInvariant, PTL

\* However clicks, resets and answers follow each other, the page neither stops
\* updating for good nor settles on another tab than the one of the address: what
\* ListConverges needs besides fairness, for the tab and the loop.
THEOREM Clicks == Spec => []NoClickLost
  <1>1. PageInv => NoClickLost
    BY DEF PageInv
  <1> QED
    BY <1>1, PageInvariant, PTL

\* The list is that of the highlighted tab.
THEOREM OwnList == Spec => []ListOfActiveTab
  <1>1. PageInv => ListOfActiveTab
    BY DEF PageInv
  <1> QED
    BY <1>1, PageInvariant, PTL

\* No list from before a reset the page knows of is shown.
THEOREM Wiped == Spec => []ResetIsShown
  <1>1. PageInv => ResetIsShown
    BY DEF PageInv
  <1> QED
    BY <1>1, PageInvariant, PTL

\* The panel shows its own item, or one that was asked for before.
THEOREM OwnPanel == Spec => []PanelOfSelected
  <1>1. PageInv => PanelOfSelected
    BY DEF PageInv
  <1> QED
    BY <1>1, PageInvariant, PTL

\* The list that is shown never gets older.
THEOREM Onward == Spec => ListNeverGoesBack
  <1>1. PageInv /\ [Next]_vars =>
            [body # Loading /\ body' # Loading =>
                body'.of = body.of /\ body'.ver >= body.ver]_vars
    BY ListStep DEF PageInv
  <1> QED
    BY <1>1, PageInvariant, PTL DEF Spec, ListNeverGoesBack
=============================================================================
