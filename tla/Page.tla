-------------------------------- MODULE Page --------------------------------
(***************************************************************************)
(* The page of the TelUI web interface: the update loop of the current tab *)
(* (runner.js), the lists it shows (updateTraces, updateLogs,              *)
(* updateMetrics), the side panel (panel.js, selectSpan, selectLog,        *)
(* selectMetric) and the reset button.                                     *)
(*                                                                         *)
(* A step is a task of the browser's event loop together with the          *)
(* microtasks that follow it, up to the next fetch or timer; the steps of  *)
(* the server are its readings of the store for a pending request, the     *)
(* reset and the arrival of data.  Answers may come back in any order.     *)
(*                                                                         *)
(* A definition commented "Mutant" is no part of the model: it is a wrong  *)
(* form of the one below it, which PROJECT.json pairs with the property    *)
(* that tells them apart.                                                  *)
(***************************************************************************)
EXTENDS Naturals, Sequences, FiniteSets

CONSTANTS
    Item,       \* what can be listed and selected: spans, logs, metrics
    tabOf,      \* the tab each one is listed in
    None,       \* undefined
    MaxActs     \* bound on what users, senders of data and failures do

\* The keys of the object tabs.
Tab == {"#traces", "#logs", "#metrics"}

\* The hash of an address without one; of nothing.
Nowhere == ""

ASSUME PageAssumption ==
    /\ tabOf \in [Item -> Tab]
    /\ None \notin Item
    /\ MaxActs \in Nat

VARIABLES
    present, version,   \* the store: the items it has, its number of changes
    hash, events,       \* location.hash, and the load and hashchange events to handle
    live,               \* the checkbox
    disabled, post,     \* the reset button, and its request: "none", "sent" or "done"
    updatingTab, loopPromise, stopLoop,     \* the variables of runner.js
    loops,      \* every run of updateLoop so far
    active,     \* the highlighted tab
    body,       \* the list shown, or the text "Loading..."
    selected, panelUpdater, panelBody,      \* the variables of panel.js
    asked,      \* the requests made by the clicks on items
    \* history
    wiped, acked,   \* the versions of the last reset, and of the last one known here
    rivals,     \* the items a request was out for when the panel was last opened
    acts        \* what was used of MaxActs

server == <<present, version>>
tabs   == <<hash, events, updatingTab, loopPromise, stopLoop, loops, active, body>>
panel  == <<selected, panelUpdater, panelBody, asked, rivals>>
button == <<disabled, post, wiped, acked>>
vars   == <<server, tabs, panel, button, live, acts>>

-----------------------------------------------------------------------------
(* Requests, answers, and what the page makes of them *)

Listed(tab) == {i \in Item : tabOf[i] = tab}

\* The answer about these items, if the server reads the store now; an item
\* that is not there is a 404.
Reply(items) == [items |-> items \cap present, ver |-> version]
NoReply == [items |-> {}, ver |-> 0]

\* The contents of #body and #panel-body: of a tab or of an item.
Contents(of, reply) == [of |-> of, items |-> reply.items, ver |-> reply.ver]
Loading == Contents(Nowhere, NoReply)
Failed(of) == Contents(of, NoReply)

\* A run of updateLoop: the tab it updates, what it is waiting for, its
\* variable running, the item it asks for, and the answer once there is one.
NewLoop(tab) ==
    [tab |-> tab, at |-> "list", running |-> TRUE, item |-> None, reply |-> NoReply]
Over == [tab |-> Nowhere, at |-> "over", running |-> FALSE, item |-> None, reply |-> NoReply]

\* The page is loaded, before or after there is something to show.
Init ==
    /\ present \in {{}, Item} /\ version = 1
    /\ hash \in Tab \cup {Nowhere} /\ events = 1
    /\ live = TRUE
    /\ disabled = FALSE /\ post = "none"
    /\ updatingTab = FALSE /\ loopPromise = 0 /\ stopLoop = 0 /\ loops = <<>>
    /\ active = Nowhere /\ body = Loading
    /\ selected = None /\ panelUpdater = None /\ panelBody = Loading
    /\ asked = <<>>
    /\ wiped = 0 /\ acked = 0 /\ rivals = {} /\ acts = 0

-----------------------------------------------------------------------------
(* updateTab, with ev events left to handle after this one *)

\* From the end of the previous loop on: the tab, and its loop up to the
\* first request.  ls are the loops by then.
openTab(ls, ev) ==
    LET tab == IF hash \in Tab THEN hash ELSE "#traces"
    IN  /\ hash' = tab
        /\ events' = IF hash \in Tab THEN ev ELSE ev + 1
        /\ active' = tab
        /\ body' = Loading
        /\ loops' = Append(ls, NewLoop(tab))
        /\ loopPromise' = Len(ls) + 1
        /\ stopLoop' = Len(ls) + 1
        /\ updatingTab' = FALSE

\* Mutant: stopLoop() only stops a loop that sleeps.
StoppedIfAsleep ==
    [loops EXCEPT ![stopLoop] = IF @.at = "sleep" THEN Over ELSE @]

\* The loops after stopLoop(): one that sleeps ends there and then.
Stopped ==
    [loops EXCEPT ![stopLoop] = IF @.at = "sleep" THEN Over ELSE [@ EXCEPT !.running = FALSE]]

\* Mutant: the end of the previous loop is not awaited.
updateTabAtOnce(ev) ==
    openTab(IF loopPromise = 0 THEN loops ELSE Stopped, ev)

updateTab(ev) ==
    \/ /\ updatingTab
       /\ events' = ev
       /\ UNCHANGED <<hash, updatingTab, loopPromise, stopLoop, loops, active, body>>
    \/ /\ ~updatingTab
       /\ loopPromise = 0
       /\ openTab(loops, ev)
    \/ /\ ~updatingTab
       /\ loopPromise # 0
       /\ Stopped[loopPromise] = Over
       /\ openTab(Stopped, ev)
    \/ /\ ~updatingTab
       /\ loopPromise # 0
       /\ Stopped[loopPromise] # Over
       /\ updatingTab' = TRUE
       /\ loops' = Stopped
       /\ events' = ev
       /\ UNCHANGED <<hash, loopPromise, stopLoop, active, body>>

\* The load event, or a hashchange.
hashchange ==
    /\ events > 0
    /\ updateTab(events - 1)
    /\ UNCHANGED <<server, panel, button, live, acts>>

-----------------------------------------------------------------------------
(* updateLoop *)

\* After the try block, with b in #body: the loop sleeps; or it ends, and the
\* updateTab that awaits its end goes on.
endOfTry(l, b) ==
    \/ /\ loops[l].running
       /\ loops' = [loops EXCEPT ![l] = [NewLoop(@.tab) EXCEPT !.at = "sleep"]]
       /\ stopLoop' = l
       /\ body' = b
       /\ UNCHANGED <<hash, events, updatingTab, loopPromise, active>>
    \/ /\ ~loops[l].running
       /\ updatingTab /\ loopPromise = l
       /\ openTab([loops EXCEPT ![l] = Over], events)
    \/ /\ ~loops[l].running
       /\ ~(updatingTab /\ loopPromise = l)
       /\ loops' = [loops EXCEPT ![l] = Over]
       /\ body' = b
       /\ UNCHANGED <<hash, events, updatingTab, loopPromise, stopLoop, active>>

\* The loop is at this point, and its request has been answered if need be.
At(l, place) == l \in DOMAIN loops /\ loops[l].at = place
Answered(l, place) == At(l, place) /\ loops[l].reply # NoReply

\* The server answers the loop's request.
serveLoop(l) ==
    /\ At(l, "list") \/ At(l, "panel")
    /\ loops[l].reply = NoReply
    /\ loops' = [loops EXCEPT ![l].reply =
                    Reply(IF At(l, "list") THEN Listed(loops[l].tab) ELSE {loops[l].item})]
    /\ UNCHANGED <<server, hash, events, updatingTab, loopPromise, stopLoop, active, body,
                   panel, button, live, acts>>

\* updater() is over: the list is shown, and updatePanel asks for the metric
\* in the panel, if there is one.
listArrives(l) ==
    LET list == Contents(loops[l].tab, loops[l].reply)
    IN  /\ Answered(l, "list")
        /\ \/ /\ panelUpdater = None
              /\ endOfTry(l, list)
           \/ /\ panelUpdater # None
              /\ loops' = [loops EXCEPT ![l].at = "panel", ![l].item = panelUpdater,
                                        ![l].reply = NoReply]
              /\ body' = list
              /\ UNCHANGED <<hash, events, updatingTab, loopPromise, stopLoop, active>>
        /\ UNCHANGED <<server, panel, button, live, acts>>

\* updatePanel() is over.
panelArrives(l) ==
    /\ Answered(l, "panel")
    /\ panelBody' = Contents(loops[l].item, loops[l].reply)
    /\ endOfTry(l, body)
    /\ UNCHANGED <<server, selected, panelUpdater, asked, rivals, button, live, acts>>

\* The timer of a sleeping loop; it only matters when the box is checked.
timer(l) ==
    /\ At(l, "sleep")
    /\ live
    /\ loops' = [loops EXCEPT ![l] = NewLoop(@.tab)]
    /\ stopLoop' = l
    /\ UNCHANGED <<server, hash, events, updatingTab, loopPromise, active, body,
                   panel, button, live, acts>>

-----------------------------------------------------------------------------
(* The panel *)

\* The items a request for the panel is out for.
Requested ==
    {loops[l].item : l \in {k \in DOMAIN loops : At(k, "panel")}}
        \cup {asked[k].item : k \in {j \in DOMAIN asked : asked[j].waiting}}

\* What the open panel shows may have links to spans.
Linked(i) == tabOf[i] = "#traces" /\ selected # None /\ panelBody.items # {}

\* Mutants: the panel keeps what it shows, or keeps its updater.
selectKeepsBody(i) ==
    /\ i \in body.items \/ Linked(i)
    /\ selected' = i
    /\ panelUpdater' = IF tabOf[i] = "#metrics" THEN i ELSE None
    /\ asked' = Append(asked, [item |-> i, waiting |-> TRUE, reply |-> NoReply])
    /\ rivals' = Requested
    /\ UNCHANGED panelBody
selectKeepsUpdater(i) ==
    /\ i \in body.items \/ Linked(i)
    /\ selected' = i
    /\ panelUpdater' = IF tabOf[i] = "#metrics" THEN i ELSE panelUpdater
    /\ panelBody' = Loading
    /\ asked' = Append(asked, [item |-> i, waiting |-> TRUE, reply |-> NoReply])
    /\ rivals' = Requested

\* A click on an item of the list, or on "go to span" in the panel:
\* selectSpan, selectLog or selectMetric, with selectItem.  Only metrics are asked for again by updatePanel.
select(i) ==
    /\ i \in body.items \/ Linked(i)
    /\ selected' = i
    /\ panelUpdater' = IF tabOf[i] = "#metrics" THEN i ELSE None
    /\ panelBody' = Loading
    /\ asked' = Append(asked, [item |-> i, waiting |-> TRUE, reply |-> NoReply])
    /\ rivals' = Requested

serveSelect(k) ==
    /\ k \in DOMAIN asked /\ asked[k].waiting /\ asked[k].reply = NoReply
    /\ asked' = [asked EXCEPT ![k].reply = Reply({asked[k].item})]
    /\ UNCHANGED <<server, tabs, selected, panelUpdater, panelBody, rivals, button, live, acts>>

\* The answer to a click is shown, whatever is selected by then.
selectArrives(k) ==
    /\ k \in DOMAIN asked /\ asked[k].waiting /\ asked[k].reply # NoReply
    /\ panelBody' = Contents(asked[k].item, asked[k].reply)
    /\ asked' = [asked EXCEPT ![k].waiting = FALSE, ![k].reply = NoReply]
    /\ UNCHANGED <<server, tabs, selected, panelUpdater, rivals, button, live, acts>>

\* Mutant: the updater of a closed panel stays.
closePanelOnly ==
    /\ selected # None
    /\ selected' = None
    /\ UNCHANGED <<panelUpdater, panelBody, asked, rivals>>

closePanel ==
    /\ selected # None
    /\ selected' = None
    /\ panelUpdater' = None
    /\ UNCHANGED <<panelBody, asked, rivals>>

-----------------------------------------------------------------------------
(* The reset button *)

\* The server handles POST /api/reset.
serveReset ==
    /\ post = "sent"
    /\ present' = {}
    /\ version' = version + 1
    /\ post' = "done"
    /\ wiped' = version + 1
    /\ UNCHANGED <<tabs, panel, disabled, acked, live, acts>>

\* Mutant: updateTab is not called.
resetArrivesSilently ==
    /\ post = "done"
    /\ post' = "none"
    /\ disabled' = FALSE
    /\ acked' = wiped
    /\ UNCHANGED <<server, tabs, panel, wiped, live, acts>>

\* fetch returns: updateTab is called, not awaited.
resetArrives ==
    /\ post = "done"
    /\ post' = "none"
    /\ disabled' = FALSE
    /\ acked' = wiped
    /\ updateTab(events)
    /\ UNCHANGED <<server, panel, wiped, live, acts>>

-----------------------------------------------------------------------------
(* What users, senders of data and failures do *)

clickTab(tab) ==
    /\ tab # hash
    /\ hash' = tab
    /\ events' = events + 1
    /\ UNCHANGED <<updatingTab, loopPromise, stopLoop, loops, active, body>>

clickReset ==
    /\ ~disabled
    /\ disabled' = TRUE
    /\ post' = "sent"
    /\ UNCHANGED <<wiped, acked>>

\* The request fails, before or after the server has handled it; its catch
\* block throws, so the button stays disabled.
postFails ==
    /\ post # "none"
    /\ post' = "none"
    /\ UNCHANGED <<disabled, wiped, acked>>

\* updater() throws: the request fails, or the metrics name a resource or a
\* scope that is not there.
listFails(l) == At(l, "list") /\ endOfTry(l, body)

\* The request fails; or the rendering throws, on a stream without points.
panelFails(l) ==
    /\ At(l, "panel")
    /\ panelBody' \in {Failed(loops[l].item), panelBody}
    /\ endOfTry(l, body)
    /\ UNCHANGED <<selected, panelUpdater, asked, rivals>>

selectFails(k) ==
    /\ k \in DOMAIN asked /\ asked[k].waiting
    /\ panelBody' \in {Failed(asked[k].item), panelBody}
    /\ asked' = [asked EXCEPT ![k].waiting = FALSE, ![k].reply = NoReply]
    /\ UNCHANGED <<selected, panelUpdater, rivals>>

\* An Export call stores something of this item.
ingest(i) ==
    /\ present' = present \cup {i}
    /\ version' = version + 1

Act ==
    /\ acts < MaxActs
    /\ acts' = acts + 1
    /\ \/ /\ \/ \E tab \in Tab : clickTab(tab)
             \/ \E l \in DOMAIN loops : listFails(l)
          /\ UNCHANGED <<server, panel, button, live>>
       \/ /\ \/ \E i \in Item : select(i)
             \/ closePanel
             \/ \E k \in DOMAIN asked : selectFails(k)
          /\ UNCHANGED <<server, tabs, button, live>>
       \/ /\ \E l \in DOMAIN loops : panelFails(l)
          /\ UNCHANGED <<server, button, live>>
       \/ /\ clickReset \/ postFails
          /\ UNCHANGED <<server, tabs, panel, live>>
       \/ /\ \E i \in Item : ingest(i)
          /\ UNCHANGED <<tabs, panel, button, live>>
       \/ /\ live' = ~live
          /\ UNCHANGED <<server, tabs, panel, button>>

-----------------------------------------------------------------------------

LoopStep(l) == serveLoop(l) \/ listArrives(l) \/ panelArrives(l) \/ timer(l)
SelectStep(k) == serveSelect(k) \/ selectArrives(k)

Next ==
    \/ hashchange
    \/ \E l \in DOMAIN loops : LoopStep(l)
    \/ \E k \in DOMAIN asked : SelectStep(k)
    \/ serveReset \/ resetArrives
    \/ Act

Spec == Init /\ [][Next]_vars

\* The server answers, the browser runs its tasks and timers.  There are never
\* more loops than acts, the load event and the correction of the hash.
FairSpec ==
    /\ Spec
    /\ WF_vars(hashchange) /\ WF_vars(serveReset) /\ WF_vars(resetArrives)
    /\ \A l \in 1 .. MaxActs + 2 : WF_vars(LoopStep(l))
    /\ \A k \in 1 .. MaxActs : WF_vars(SelectStep(k))

-----------------------------------------------------------------------------
(* Properties *)

AReply == [items : SUBSET Item, ver : Nat]
ALoop == [tab : Tab \cup {Nowhere}, at : {"list", "panel", "sleep", "over"},
          running : BOOLEAN, item : Item \cup {None}, reply : AReply]
ARequest == [item : Item, waiting : BOOLEAN, reply : AReply]

TypeOK ==
    /\ present \subseteq Item /\ version \in Nat \ {0}
    /\ hash \in Tab \cup {Nowhere} /\ events \in Nat
    /\ live \in BOOLEAN /\ disabled \in BOOLEAN /\ post \in {"none", "sent", "done"}
    /\ updatingTab \in BOOLEAN
    /\ loops \in Seq(ALoop)
    /\ loopPromise \in 0 .. Len(loops) /\ stopLoop \in 0 .. Len(loops)
    /\ active \in Tab \cup {Nowhere}
    /\ body \in [of : Tab \cup {Nowhere}, items : SUBSET Item, ver : Nat]
    /\ selected \in Item \cup {None} /\ panelUpdater \in {selected, None}
    /\ panelBody \in [of : Item \cup {Nowhere}, items : SUBSET Item, ver : Nat]
    /\ asked \in Seq(ARequest)
    /\ wiped \in 0 .. version /\ acked \in 0 .. wiped
    /\ rivals \subseteq Item /\ acts \in 0 .. MaxActs

\* However tabs are clicked, and resets come, while lists are loading: one
\* loop runs at a time, and it is the one stopLoop and loopPromise are for
\* (runner.js:2-34).
OneLoop ==
    \A l \in DOMAIN loops : loops[l] # Over => l = loopPromise /\ l = stopLoop

\* The list under a highlighted tab is the list of that tab: an answer that
\* was on its way when the tab changed never replaces the new one's.
ListOfActiveTab == body # Loading => body.of = active

\* The list shown never goes back to an older reading of the store.
ListNeverGoesBack ==
    [][body # Loading /\ body' # Loading => body'.of = body.of /\ body'.ver >= body.ver]_vars

\* Once the page knows of a reset and has settled on a tab, no list from
\* before it is shown again, live or not: updateTab may be dropped because one
\* is under way (runner.js:56, 83), but that one reads the store afterwards.
ResetIsShown == ~updatingTab /\ body # Loading => body.ver >= acked

\* No click on a tab is lost, and the page never freezes, although updateTab
\* drops calls (runner.js:56): a loop is only told to stop by an updateTab that
\* waits for its end, which then hangs on an answer of the server alone, never
\* on a timer or the Live box; some loop goes on from then; and when no event
\* is left to handle, the highlighted tab is the one of the address.
NoClickLost ==
    /\ updatingTab => loopPromise # 0
    /\ loopPromise # 0 =>
        /\ loops[loopPromise] # Over
        /\ loops[loopPromise].running = ~updatingTab
        /\ updatingTab => loops[loopPromise].at # "sleep"
    /\ events = 0 /\ ~updatingTab => loopPromise # 0 /\ active = hash

\* The panel shows the item in its title, unless the request for another one
\* was out when it was selected: nothing drops such an answer
\* (panel.js:20-36, traces.js:56-69, logs.js:29-40, metrics.js:78-207).
PanelOfSelected ==
    selected # None /\ panelBody # Loading => panelBody.of \in {selected} \cup rivals

\* Once nobody acts any more and nothing fails, a live page shows the tab of
\* its address, with all that the server has: no click is lost.
ListConverges ==
    <>[](live => body = Contents(hash, Reply(Listed(hash))))

\* And so does the panel of a metric, whatever answers for other items it
\* has shown meanwhile.
PanelConverges ==
    <>[](live /\ panelUpdater # None =>
            selected = panelUpdater /\ panelBody = Contents(selected, Reply({selected})))
=============================================================================
