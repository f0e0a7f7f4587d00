------------------------------ MODULE PageInv ------------------------------
(***************************************************************************)
(* The inductive invariant of Page: what its properties need to know of    *)
(* the loops and of the answers that are on their way.                     *)
(***************************************************************************)
EXTENDS Page

\* The loop that runs is one of the highlighted tab.
LoopOfActive == \A l \in DOMAIN loops : loops[l] # Over => loops[l].tab = active

\* An answer about a list was read from the store after the list that is
\* shown, and after the last known reset, unless the tab is being changed.
AnswersAreNews ==
    /\ body.ver <= version
    /\ \A l \in DOMAIN loops : Answered(l, "list") =>
        /\ body.ver <= loops[l].reply.ver /\ loops[l].reply.ver <= version
        /\ ~updatingTab => acked <= loops[l].reply.ver

\* A loop asks for an item once it is at the panel; requests for the panel
\* are out for the item selected, or since before it was.
PanelRequests ==
    /\ \A l \in DOMAIN loops : At(l, "panel") => loops[l].item \in Item
    /\ selected # None => Requested \subseteq {selected} \cup rivals

PageInv ==
    /\ TypeOK /\ OneLoop /\ NoClickLost /\ LoopOfActive /\ ListOfActiveTab
    /\ AnswersAreNews /\ ResetIsShown /\ PanelRequests /\ PanelOfSelected
=============================================================================
