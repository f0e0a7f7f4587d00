------------------------------- MODULE MCPage -------------------------------
(***************************************************************************)
(* Small instances of Page for TLC.                                        *)
(***************************************************************************)
EXTENDS PageInv

CONSTANTS m1, m2, s1

\* Two metrics and a span.
Tabs == [i \in {m1, m2, s1} |-> IF i = s1 THEN "#traces" ELSE "#metrics"]
=============================================================================
