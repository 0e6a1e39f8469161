------------------------- MODULE MCAutomationRuntime -------------------------
(* A small runtime for TLC. *)
EXTENDS AutomationRuntime, TLC

CONSTANTS d1, d2

MCRank     == [d \in Defs |-> IF d = d1 THEN 1 ELSE 2]
MCSchedule == [d \in Defs |-> IF d = d1 THEN {0} ELSE {}]
\* A crash and a fault in one behaviour, or an edit of the file in another.
MCTroubles == {[crashes |-> 1, edits |-> 0, faults |-> 1], [crashes |-> 0, edits |-> 1, faults |-> 0]}
MCCalm     == {}
==============================================================================
