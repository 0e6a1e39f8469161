---------------------------- MODULE MCRunLedger ----------------------------
(* A small ledger for TLC: two definitions, one issue or one pull request. *)
EXTENDS RunLedger, TLC

CONSTANTS d1, d2

MCRank == [d \in Defs |-> IF d = d1 THEN 1 ELSE 2]
============================================================================
