----------------------------- MODULE MCRelayMux -----------------------------
(* Small sessions for TLC: how much each end has to say. *)
EXTENDS RelayMux, TLC

CONSTANTS FromDesktop, FromDaemon

MCChunks == [e \in Ends |-> IF e = "desktop" THEN FromDesktop ELSE FromDaemon]
=============================================================================
