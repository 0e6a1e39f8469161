---------------------------- MODULE MCRelayRoom ----------------------------
(* Small histories of a room for TLC. *)
EXTENDS RelayRoom, TLC
=============================================================================
