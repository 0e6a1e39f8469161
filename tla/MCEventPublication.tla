------------------------ MODULE MCEventPublication ------------------------
(* Small instances: issue runs that publish, or one pull request and its pushes. *)
EXTENDS EventPublication, TLC

CONSTANTS d1, d2, sha1, sha2

MCRank  == [d \in Defs |-> IF d = d1 THEN 1 ELSE 2]
MCNewer == [s \in Shas |-> IF s = sha1 THEN {sha2} \cap Shas ELSE {}]

ASSUME MCAdvancing == \E age \in [Shas -> 1..Cardinality(Shas)] : Advancing(age)
===========================================================================
