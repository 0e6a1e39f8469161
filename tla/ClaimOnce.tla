------------------------------ MODULE ClaimOnce ------------------------------
(***************************************************************************)
(* What the ledger promises about an effect outside the process that cannot *)
(* be undone: a draft pull request, a review, a notice.  An item is claimed *)
(* durably before its request may leave, the request leaves at most once,   *)
(* whatever crashes and restarts happen in between, an item that was denied *)
(* never sends, and a confirmation is final.                                *)
(***************************************************************************)
EXTENDS Naturals

CONSTANT Items

VARIABLES
  phase,   \* free, claimed, or denied for good
  sends,   \* requests that left for each item
  verdict  \* open, confirmed, or unconfirmed (unknown, failed, refused)

once == <<phase, sends, verdict>>

Init ==
  /\ phase = [i \in Items |-> "free"]
  /\ sends = [i \in Items |-> 0]
  /\ verdict = [i \in Items |-> "open"]

Claim(i) ==
  /\ phase[i] = "free"
  /\ phase' = [phase EXCEPT ![i] = "claimed"]
  /\ UNCHANGED <<sends, verdict>>

Deny(i) ==
  /\ phase[i] = "free"
  /\ phase' = [phase EXCEPT ![i] = "denied"]
  /\ verdict' = [verdict EXCEPT ![i] = "unconfirmed"]
  /\ UNCHANGED sends

Send(i) ==
  /\ phase[i] = "claimed" /\ sends[i] = 0
  /\ sends' = [sends EXCEPT ![i] = 1]
  /\ UNCHANGED <<phase, verdict>>

Settle(i, result) ==
  /\ phase[i] = "claimed" /\ verdict[i] # "confirmed"
  /\ verdict' = [verdict EXCEPT ![i] = result]
  /\ UNCHANGED <<phase, sends>>

\* One recovery settles several items in one commit.
Recover(S) ==
  /\ \A i \in S : phase[i] # "denied" /\ verdict[i] # "confirmed"
  /\ verdict' = [i \in Items |-> IF i \in S THEN "unconfirmed" ELSE verdict[i]]
  /\ phase' = [i \in Items |-> IF i \in S /\ phase[i] = "free" THEN "denied" ELSE phase[i]]
  /\ UNCHANGED sends

Next ==
  \/ \E i \in Items : Claim(i) \/ Deny(i) \/ Send(i)
                      \/ \E result \in {"confirmed", "unconfirmed"} : Settle(i, result)
  \/ \E S \in SUBSET Items : Recover(S)

Spec == Init /\ [][Next]_once
=============================================================================
