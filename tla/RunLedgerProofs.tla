--------------------------- MODULE RunLedgerProofs ---------------------------
(***************************************************************************)
(* What RunLedger guarantees for every set of definitions, events and pull  *)
(* requests, every capacity, grace and retention and every bound.           *)
(***************************************************************************)
EXTENDS RunLedger, FiniteSetTheorems, SequenceTheorems, TLAPS

USE DEF vars, ledger

-----------------------------------------------------------------------------
(* Lemmas on the operators. *)

\* A new row, whatever its trigger and its first status, is a run.
LEMMA NewRunType ==
  ASSUME LedgerAssumption, clock \in 0..MaxTime,
         NEW definition \in Definition, NEW trigger \in Trigger, NEW status \in Status
  PROVE  NewRun(definition, trigger, status) \in Run
<1>1. clock \in Nat /\ clock \in Int
  BY DEF LedgerAssumption
<1>2. Stamp(clock) \in Nat
  BY <1>1 DEF Stamp
<1>3. OutcomeOf(IF HasEventKey(trigger) THEN "admitted" ELSE "none") \in Outcome
  BY DEF OutcomeOf, Outcome, Decision
<1>4. (IF status \in OpenStatus THEN -1 ELSE clock) \in Int
  BY <1>1
<1> QED
  BY <1>2, <1>3, <1>4 DEF NewRun, Run, TriageOutcome

\* What transition writes is a run again.
LEMMA TransitionedType ==
  ASSUME NEW run \in Run, NEW next \in Status, NEW binding \in BOOLEAN, NEW now \in Nat
  PROVE  Transitioned(run, next, binding, now) \in Run
<1>1. Stamp(now) \in Nat /\ now \in Int
  BY DEF Stamp
<1>2. next \notin OpenStatus => OutcomeOf(next) \in Outcome
  BY DEF OutcomeOf, Outcome, Decision, Status
<1>3. MissingTriageDecision(run) \in TriageOutcome
  BY DEF MissingTriageDecision, Run, TriageOutcome
<1> QED
  BY <1>1, <1>2, <1>3 DEF Transitioned, Run

\* Rows are added at the end and rewritten in place.
LEMMA RowsType ==
  ASSUME NEW r \in Seq(Run), NEW row \in Run
  PROVE  /\ Append(r, row) \in Seq(Run)
         /\ DOMAIN r \subseteq DOMAIN Append(r, row)
         /\ \A i \in DOMAIN r : /\ [r EXCEPT ![i] = row] \in Seq(Run)
                                /\ DOMAIN [r EXCEPT ![i] = row] = DOMAIN r
OBVIOUS

\* A function on 1..n is a sequence of length n.
LEMMA FunctionIsSeq ==
  ASSUME NEW S, NEW n \in Nat, NEW f \in [1..n -> S]
  PROVE  f \in Seq(S) /\ Len(f) = n
<1>1. f \in Seq(S)
  BY SeqDef
<1> QED
  BY <1>1, LenProperties

\* EXCEPT at a row that is not there changes nothing.
LEMMA RewriteType ==
  ASSUME NEW r \in Seq(Run), NEW k, NEW row, k \in DOMAIN r => row \in Run
  PROVE  /\ [r EXCEPT ![k] = row] \in Seq(Run)
         /\ DOMAIN [r EXCEPT ![k] = row] = DOMAIN r
<1>1. r \in [1..Len(r) -> Run] /\ Len(r) \in Nat
  BY LenProperties
<1>2. [r EXCEPT ![k] = row] \in [1..Len(r) -> Run]
  BY <1>1
<1> QED
  BY <1>1, <1>2, FunctionIsSeq

\* The status of an admission decision.
LEMMA CapacityStatusType ==
  ASSUME NEW d, NEW ahead
  PROVE  CapacityStatus(d, ahead) \in {"skipped_overlap", "skipped_concurrency", "reserved"}
BY DEF CapacityStatus

\* Triggers of every kind are triggers.
LEMMA TriggerKinds ==
  /\ Event \subseteq EventTrigger /\ EventTrigger \subseteq Trigger
  /\ [kind |-> "manual"] \in Trigger
  /\ \A o \in 0..MaxTime : [kind |-> "scheduled", occ |-> o] \in Trigger
BY DEF Trigger, EventTrigger, Scheduled, Manual

\* A batch keeps the rows there are and adds one for each fresh definition, in
\* the order of the file.
BatchAdded(definitions, due, fresh, n) ==
  /\ n \in Nat /\ fresh \subseteq DOMAIN due
  /\ \A d \in fresh : BatchRow(definitions, due, d) \in Run
  /\ \E order \in [1..n -> fresh] :
       /\ Ascending(order)
       /\ runs' \in Seq(Run) /\ Len(runs') = Len(runs) + n
       /\ \A i \in DOMAIN runs : i \in DOMAIN runs' /\ runs'[i] = runs[i]
       /\ \A i \in DOMAIN runs' \ DOMAIN runs :
            /\ i - Len(runs) \in 1..n
            /\ runs'[i] = BatchRow(definitions, due, order[i - Len(runs)])

LEMMA BatchShape ==
  ASSUME LedgerAssumption, TypeOK,
         NEW definitions \in [Defs -> Definition],
         NEW D \in SUBSET Defs, NEW due \in [D -> 0..clock],
         AdmitBatch(definitions, due)
  PROVE  LET fresh == Fresh(definitions, due)
         IN  BatchAdded(definitions, due, fresh, Cardinality(fresh))
<1> DEFINE fresh == Fresh(definitions, due)
           n     == Cardinality(fresh)
<1>1. /\ clock \in Nat /\ MaxTime \in Nat /\ clock <= MaxTime
      /\ fresh \subseteq D /\ fresh \subseteq Defs
  BY DEF TypeOK, LedgerAssumption, Fresh
<1>2. n \in Nat
  BY <1>1, FS_Subset, FS_CardinalityType DEF LedgerAssumption
<1>3. \A d \in fresh : BatchRow(definitions, due, d) \in Run
  <2> SUFFICES ASSUME NEW d \in fresh PROVE BatchRow(definitions, due, d) \in Run
    OBVIOUS
  <2>1. Verdict(fresh, due, d) \in Status
    BY CapacityStatusType DEF Verdict, Status, OpenStatus, FinalStatus, Refusals
  <2>2. definitions[d] \in Definition /\ [kind |-> "scheduled", occ |-> due[d]] \in Trigger
    BY <1>1, TriggerKinds
  <2> QED
    BY <2>1, <2>2, NewRunType DEF BatchRow, TypeOK
<1>4. PICK order \in [1..n -> fresh] :
        /\ Ascending(order)
        /\ runs' = runs \o [k \in 1..n |-> BatchRow(definitions, due, order[k])]
  BY DEF AdmitBatch
<1> DEFINE added == [k \in 1..n |-> BatchRow(definitions, due, order[k])]
<1>5. added \in [1..n -> Run]
  BY <1>3
<1>6. \A k \in 1..n : added[k] = BatchRow(definitions, due, order[k])
  OBVIOUS
<1> HIDE DEF added, fresh, n
<1>7. added \in Seq(Run) /\ Len(added) = n
  BY <1>2, <1>5, FunctionIsSeq
<1>8. runs \in Seq(Run) /\ runs' = runs \o added
  BY <1>4 DEF TypeOK, added
<1>9. /\ runs' \in Seq(Run) /\ Len(runs') = Len(runs) + n
      /\ \A i \in DOMAIN runs : i \in DOMAIN runs' /\ runs'[i] = runs[i]
      /\ \A i \in DOMAIN runs' \ DOMAIN runs :
           i - Len(runs) \in 1..n /\ runs'[i] = added[i - Len(runs)]
  <2>1. /\ runs' \in Seq(Run) /\ Len(runs') = Len(runs) + n
        /\ \A i \in 1..(Len(runs) + n) :
             runs'[i] = IF i <= Len(runs) THEN runs[i] ELSE added[i - Len(runs)]
    BY <1>7, <1>8, ConcatProperties
  <2>2. /\ DOMAIN runs = 1..Len(runs) /\ DOMAIN runs' = 1..(Len(runs) + n)
        /\ Len(runs) \in Nat
    BY <1>8, <2>1, LenProperties
  <2> QED
    BY <1>2, <2>1, <2>2
<1>10. \A i \in DOMAIN runs' \ DOMAIN runs :
         runs'[i] = BatchRow(definitions, due, order[i - Len(runs)])
  BY <1>6, <1>9
<1> QED
  BY <1>1, <1>2, <1>3, <1>4, <1>9, <1>10 DEF fresh, n, BatchAdded

-----------------------------------------------------------------------------
(* Type correctness, one action at a time. *)

LEMMA TypeBatch ==
  ASSUME LedgerAssumption, TypeOK,
         NEW definitions \in [Defs -> Definition],
         NEW D \in SUBSET Defs, NEW due \in [D -> 0..clock],
         AdmitBatch(definitions, due), UNCHANGED clock
  PROVE  TypeOK'
<1>1. runs' \in Seq(Run) /\ DOMAIN runs \subseteq DOMAIN runs'
  BY BatchShape DEF BatchAdded
<1>2. \A d \in Fresh(definitions, due) : due[d] \in 0..MaxTime
  BY DEF Fresh, TypeOK, LedgerAssumption
<1>3. cursors' \in [Defs -> {-1} \cup (0..MaxTime)]
  BY <1>2 DEF TypeOK, AdmitBatch
<1>4. UNCHANGED <<pruned, heads, keys, decisions, deliveries>>
  BY DEF AdmitBatch
<1> QED
  BY <1>1, <1>3, <1>4 DEF TypeOK

\* A row rewritten in place leaves the other tables alone.
LEMMA TypeRewrite ==
  ASSUME TypeOK, NEW i \in DOMAIN runs, NEW row \in Run,
         runs' = [runs EXCEPT ![i] = row],
         UNCHANGED <<pruned, cursors, heads, keys, decisions, deliveries, clock>>
  PROVE  TypeOK'
BY DEF TypeOK

LEMMA TypeManual ==
  ASSUME LedgerAssumption, TypeOK, NEW definition \in Definition,
         AdmitManual(definition), UNCHANGED clock
  PROVE  TypeOK'
<1> DEFINE row == NewRun(definition, [kind |-> "manual"], CapacityStatus(definition.id, 0))
<1>1. CapacityStatus(definition.id, 0) \in Status
  BY CapacityStatusType DEF Status, OpenStatus, FinalStatus, Refusals
<1>2. row \in Run
  BY <1>1, NewRunType, TriggerKinds DEF TypeOK
<1> HIDE DEF row
<1>3. runs' = Append(runs, row) /\ UNCHANGED <<pruned, cursors, heads, keys, decisions, deliveries>>
  BY DEF AdmitManual, row
<1> QED
  BY <1>2, <1>3, RowsType DEF TypeOK

\* The row and the decision that a refusal leaves.
LEMMA TypeRefusal ==
  ASSUME LedgerAssumption, TypeOK, NEW definition \in Definition, NEW trigger \in EventTrigger,
         NEW status \in Refusals, NEW reason \in Reasons,
         RecordRefusal(definition, trigger, status, reason)
  PROVE  /\ runs' \in Seq(Run) /\ DOMAIN runs \subseteq DOMAIN runs'
         /\ decisions' \subseteq [def : Defs, trigger : EventTrigger, reason : Reasons, id : Nat]
<1> DEFINE same == {x \in decisions : x.def = definition.id /\ x.trigger = trigger
                                        /\ x.reason = reason}
           row  == [NewRun(definition, trigger, status) EXCEPT !.outcome = OutcomeOf(status)]
<1>1. OutcomeOf(status) \in Outcome
  BY DEF OutcomeOf, Outcome, Decision, FinalStatus
<1>2. clock \in Nat /\ clock \in 0..MaxTime
  BY DEF TypeOK, LedgerAssumption
<1>3. CASE same # {}
  <2>1. PICK k : /\ runs' = [runs EXCEPT ![k].outcome = OutcomeOf(status),
                                         ![k].updated = Stamp(Latest(clock, @))]
                 /\ UNCHANGED decisions
    BY <1>3 DEF RecordRefusal
  <2> DEFINE old == [runs[k] EXCEPT !.outcome = OutcomeOf(status),
                                    !.updated = Stamp(Latest(clock, @))]
  <2>2. runs' = [runs EXCEPT ![k] = old]
    BY <2>1
  <2>3. runs \in Seq(Run)
    BY DEF TypeOK
  <2>4. k \in DOMAIN runs => old \in Run
    <3> HAVE k \in DOMAIN runs
    <3>1. runs[k] \in Run
      BY <2>3
    <3>2. Stamp(Latest(clock, runs[k].updated)) \in Nat
      BY <3>1, <1>2 DEF Stamp, Latest, Run
    <3> QED
      BY <3>1, <3>2, <1>1 DEF Run
  <2> HIDE DEF old
  <2>5. runs' \in Seq(Run) /\ DOMAIN runs \subseteq DOMAIN runs'
    BY <2>2, <2>3, <2>4, RewriteType
  <2> QED
    BY <2>1, <2>5 DEF TypeOK
<1>4. CASE same = {}
  <2>1. runs' = Append(runs, row)
        /\ decisions' = decisions \cup {[def |-> definition.id, trigger |-> trigger,
                                         reason |-> reason, id |-> Len(runs) + 1]}
    BY <1>4 DEF RecordRefusal
  <2>2. NewRun(definition, trigger, status) \in Run
    BY <1>2, NewRunType, TriggerKinds DEF Status, FinalStatus
  <2>3. row \in Run
    BY <2>2, <1>1 DEF Run
  <2>4. definition.id \in Defs /\ Len(runs) + 1 \in Nat
    BY DEF Definition, TypeOK
  <2> HIDE DEF row
  <2> QED
    BY <2>1, <2>3, <2>4, RowsType DEF TypeOK
<1> QED
  BY <1>3, <1>4

LEMMA TypeEvent ==
  ASSUME LedgerAssumption, TypeOK, NEW definition \in Definition, NEW trigger \in EventTrigger,
         AdmitEvent(definition, trigger), UNCHANGED clock
  PROVE  TypeOK'
<1> DEFINE answer == EventAnswer(definition, trigger)
           row    == NewRun(definition, trigger, "reserved")
<1>1. heads' \in [Prs -> Shas \cup {NoSha}]
  BY DEF AdmitEvent, TypeOK, EventTrigger, PrReview, Event, Triage
<1>2. UNCHANGED <<pruned, cursors, deliveries, clock>>
  BY DEF AdmitEvent
<1>3. CASE answer = "reserved"
  <2>1. row \in Run
    BY NewRunType, TriggerKinds DEF TypeOK, Status, OpenStatus
  <2>2. runs' = Append(runs, row) /\ UNCHANGED decisions
        /\ keys' = keys \cup {<<Namespace(definition.id, trigger), trigger>>}
    BY <1>3 DEF AdmitEvent
  <2>3. definition.id \in Defs
    BY DEF Definition
  <2>4. keys' \subseteq {<<Namespace(d, t), t>> : d \in Defs, t \in EventTrigger}
    BY <2>2, <2>3 DEF TypeOK
  <2> HIDE DEF row
  <2> QED
    BY <1>1, <1>2, <2>1, <2>2, <2>4, RowsType DEF TypeOK
<1>4. CASE answer # "reserved"
  <2>1. RecordRefusal(definition, trigger, answer, answer) /\ UNCHANGED keys
    BY <1>4 DEF AdmitEvent
  <2>2. answer \in Refusals /\ answer \in Reasons
    BY <1>4, CapacityStatusType DEF EventAnswer, Refusals, Reasons
  <2> QED
    BY <1>1, <1>2, <2>1, <2>2, TypeRefusal DEF TypeOK
<1> QED
  BY <1>3, <1>4

LEMMA TypeEventRefusal ==
  ASSUME LedgerAssumption, TypeOK, NEW definition \in Definition, NEW trigger \in Event,
         NEW reason \in FilterReasons,
         RecordEventRefusal(definition, trigger, reason), UNCHANGED clock
  PROVE  TypeOK'
<1>1. RecordRefusal(definition, trigger, "skipped_filtered", reason)
      /\ UNCHANGED <<pruned, cursors, heads, keys, deliveries>>
  BY DEF RecordEventRefusal
<1>2. trigger \in EventTrigger /\ reason \in Reasons /\ "skipped_filtered" \in Refusals
  BY TriggerKinds DEF Reasons, Refusals
<1> QED
  BY <1>1, <1>2, TypeRefusal DEF TypeOK

LEMMA TypeClaim ==
  ASSUME LedgerAssumption, TypeOK, NEW i, ClaimDispatch(i), UNCHANGED clock
  PROVE  TypeOK'
<1> DEFINE row == [runs[i] EXCEPT !.status = "prechecking",
                                  !.updated = Stamp(Latest(clock, @))]
<1>1. i \in DOMAIN runs /\ runs[i] \in Run /\ clock \in Nat
  BY DEF ClaimDispatch, Claimable, Rows, TypeOK, LedgerAssumption
<1>2. Stamp(Latest(clock, runs[i].updated)) \in Nat
  BY <1>1 DEF Stamp, Latest, Run
<1>3. row \in Run
  BY <1>1, <1>2 DEF Run, Status, OpenStatus
<1>4. runs' = [runs EXCEPT ![i] = row]
      /\ UNCHANGED <<pruned, cursors, heads, keys, decisions, deliveries>>
  BY <1>1 DEF ClaimDispatch
<1> HIDE DEF row
<1> QED
  BY <1>1, <1>3, <1>4, TypeRewrite

LEMMA TypeTransition ==
  ASSUME LedgerAssumption, TypeOK, NEW i, NEW next \in Targets, NEW now \in Readings,
         NEW binding \in BOOLEAN, Transition(i, next, binding, now), UNCHANGED clock
  PROVE  TypeOK'
<1> DEFINE row == Transitioned(runs[i], next, binding, now)
<1>1. i \in DOMAIN runs /\ runs[i] \in Run
  BY DEF Transition, TransitionError, Rows, TypeOK
<1>2. now \in Nat /\ next \in Status
  BY DEF Readings, LedgerAssumption, TypeOK
<1>3. row \in Run
  BY <1>1, <1>2, TransitionedType
<1>4. /\ runs' = [runs EXCEPT ![i] = row] \/ runs' = runs
      /\ UNCHANGED <<pruned, cursors, heads, keys, decisions, deliveries>>
  BY DEF Transition
<1> HIDE DEF row
<1>5. CASE runs' = runs
  BY <1>4, <1>5 DEF TypeOK
<1> QED
  BY <1>1, <1>3, <1>4, <1>5, TypeRewrite

LEMMA TypeTriage ==
  ASSUME LedgerAssumption, TypeOK, NEW i, NEW outcome \in TriageOutcome,
         RecordTriageDecision(i, outcome), UNCHANGED clock
  PROVE  TypeOK'
<1> DEFINE at  == Latest(clock, runs[i].updated)
           row == [runs[i] EXCEPT !.triage = outcome, !.status = "completed",
                                  !.updated = Stamp(at), !.finished = at]
<1>1. i \in DOMAIN runs /\ runs[i] \in Run /\ clock \in Nat
  BY DEF RecordTriageDecision, Rows, TypeOK, LedgerAssumption
<1>2. at \in Nat /\ at \in Int /\ Stamp(at) \in Nat
  BY <1>1 DEF Stamp, Latest, Run
<1>3. runs' = [runs EXCEPT ![i] = row]
      /\ UNCHANGED <<pruned, cursors, heads, keys, decisions, deliveries>>
  BY <1>1 DEF RecordTriageDecision
<1> HIDE DEF at
<1>4. row \in Run
  BY <1>1, <1>2 DEF Run, Status, FinalStatus
<1> HIDE DEF row
<1> QED
  BY <1>1, <1>3, <1>4, TypeRewrite

LEMMA TypeInterrupt ==
  ASSUME LedgerAssumption, TypeOK, InterruptOpen, UNCHANGED clock
  PROVE  TypeOK'
<1>1. runs \in Seq(Run) /\ DOMAIN runs = 1..Len(runs) /\ Len(runs) \in Nat /\ clock \in Nat
  BY DEF TypeOK, LedgerAssumption
<1>2. \A i \in DOMAIN runs : runs[i] \in Run
  BY <1>1
<1>3. ASSUME NEW run \in Run
      PROVE  /\ Transitioned(run, "interrupted", FALSE, Latest(clock, run.updated)) \in Run
             /\ [run EXCEPT !.outcome.decision = "publication_unknown",
                            !.updated = Stamp(Latest(clock, @))] \in Run
  <2>1. Latest(clock, run.updated) \in Nat /\ Stamp(Latest(clock, run.updated)) \in Nat
    BY <1>1 DEF Latest, Stamp, Run
  <2>2. "interrupted" \in Status
    BY DEF Status, FinalStatus
  <2>3. Transitioned(run, "interrupted", FALSE, Latest(clock, run.updated)) \in Run
    BY <2>1, <2>2, TransitionedType
  <2>4. [run.outcome EXCEPT !.decision = "publication_unknown"] \in Outcome
    BY DEF Run, Outcome, Decision, Settled
  <2>5. [run EXCEPT !.outcome.decision = "publication_unknown",
                    !.updated = Stamp(Latest(clock, @))] \in Run
    BY <2>1, <2>4 DEF Run
  <2> QED
    BY <2>3, <2>5
<1>4. runs' \in [1..Len(runs) -> Run]
  BY <1>1, <1>2, <1>3 DEF InterruptOpen
<1>5. runs' \in Seq(Run) /\ DOMAIN runs' = DOMAIN runs
  BY <1>1, <1>4, FunctionIsSeq
<1>6. deliveries' \in [Ids \X Slots -> DeliveryStatus]
  <2>1. deliveries \in [Ids \X Slots -> DeliveryStatus]
    BY DEF TypeOK
  <2>2. deliveries' = [x \in DOMAIN deliveries |->
                         IF deliveries[x] = "attempted" THEN "unknown" ELSE deliveries[x]]
    BY DEF InterruptOpen
  <2>3. "unknown" \in DeliveryStatus
    BY DEF DeliveryStatus
  <2> QED
    BY <2>1, <2>2, <2>3
<1>7. UNCHANGED <<pruned, cursors, heads, keys, decisions, clock>>
  BY DEF InterruptOpen
<1> QED
  BY <1>5, <1>6, <1>7 DEF TypeOK

\* Every publication writes the outcome of one row that is there.
LEMMA TypeOutcome ==
  ASSUME LedgerAssumption, TypeOK, NEW i \in DOMAIN runs, NEW outcome \in Outcome,
         NEW at \in Nat,
         runs' = [runs EXCEPT ![i].outcome = outcome, ![i].updated = at],
         UNCHANGED <<pruned, cursors, heads, keys, decisions, deliveries, clock>>
  PROVE  TypeOK'
<1> DEFINE row == [runs[i] EXCEPT !.outcome = outcome, !.updated = at]
<1>1. runs[i] \in Run
  BY DEF TypeOK
<1>2. row \in Run
  BY <1>1 DEF Run
<1>3. runs' = [runs EXCEPT ![i] = row]
  OBVIOUS
<1> HIDE DEF row
<1> QED
  BY <1>2, <1>3, TypeRewrite

LEMMA TypePublication ==
  ASSUME LedgerAssumption, TypeOK, NEW i,
         \/ ClaimPublication(i)
         \/ SupersedePublication(i)
         \/ \E decision \in Decision, url \in BOOLEAN : SettleOutcome(i, decision, url),
         UNCHANGED clock
  PROVE  TypeOK'
<1>1. i \in DOMAIN runs /\ runs[i] \in Run /\ clock \in Nat
  <2>1. i \in Rows
    BY DEF ClaimPublication, SupersedePublication, SettleOutcome, MayPublish
  <2> QED
    BY <2>1 DEF Rows, TypeOK, LedgerAssumption
<1>2. Stamp(Latest(clock, runs[i].updated)) \in Nat /\ runs[i].updated \in Nat
  BY <1>1 DEF Stamp, Latest, Run
<1>3. CASE ClaimPublication(i)
  <2> DEFINE outcome == [decision |-> "publication_pending", intent |-> TRUE, url |-> FALSE]
  <2>1. outcome \in Outcome
    BY DEF Outcome, Decision
  <2>2. runs' = [runs EXCEPT ![i].outcome = outcome,
                             ![i].updated = Stamp(Latest(clock, runs[i].updated))]
    BY <1>1, <1>3 DEF ClaimPublication
  <2>3. UNCHANGED <<pruned, cursors, heads, keys, decisions, deliveries>>
    BY <1>3 DEF ClaimPublication
  <2> HIDE DEF outcome
  <2> QED
    BY <1>1, <1>2, <2>1, <2>2, <2>3, TypeOutcome
<1>4. CASE SupersedePublication(i)
  <2>1. OutcomeOf("superseded") \in Outcome
    BY DEF Outcome, OutcomeOf, Decision, Settled
  <2>2. runs' = [runs EXCEPT ![i] = [runs[i] EXCEPT !.outcome = OutcomeOf("superseded")]]
    BY <1>1, <1>4 DEF SupersedePublication
  <2>3. UNCHANGED <<pruned, cursors, heads, keys, decisions, deliveries>>
    BY <1>4 DEF SupersedePublication
  <2>4. [runs[i] EXCEPT !.outcome = OutcomeOf("superseded")] \in Run
    BY <1>1, <2>1 DEF Run
  <2> QED
    BY <1>1, <2>2, <2>3, <2>4, TypeRewrite
<1>5. ASSUME NEW decision \in Decision, NEW url \in BOOLEAN, SettleOutcome(i, decision, url)
      PROVE  TypeOK'
  <2> DEFINE outcome == [runs[i].outcome EXCEPT !.decision = decision, !.url = url]
  <2>1. outcome \in Outcome
    BY <1>1 DEF Outcome, Run
  <2>2. UNCHANGED <<pruned, cursors, heads, keys, decisions, deliveries>>
    BY <1>5 DEF SettleOutcome
  <2>3. CASE runs[i].outcome.url
    BY <1>5, <2>2, <2>3 DEF SettleOutcome, TypeOK
  <2>4. CASE ~ runs[i].outcome.url
    <3>1. runs' = [runs EXCEPT ![i].outcome.decision = decision, ![i].outcome.url = url,
                               ![i].updated = Stamp(Latest(clock, @))]
      BY <1>5, <2>4 DEF SettleOutcome
    <3>2. runs' = [runs EXCEPT ![i].outcome = outcome,
                               ![i].updated = Stamp(Latest(clock, runs[i].updated))]
      BY <1>1, <3>1
    <3> HIDE DEF outcome
    <3> QED
      BY <1>1, <1>2, <2>1, <2>2, <3>2, TypeOutcome
  <2> QED
    BY <2>3, <2>4
<1> QED
  BY <1>3, <1>4, <1>5

LEMMA TypeNotification ==
  ASSUME TypeOK, NEW i, NEW slot,
         \/ ClaimNotification(i, slot)
         \/ \E result \in {"confirmed", "unknown"} : SettleNotification(i, slot, result),
         UNCHANGED clock
  PROVE  TypeOK'
<1>1. deliveries \in [Ids \X Slots -> DeliveryStatus]
  BY DEF TypeOK
<1>2. {"attempted", "confirmed", "unknown"} \subseteq DeliveryStatus
  BY DEF DeliveryStatus
<1>3. deliveries' \in [Ids \X Slots -> DeliveryStatus]
  BY <1>1, <1>2 DEF ClaimNotification, SettleNotification
<1>4. UNCHANGED <<runs, pruned, cursors, heads, keys, decisions, clock>>
  BY DEF ClaimNotification, SettleNotification
<1> QED
  BY <1>3, <1>4 DEF TypeOK

LEMMA TypePrune ==
  ASSUME TypeOK, Prune, UNCHANGED clock
  PROVE  TypeOK'
<1> DEFINE old == {i \in Rows : /\ ~ IsOpen(i) /\ runs[i].trigger.kind # "triage"
                                /\ runs[i].finished < clock - Retention}
<1>1. old \subseteq DOMAIN runs
  BY DEF Rows
<1>2. /\ pruned' = pruned \cup old
      /\ decisions' \subseteq decisions
      /\ deliveries' = [x \in DOMAIN deliveries |->
                          IF x[1] \in old THEN "none" ELSE deliveries[x]]
      /\ UNCHANGED <<runs, cursors, heads, keys, clock>>
  BY DEF Prune
<1> HIDE DEF old
<1>3. deliveries' \in [Ids \X Slots -> DeliveryStatus]
  <2>1. deliveries \in [Ids \X Slots -> DeliveryStatus] /\ "none" \in DeliveryStatus
    BY DEF TypeOK, DeliveryStatus
  <2> QED
    BY <1>2, <2>1
<1> QED
  BY <1>1, <1>2, <1>3 DEF TypeOK

-----------------------------------------------------------------------------
(* Type correctness of the specification. *)

LEMMA TypeInit ==
  ASSUME LedgerAssumption, Init
  PROVE  TypeOK
<1>1. runs \in Seq(Run) /\ DOMAIN runs = {}
  BY DEF Init
<1>2. cursors \in [Defs -> {-1} \cup (0..MaxTime)]
  BY DEF Init
<1>3. deliveries \in [Ids \X Slots -> DeliveryStatus]
  BY DEF Init, DeliveryStatus
<1> QED
  BY <1>1, <1>2, <1>3 DEF Init, TypeOK, LedgerAssumption

LEMMA TypeAdmit ==
  ASSUME LedgerAssumption, TypeOK, Admit, UNCHANGED clock
  PROVE  TypeOK'
<1>1. ASSUME NEW definitions \in {f \in [Defs -> Definition] : \A d \in Defs : f[d].id = d},
             NEW D \in SUBSET Defs, NEW due \in [D -> 0..clock],
             AdmitBatch(definitions, due)
      PROVE  TypeOK'
  BY <1>1, TypeBatch
<1>2. ASSUME NEW definition \in Definition, AdmitManual(definition)
      PROVE  TypeOK'
  BY <1>2, TypeManual
<1>3. ASSUME NEW definition \in Definition, NEW trigger \in EventTrigger,
             AdmitEvent(definition, trigger)
      PROVE  TypeOK'
  BY <1>3, TypeEvent
<1>4. ASSUME NEW definition \in Definition, NEW trigger \in Event,
             NEW reason \in FilterReasons, RecordEventRefusal(definition, trigger, reason)
      PROVE  TypeOK'
  BY <1>4, TypeEventRefusal
<1> QED
  BY <1>1, <1>2, <1>3, <1>4 DEF Admit

LEMMA TypeStep ==
  ASSUME LedgerAssumption, TypeOK, [Next]_vars
  PROVE  TypeOK'
<1>1. ASSUME Admit, UNCHANGED clock PROVE TypeOK'
  BY <1>1, TypeAdmit
<1>2. ASSUME NEW i \in Ids, Execute(i), UNCHANGED clock PROVE TypeOK'
  <2>1. ASSUME NEW next \in Targets, NEW now \in Readings,
               Transition(i, next, next = "running", now)
        PROVE  TypeOK'
    BY <1>2, <2>1, TypeTransition
  <2> QED
    BY <1>2, <2>1, TypeClaim, TypeTriage DEF Execute
<1>3. ASSUME NEW i \in Ids, Publish(i), UNCHANGED clock PROVE TypeOK'
  <2>1. {"published", "publication_failed"} \subseteq Decision
    BY DEF Decision, Settled
  <2>2. CASE ClaimPublication(i) \/ SupersedePublication(i)
    BY <1>3, <2>2, TypePublication
  <2>3. ASSUME NEW decision \in {"published", "publication_failed"},
               SettleOutcome(i, decision, decision \in Confirmed)
        PROVE  TypeOK'
    <3>1. decision \in Decision /\ (decision \in Confirmed) \in BOOLEAN
      BY <2>1
    <3>2. \E d \in Decision, url \in BOOLEAN : SettleOutcome(i, d, url)
      BY <2>3, <3>1
    <3> QED
      BY <1>3, <3>2, TypePublication
  <2>4. ASSUME NEW slot \in Slots,
               \/ ClaimNotification(i, slot)
               \/ \E result \in {"confirmed", "unknown"} : SettleNotification(i, slot, result)
        PROVE  TypeOK'
    BY <1>3, <2>4, TypeNotification
  <2> QED
    BY <1>3, <2>2, <2>3, <2>4 DEF Publish
<1>4. ASSUME InterruptOpen, UNCHANGED clock PROVE TypeOK'
  BY <1>4, TypeInterrupt
<1>5. ASSUME Prune, UNCHANGED clock PROVE TypeOK'
  BY <1>5, TypePrune
<1>6. ASSUME Tick \/ StepBack PROVE TypeOK'
  BY <1>6 DEF Tick, StepBack, TypeOK, LedgerAssumption
<1>7. CASE UNCHANGED vars
  BY <1>7 DEF TypeOK
<1> QED
  BY <1>1, <1>2, <1>3, <1>4, <1>5, <1>6, <1>7 DEF Next, Mutation

\* Whatever its callers do, the ledger's tables keep their shape (TypeOK).
THEOREM TypeCorrect == Spec => []TypeOK
<1>1. LedgerAssumption
  BY LedgerAssumption
<1>2. Init => TypeOK
  BY <1>1, TypeInit
<1>3. TypeOK /\ [Next]_vars => TypeOK'
  BY <1>1, TypeStep
<1> QED
  BY <1>2, <1>3, PTL DEF Spec

HIDE DEF vars, ledger

-----------------------------------------------------------------------------
(***************************************************************************)
(* The safety theorems of RunLedger.  One inductive invariant, LedgerInv,   *)
(* serves all of them.  Its own parts are what the properties leave unsaid: *)
(* a publication intent is only ever held by a completed run, a decision    *)
(* names a refusal row, and a cursor is never behind a scheduled row, not   *)
(* even one that retention deleted.                                         *)
(***************************************************************************)

\* A row with a publication intent is final, and only a claimed row has a URL.
Confined(run) ==
  /\ run.outcome.intent => run.status = "completed"
  /\ run.outcome.url => run.outcome.intent /\ run.outcome.decision \in Confirmed

RowsConfined == \A i \in DOMAIN runs : Confined(runs[i])
RefusalRows  == \A x \in decisions : x.id \in DOMAIN runs /\ Refused(x.id)

\* Every scheduled row, deleted or not, is behind the cursor of its definition.
CursorsAhead ==
  \A i \in DOMAIN runs :
    runs[i].trigger.kind = "scheduled" => runs[i].trigger.occ <= cursors[runs[i].definition.id]

LedgerInv ==
  /\ TypeOK /\ RowsConfined /\ RefusalRows
  /\ OneOpenRunPerDefinition
  /\ CursorsAhead /\ OccurrenceOnce

\* What one step may make of an existing row: its identity and its place among
\* the refusals are kept, its status moves forward, its authority is kept.
Moves(old, new) ==
  \/ new = old
  \/ Progress(new) > Progress(old)
  \/ Progress(old) = 2 /\ Progress(new) = 2
Onward(run, next) ==
  /\ next.definition = run.definition /\ next.trigger = run.trigger
  /\ Moves(run.status, next.status)
  /\ next.status \in Refusals <=> run.status \in Refusals
  /\ run.outcome.intent => next.outcome.intent
  /\ run.outcome.url => next.outcome = run.outcome
  /\ Confined(next)

\* What every step does to the ledger, action by action.
Added       == DOMAIN runs' \ DOMAIN runs
KeepsRows   == \A i \in DOMAIN runs : i \in DOMAIN runs' /\ Onward(runs[i], runs'[i])
KeepsTables == pruned \subseteq pruned' /\ \A d \in Defs : cursors[d] <= cursors'[d]
AddsPlain   == \A i \in Added : ~ runs'[i].outcome.intent /\ ~ runs'[i].outcome.url
AddsFresh   == \A i \in Added : runs'[i].status \in OpenStatus
                                  => ~ Overlaps(runs'[i].definition.id)
AddsApart   == \A i, j \in Added : runs'[i].definition.id = runs'[j].definition.id => i = j
AddsLater   == \A i \in Added : runs'[i].trigger.kind = "scheduled" =>
                 /\ cursors[runs'[i].definition.id] < runs'[i].trigger.occ
                 /\ runs'[i].trigger.occ <= cursors'[runs'[i].definition.id]
Disciplined ==
  /\ KeepsRows /\ KeepsTables
  /\ AddsPlain /\ AddsFresh /\ AddsApart /\ AddsLater
  /\ RefusalRows'

-----------------------------------------------------------------------------
(* Rows. *)

LEMMA OnwardSame ==
  ASSUME NEW run \in Run, Confined(run)
  PROVE  Onward(run, run)
BY DEF Onward, Moves

\* Statuses: what is open is not refused, and only an open run may become open.
LEMMA MovesFacts ==
  ASSUME NEW old \in Status, NEW new \in Status
  PROVE  /\ new \in OpenStatus /\ Moves(old, new) => old \in OpenStatus
         /\ old \in OpenStatus => old \notin Refusals
BY DEF Moves, Progress, Status, OpenStatus, FinalStatus, Refusals

\* transition moves an open run, and an open run holds no publication intent.
LEMMA OnwardTransition ==
  ASSUME NEW run \in Run, Confined(run), run.status \in OpenStatus,
         NEW next \in Status \ Refusals, NEW binding, NEW now,
         Moves(run.status, next)
  PROVE  Onward(run, Transitioned(run, next, binding, now))
<1> DEFINE new == Transitioned(run, next, binding, now)
<1>1. ~ run.outcome.intent /\ ~ run.outcome.url
  BY DEF Confined, OpenStatus, Run, Outcome
<1>2. /\ new.definition = run.definition /\ new.trigger = run.trigger /\ new.status = next
      /\ new.outcome = run.outcome \/ new.outcome = OutcomeOf(next)
  BY DEF Transitioned, Run
<1>3. ~ new.outcome.intent /\ ~ new.outcome.url
  BY <1>1, <1>2 DEF OutcomeOf
<1>4. run.status \notin Refusals /\ next \notin Refusals
  BY MovesFacts DEF Run
<1> HIDE DEF new
<1>5. Onward(run, new)
  BY <1>1, <1>2, <1>3, <1>4 DEF Onward, Confined
<1> QED
  BY <1>5 DEF new

\* A row rewritten in place: the others are as they were, none is added.
LEMMA RewriteKeeps ==
  ASSUME TypeOK, RowsConfined, NEW i \in DOMAIN runs, NEW row,
         runs' = [runs EXCEPT ![i] = row], Onward(runs[i], row)
  PROVE  KeepsRows /\ Added = {}
<1>1. runs \in Seq(Run)
  BY DEF TypeOK
<1>2. DOMAIN runs' = DOMAIN runs
  BY <1>1
<1>3. \A j \in DOMAIN runs : runs'[j] = IF j = i THEN row ELSE runs[j]
  BY <1>1
<1>4. \A j \in DOMAIN runs : Onward(runs[j], runs[j])
  BY <1>1, OnwardSame DEF RowsConfined
<1> QED
  BY <1>2, <1>3, <1>4 DEF KeepsRows, Added

LEMMA UnchangedKeeps ==
  ASSUME TypeOK, RowsConfined, runs' = runs
  PROVE  KeepsRows /\ Added = {}
<1>1. \A j \in DOMAIN runs : Onward(runs[j], runs[j])
  BY OnwardSame DEF RowsConfined, TypeOK
<1> QED
  BY <1>1 DEF KeepsRows, Added

LEMMA AppendKeeps ==
  ASSUME TypeOK, RowsConfined, NEW row \in Run, runs' = Append(runs, row)
  PROVE  /\ KeepsRows
         /\ Added = {Len(runs) + 1} /\ runs'[Len(runs) + 1] = row
         /\ DOMAIN runs \subseteq DOMAIN runs'
         /\ \A i \in DOMAIN runs : runs'[i] = runs[i]
<1>1. runs \in Seq(Run)
  BY DEF TypeOK
<1>2. /\ DOMAIN runs' = DOMAIN runs \cup {Len(runs) + 1}
      /\ Len(runs) + 1 \notin DOMAIN runs
      /\ runs'[Len(runs) + 1] = row
      /\ \A i \in DOMAIN runs : runs'[i] = runs[i]
  BY <1>1
<1>3. \A j \in DOMAIN runs : Onward(runs[j], runs[j])
  BY <1>1, OnwardSame DEF RowsConfined
<1> QED
  BY <1>2, <1>3 DEF KeepsRows, Added

\* Steps that add no row and keep the decisions among the refusals.
LEMMA NoRowAdded ==
  ASSUME TypeOK, RefusalRows, KeepsRows, Added = {}, decisions' \subseteq decisions,
         pruned \subseteq pruned', cursors' = cursors
  PROVE  Disciplined
<1>1. RefusalRows'
  BY DEF RefusalRows, Refused, KeepsRows, Onward
<1>2. KeepsTables
  BY DEF KeepsTables, TypeOK
<1> QED
  BY <1>1, <1>2 DEF Disciplined, AddsPlain, AddsFresh, AddsApart, AddsLater

\* An admission outside a batch: one row, open only if nothing overlaps.
LEMMA RowAdded ==
  ASSUME TypeOK, RowsConfined, RefusalRows, NEW row \in Run, runs' = Append(runs, row),
         ~ row.outcome.intent, ~ row.outcome.url, row.trigger.kind # "scheduled",
         row.status \in OpenStatus => ~ Overlaps(row.definition.id),
         UNCHANGED <<pruned, cursors>>,
         \A x \in decisions' : \/ x \in decisions
                               \/ x.id = Len(runs) + 1 /\ row.status \in Refusals
  PROVE  Disciplined
<1>1. /\ KeepsRows
      /\ Added = {Len(runs) + 1} /\ runs'[Len(runs) + 1] = row
      /\ \A i \in DOMAIN runs : i \in DOMAIN runs' /\ runs'[i].status \in Refusals
                               <=> runs[i].status \in Refusals
  BY AppendKeeps
<1>2. RefusalRows'
  BY <1>1 DEF RefusalRows, Refused, Added
<1>3. KeepsTables
  BY DEF KeepsTables, TypeOK
<1> QED
  BY <1>1, <1>2, <1>3 DEF Disciplined, AddsPlain, AddsFresh, AddsApart, AddsLater

LEMMA NewRunFields ==
  ASSUME NEW definition, NEW trigger, NEW status
  PROVE  LET run == NewRun(definition, trigger, status) IN
         /\ run.definition = definition /\ run.trigger = trigger /\ run.status = status
         /\ ~ run.outcome.intent /\ ~ run.outcome.url
BY DEF NewRun, OutcomeOf

\* A reservation means that no run of the definition was open.
LEMMA ReservedIsFresh ==
  ASSUME NEW d, NEW ahead, CapacityStatus(d, ahead) \in OpenStatus
  PROVE  ~ Overlaps(d)
BY DEF CapacityStatus, OpenStatus

-----------------------------------------------------------------------------
(* Admission. *)

LEMMA BatchDisciplined ==
  ASSUME LedgerAssumption, LedgerInv,
         NEW definitions \in [Defs -> Definition], \A d \in Defs : definitions[d].id = d,
         NEW D \in SUBSET Defs, NEW due \in [D -> 0..clock],
         AdmitBatch(definitions, due)
  PROVE  Disciplined
<1> DEFINE fresh == Fresh(definitions, due)
           n     == Cardinality(fresh)
<1>0. TypeOK
  BY DEF LedgerInv
<1>1. BatchAdded(definitions, due, fresh, n)
  BY <1>0, BatchShape
<1>2. PICK order \in [1..n -> fresh] :
        /\ Ascending(order)
        /\ runs' \in Seq(Run) /\ Len(runs') = Len(runs) + n
        /\ \A i \in DOMAIN runs : i \in DOMAIN runs' /\ runs'[i] = runs[i]
        /\ \A i \in DOMAIN runs' \ DOMAIN runs :
             /\ i - Len(runs) \in 1..n
             /\ runs'[i] = BatchRow(definitions, due, order[i - Len(runs)])
  BY <1>1 DEF BatchAdded
<1>3. \A d \in fresh : /\ definitions[d].id = d /\ ~ Consumed(d, due[d])
                       /\ d \in Defs /\ due[d] \in Int
  BY <1>0, <1>1 DEF Fresh, TypeOK, BatchAdded
<1>4. ASSUME NEW d \in fresh
      PROVE  LET run == BatchRow(definitions, due, d) IN
             /\ run.definition.id = d /\ run.trigger.kind = "scheduled"
             /\ run.trigger.occ = due[d]
             /\ ~ run.outcome.intent /\ ~ run.outcome.url
             /\ run.status \in OpenStatus => ~ Overlaps(d)
  <2> DEFINE status == Verdict(fresh, due, d)
  <2>1. status \in OpenStatus => ~ Overlaps(d)
    BY ReservedIsFresh DEF Verdict, OpenStatus
  <2> QED
    BY <1>3, <2>1, NewRunFields DEF BatchRow
<1> HIDE DEF fresh, n
<1>5. KeepsRows
  BY <1>2, OnwardSame DEF KeepsRows, LedgerInv, TypeOK, RowsConfined
<1>6. \A i \in Added : /\ i - Len(runs) \in 1..n /\ order[i - Len(runs)] \in fresh
                       /\ runs'[i] = BatchRow(definitions, due, order[i - Len(runs)])
                       /\ i \in Nat /\ Len(runs) \in Nat
  <2>1. Len(runs) \in Nat /\ DOMAIN runs' \subseteq Nat
    BY <1>0, <1>2 DEF TypeOK
  <2> QED
    BY <1>2, <2>1 DEF Added
<1>7. AddsPlain /\ AddsFresh
  BY <1>4, <1>6 DEF AddsPlain, AddsFresh
<1>8. AddsApart
  <2>1. \A a, b \in 1..n : order[a] = order[b] => a = b
    <3>1. ASSUME NEW a \in 1..n, NEW b \in 1..n, a < b
          PROVE  order[a] # order[b]
      <4>1. Rank[order[a]] < Rank[order[b]]
        BY <1>2, <3>1 DEF Ascending
      <4>2. Rank[order[a]] \in Nat
        BY <1>2, <1>3 DEF LedgerAssumption
      <4> QED
        BY <4>1, <4>2
    <3>2. \A a, b \in 1..n : a < b \/ b < a \/ a = b
      BY <1>1 DEF BatchAdded
    <3> QED
      BY <3>1, <3>2
  <2> SUFFICES ASSUME NEW i \in Added, NEW j \in Added,
                      runs'[i].definition.id = runs'[j].definition.id
               PROVE  i = j
    BY DEF AddsApart
  <2>2. order[i - Len(runs)] = order[j - Len(runs)]
    BY <1>4, <1>6
  <2>3. i - Len(runs) = j - Len(runs)
    BY <1>6, <2>1, <2>2
  <2> QED
    BY <1>6, <2>3
<1>9. \A d \in Defs : /\ cursors[d] \in Int
                      /\ cursors'[d] = IF d \in fresh THEN due[d] ELSE cursors[d]
                      /\ d \in fresh => cursors[d] < due[d]
  <2>1. \A d \in Defs : cursors[d] \in Int
    BY DEF LedgerInv, TypeOK, LedgerAssumption
  <2>2. \A d \in fresh : ~ (due[d] <= cursors[d])
    BY <1>3 DEF Consumed
  <2>3. cursors' = [d \in Defs |-> IF d \in fresh THEN due[d] ELSE cursors[d]]
    BY DEF AdmitBatch, fresh
  <2> QED
    BY <1>3, <2>1, <2>2, <2>3
<1>10. AddsLater
  BY <1>3, <1>4, <1>6, <1>9 DEF AddsLater
<1>11. KeepsTables
  <2>1. pruned' = pruned
    BY DEF AdmitBatch
  <2>2. ASSUME NEW d \in Defs
        PROVE  cursors[d] <= cursors'[d]
    <3>1. CASE d \in fresh
      BY <1>3, <1>9, <3>1
    <3>2. CASE d \notin fresh
      BY <1>9, <3>2
    <3> QED
      BY <3>1, <3>2
  <2> QED
    BY <2>1, <2>2 DEF KeepsTables
<1>12. RefusalRows'
  BY <1>2 DEF RefusalRows, Refused, AdmitBatch, LedgerInv
<1> QED
  BY <1>5, <1>7, <1>8, <1>10, <1>11, <1>12 DEF Disciplined

\* A refusal adds its row and decision, or writes the row that its decision names.
LEMMA RefusalDisciplined ==
  ASSUME LedgerAssumption, LedgerInv, NEW definition \in Definition,
         NEW trigger \in EventTrigger, NEW status \in Refusals, NEW reason \in Reasons,
         RecordRefusal(definition, trigger, status, reason), UNCHANGED <<pruned, cursors>>
  PROVE  Disciplined
<1> DEFINE same == {x \in decisions : x.def = definition.id /\ x.trigger = trigger
                                        /\ x.reason = reason}
           new  == NewRun(definition, trigger, status)
<1>1. TypeOK /\ RowsConfined /\ RefusalRows /\ runs \in Seq(Run)
      /\ clock \in Nat /\ clock \in 0..MaxTime
  BY DEF LedgerInv, TypeOK, LedgerAssumption
<1>2. OutcomeOf(status) \in Outcome /\ ~ OutcomeOf(status).intent /\ ~ OutcomeOf(status).url
  BY DEF OutcomeOf, Outcome, Decision, FinalStatus
<1>3. CASE same # {}
  <2>1. PICK x \in decisions : /\ runs' = [runs EXCEPT ![x.id].outcome = OutcomeOf(status),
                                                      ![x.id].updated = Stamp(Latest(clock, @))]
                               /\ UNCHANGED decisions
    BY <1>3 DEF RecordRefusal
  <2> DEFINE k   == x.id
             row == [runs[k] EXCEPT !.outcome = OutcomeOf(status),
                                    !.updated = Stamp(Latest(clock, @))]
  <2>2. k \in DOMAIN runs /\ runs[k].status \in Refusals
    BY <1>1 DEF RefusalRows, Refused
  <2> HIDE DEF k
  <2>3. runs' = [runs EXCEPT ![k] = row]
    BY <2>1 DEF k
  <2>4. runs[k] \in Run /\ Confined(runs[k])
    BY <1>1, <2>2 DEF RowsConfined
  <2>5. Onward(runs[k], row)
    <3>1. ~ runs[k].outcome.intent /\ ~ runs[k].outcome.url
      BY <2>2, <2>4 DEF Confined, Refusals, Run, Outcome
    <3>2. /\ row.definition = runs[k].definition /\ row.trigger = runs[k].trigger
          /\ row.status = runs[k].status /\ row.outcome = OutcomeOf(status)
      BY <2>4 DEF Run
    <3> HIDE DEF row
    <3> QED
      BY <1>2, <3>1, <3>2 DEF Onward, Moves, Confined
  <2> HIDE DEF row
  <2>6. KeepsRows /\ Added = {}
    BY <1>1, <2>2, <2>3, <2>5, RewriteKeeps
  <2> QED
    BY <1>1, <2>1, <2>6, NoRowAdded
<1>4. CASE same = {}
  <2> DEFINE row == [new EXCEPT !.outcome = OutcomeOf(status)]
  <2>1. /\ runs' = Append(runs, row)
        /\ decisions' = decisions \cup {[def |-> definition.id, trigger |-> trigger,
                                          reason |-> reason, id |-> Len(runs) + 1]}
    BY <1>4 DEF RecordRefusal
  <2>2. new \in Run
    BY <1>1, NewRunType, TriggerKinds DEF Status, FinalStatus
  <2>3. /\ row \in Run /\ row.status = status /\ row.trigger = trigger
        /\ row.outcome = OutcomeOf(status)
    BY <1>2, <2>2, NewRunFields DEF Run
  <2>4. trigger.kind # "scheduled" /\ status \notin OpenStatus
    BY DEF EventTrigger, Event, Triage, PrReview, Refusals, OpenStatus
  <2> HIDE DEF row, new
  <2> QED
    BY <1>1, <1>2, <2>1, <2>3, <2>4, RowAdded
<1> QED
  BY <1>3, <1>4

LEMMA AdmitDisciplined ==
  ASSUME LedgerAssumption, LedgerInv, Admit
  PROVE  Disciplined
<1>1. TypeOK /\ RowsConfined /\ RefusalRows /\ clock \in 0..MaxTime
  BY DEF LedgerInv, TypeOK
<1>2. ASSUME NEW definitions \in {f \in [Defs -> Definition] : \A d \in Defs : f[d].id = d},
             NEW D \in SUBSET Defs, NEW due \in [D -> 0..clock],
             AdmitBatch(definitions, due)
      PROVE  Disciplined
  BY <1>2, BatchDisciplined
<1>3. ASSUME NEW definition \in Definition, AdmitManual(definition)
      PROVE  Disciplined
  <2> DEFINE status == CapacityStatus(definition.id, 0)
             row    == NewRun(definition, [kind |-> "manual"], status)
  <2>1. status \in Status
    BY CapacityStatusType DEF Status, OpenStatus, FinalStatus, Refusals
  <2>2. row \in Run
    BY <1>1, <2>1, NewRunType, TriggerKinds
  <2>3. /\ row.definition = definition /\ row.trigger.kind = "manual" /\ row.status = status
        /\ ~ row.outcome.intent /\ ~ row.outcome.url
    BY NewRunFields
  <2>4. status \in OpenStatus => ~ Overlaps(definition.id)
    BY ReservedIsFresh
  <2>5. runs' = Append(runs, row) /\ UNCHANGED <<pruned, cursors, decisions>>
    BY <1>3 DEF AdmitManual
  <2> HIDE DEF row, status
  <2> QED
    BY <1>1, <2>2, <2>3, <2>4, <2>5, RowAdded
<1>4. ASSUME NEW definition \in Definition, NEW trigger \in EventTrigger,
             AdmitEvent(definition, trigger)
      PROVE  Disciplined
  <2> DEFINE answer == EventAnswer(definition, trigger)
             row    == NewRun(definition, trigger, "reserved")
  <2>1. UNCHANGED <<pruned, cursors>>
    BY <1>4 DEF AdmitEvent
  <2>2. CASE answer = "reserved"
    <3>1. row \in Run
      BY <1>1, NewRunType, TriggerKinds DEF Status, OpenStatus
    <3>2. /\ row.definition = definition /\ row.trigger = trigger
          /\ ~ row.outcome.intent /\ ~ row.outcome.url
      BY NewRunFields
    <3>3. ~ Overlaps(definition.id)
      BY <2>2, ReservedIsFresh DEF EventAnswer, OpenStatus
    <3>4. runs' = Append(runs, row) /\ UNCHANGED decisions
      BY <1>4, <2>2 DEF AdmitEvent
    <3>5. trigger.kind # "scheduled"
      BY DEF EventTrigger, Event, Triage, PrReview
    <3> HIDE DEF row
    <3> QED
      BY <1>1, <2>1, <3>1, <3>2, <3>3, <3>4, <3>5, RowAdded
  <2>3. CASE answer # "reserved"
    <3>1. RecordRefusal(definition, trigger, answer, answer)
      BY <1>4, <2>3 DEF AdmitEvent
    <3>2. answer \in Refusals /\ answer \in Reasons
      BY <2>3, CapacityStatusType DEF EventAnswer, Refusals, Reasons
    <3> QED
      BY <2>1, <3>1, <3>2, RefusalDisciplined
  <2> QED
    BY <2>2, <2>3
<1>5. ASSUME NEW definition \in Definition, NEW trigger \in Event,
             NEW reason \in FilterReasons, RecordEventRefusal(definition, trigger, reason)
      PROVE  Disciplined
  <2>1. trigger \in EventTrigger /\ reason \in Reasons /\ "skipped_filtered" \in Refusals
    BY TriggerKinds DEF Reasons, Refusals
  <2> QED
    BY <1>5, <2>1, RefusalDisciplined DEF RecordEventRefusal
<1> QED
  BY <1>2, <1>3, <1>4, <1>5 DEF Admit

-----------------------------------------------------------------------------
(* Execution, restart, publication, retention. *)

\* One row is rewritten, nothing else moves that the properties speak of.
LEMMA OneRowDisciplined ==
  ASSUME LedgerInv, NEW i \in DOMAIN runs, NEW row, Onward(runs[i], row),
         runs' = [runs EXCEPT ![i] = row], UNCHANGED <<pruned, cursors, decisions>>
  PROVE  Disciplined
<1>1. TypeOK /\ RowsConfined /\ RefusalRows
  BY DEF LedgerInv
<1>2. KeepsRows /\ Added = {}
  BY <1>1, RewriteKeeps
<1> QED
  BY <1>1, <1>2, NoRowAdded

LEMMA NothingDisciplined ==
  ASSUME LedgerInv, UNCHANGED <<runs, cursors>>, pruned \subseteq pruned',
         decisions' \subseteq decisions
  PROVE  Disciplined
<1>1. TypeOK /\ RowsConfined /\ RefusalRows
  BY DEF LedgerInv
<1>2. KeepsRows /\ Added = {}
  BY <1>1, UnchangedKeeps
<1> QED
  BY <1>1, <1>2, NoRowAdded

LEMMA ExecuteDisciplined ==
  ASSUME LedgerAssumption, LedgerInv, NEW i, Execute(i)
  PROVE  Disciplined
<1>1. i \in Rows
  BY DEF Execute, ClaimDispatch, Claimable, Transition, TransitionError, RecordTriageDecision
<1>2. i \in DOMAIN runs /\ runs[i] \in Run /\ Confined(runs[i])
  BY <1>1 DEF Rows, LedgerInv, TypeOK, RowsConfined
<1>3. CASE ClaimDispatch(i)
  <2> DEFINE row == [runs[i] EXCEPT !.status = "prechecking",
                                    !.updated = Stamp(Latest(clock, @))]
  <2>1. /\ runs[i].status = "reserved" /\ runs' = [runs EXCEPT ![i] = row]
        /\ UNCHANGED <<pruned, cursors, decisions>>
    BY <1>2, <1>3 DEF ClaimDispatch, Claimable
  <2>2. /\ row.definition = runs[i].definition /\ row.trigger = runs[i].trigger
        /\ row.status = "prechecking" /\ row.outcome = runs[i].outcome
    BY <1>2 DEF Run
  <2> HIDE DEF row
  <2>3. Onward(runs[i], row)
    BY <1>2, <2>1, <2>2 DEF Onward, Moves, Progress, Confined, Refusals, Run, Outcome
  <2> QED
    BY <1>2, <2>1, <2>3, OneRowDisciplined
<1>4. ASSUME NEW next \in Targets, NEW now \in Readings,
             Transition(i, next, next = "running", now)
      PROVE  Disciplined
  <2> DEFINE row == Transitioned(runs[i], next, next = "running", now)
  <2>1. UNCHANGED <<pruned, cursors, decisions>>
    BY <1>4 DEF Transition
  <2>2. CASE IsOpen(i)
    <3>1. runs' = [runs EXCEPT ![i] = row] /\ ~ Backwards(i, next)
      BY <1>2, <1>4, <2>2 DEF Transition, TransitionError
    <3>2. next \in Status \ Refusals /\ runs[i].status \in OpenStatus
      BY <2>2 DEF LedgerAssumption, IsOpen
    <3>3. Moves(runs[i].status, next)
      BY <3>1, <3>2 DEF Backwards, Moves, Progress, Status, OpenStatus, FinalStatus
    <3>4. Onward(runs[i], row)
      BY <1>2, <3>2, <3>3, OnwardTransition
    <3> HIDE DEF row
    <3> QED
      BY <1>2, <2>1, <3>1, <3>4, OneRowDisciplined
  <2>3. CASE ~ IsOpen(i)
    BY <1>4, <2>1, <2>3, NothingDisciplined DEF Transition
  <2> QED
    BY <2>2, <2>3
<1>5. ASSUME NEW outcome, RecordTriageDecision(i, outcome)
      PROVE  Disciplined
  <2> DEFINE at  == Latest(clock, runs[i].updated)
             row == [runs[i] EXCEPT !.triage = outcome, !.status = "completed",
                                    !.updated = Stamp(at), !.finished = at]
  <2>1. /\ runs[i].status \in {"running", "needs_you"}
        /\ runs' = [runs EXCEPT ![i] = row] /\ UNCHANGED <<pruned, cursors, decisions>>
    BY <1>2, <1>5 DEF RecordTriageDecision
  <2>2. /\ row.definition = runs[i].definition /\ row.trigger = runs[i].trigger
        /\ row.status = "completed" /\ row.outcome = runs[i].outcome
    BY <1>2 DEF Run
  <2> HIDE DEF row
  <2>3. Onward(runs[i], row)
    BY <1>2, <2>1, <2>2 DEF Onward, Moves, Progress, Confined, Refusals, Run, Outcome
  <2> QED
    BY <1>2, <2>1, <2>3, OneRowDisciplined
<1> QED
  BY <1>3, <1>4, <1>5 DEF Execute

LEMMA InterruptDisciplined ==
  ASSUME LedgerAssumption, LedgerInv, InterruptOpen
  PROVE  Disciplined
<1> DEFINE interrupted(run) == Transitioned(run, "interrupted", FALSE, Latest(clock, run.updated))
           uncertain(run)   == [run EXCEPT !.outcome.decision = "publication_unknown",
                                           !.updated = Stamp(Latest(clock, @))]
<1>1. TypeOK /\ RowsConfined /\ RefusalRows /\ runs \in Seq(Run)
  BY DEF LedgerInv, TypeOK
<1>2. ASSUME NEW run \in Run, Confined(run)
      PROVE  /\ run.status \in OpenStatus => Onward(run, interrupted(run))
             /\ run.outcome.decision = "publication_pending" => Onward(run, uncertain(run))
             /\ Onward(run, run)
  <2>1. ASSUME run.status \in OpenStatus PROVE Onward(run, interrupted(run))
    <3>1. Moves(run.status, "interrupted")
      BY <2>1 DEF Moves, Progress, OpenStatus
    <3>2. "interrupted" \in Status \ Refusals
      BY DEF Status, FinalStatus, Refusals
    <3> QED
      BY <1>2, <2>1, <3>1, <3>2, OnwardTransition
  <2>2. ASSUME run.outcome.decision = "publication_pending" PROVE Onward(run, uncertain(run))
    <3> DEFINE new == uncertain(run)
    <3>1. ~ run.outcome.url
      BY <1>2, <2>2 DEF Confined, Confirmed
    <3>2. /\ new.definition = run.definition /\ new.trigger = run.trigger
          /\ new.status = run.status
          /\ new.outcome = [run.outcome EXCEPT !.decision = "publication_unknown"]
      BY DEF Run
    <3>3. new.outcome.intent = run.outcome.intent /\ new.outcome.url = run.outcome.url
      BY <3>2 DEF Run, Outcome
    <3> HIDE DEF new
    <3>4. Onward(run, new)
      BY <1>2, <3>1, <3>2, <3>3 DEF Onward, Moves, Confined
    <3> QED
      BY <3>4 DEF new
  <2> QED
    BY <1>2, <2>1, <2>2, OnwardSame
<1> HIDE DEF interrupted, uncertain
<1>3. \A i \in DOMAIN runs :
        /\ i \in DOMAIN runs'
        /\ \/ runs'[i] = runs[i]
           \/ runs[i].status \in OpenStatus /\ runs'[i] = interrupted(runs[i])
           \/ /\ runs[i].outcome.decision = "publication_pending"
              /\ runs'[i] = uncertain(runs[i])
  BY DEF InterruptOpen, OpenRows, IsOpen, interrupted, uncertain
<1>4. KeepsRows
  BY <1>1, <1>2, <1>3 DEF KeepsRows, RowsConfined
<1>5. Added = {}
  BY DEF Added, InterruptOpen
<1> QED
  BY <1>1, <1>4, <1>5, NoRowAdded DEF InterruptOpen

LEMMA PublishDisciplined ==
  ASSUME LedgerAssumption, LedgerInv, NEW i, Publish(i)
  PROVE  Disciplined
<1>1. ASSUME ClaimPublication(i) PROVE Disciplined
  <2> DEFINE row == [runs[i] EXCEPT !.outcome = [decision |-> "publication_pending",
                                                 intent |-> TRUE, url |-> FALSE],
                                    !.updated = Stamp(Latest(clock, @))]
  <2>1. /\ i \in DOMAIN runs /\ runs[i].status = "completed" /\ ~ runs[i].outcome.intent
        /\ runs' = [runs EXCEPT ![i] = row] /\ UNCHANGED <<pruned, cursors, decisions>>
    BY <1>1 DEF ClaimPublication, MayPublish, Unclaimed, Rows
  <2>2. runs[i] \in Run /\ Confined(runs[i])
    BY <2>1 DEF LedgerInv, TypeOK, RowsConfined
  <2>3. /\ row.definition = runs[i].definition /\ row.trigger = runs[i].trigger
        /\ row.status = runs[i].status /\ row.outcome.intent /\ ~ row.outcome.url
    BY <2>2 DEF Run
  <2> HIDE DEF row
  <2>4. Onward(runs[i], row)
    BY <2>1, <2>2, <2>3 DEF Onward, Moves, Confined
  <2> QED
    BY <2>1, <2>4, OneRowDisciplined
<1>2. ASSUME SupersedePublication(i) PROVE Disciplined
  <2> DEFINE row == [runs[i] EXCEPT !.outcome = OutcomeOf("superseded")]
  <2>1. /\ i \in DOMAIN runs /\ ~ runs[i].outcome.intent
        /\ runs' = [runs EXCEPT ![i] = row] /\ UNCHANGED <<pruned, cursors, decisions>>
    BY <1>2 DEF SupersedePublication, MayPublish, Unclaimed, Rows
  <2>2. runs[i] \in Run /\ Confined(runs[i])
    BY <2>1 DEF LedgerInv, TypeOK, RowsConfined
  <2>3. /\ row.definition = runs[i].definition /\ row.trigger = runs[i].trigger
        /\ row.status = runs[i].status /\ ~ row.outcome.intent /\ ~ row.outcome.url
    BY <2>2 DEF Run, OutcomeOf
  <2> HIDE DEF row
  <2>4. Onward(runs[i], row)
    BY <2>1, <2>2, <2>3 DEF Onward, Moves, Confined
  <2> QED
    BY <2>1, <2>4, OneRowDisciplined
<1>3. ASSUME NEW decision, MaySettle(i, decision),
             SettleOutcome(i, decision, decision \in Confirmed)
      PROVE  Disciplined
  <2> DEFINE row == [runs[i] EXCEPT !.outcome.decision = decision,
                                    !.outcome.url = (decision \in Confirmed),
                                    !.updated = Stamp(Latest(clock, @))]
  <2>1. /\ i \in DOMAIN runs
        /\ decision \in Confirmed => runs[i].outcome.intent
        /\ UNCHANGED <<pruned, cursors, decisions>>
    BY <1>3 DEF MaySettle, SettleOutcome, Rows
  <2>2. runs[i] \in Run /\ runs[i].outcome \in Outcome /\ Confined(runs[i])
    <3>1. runs[i] \in Run /\ Confined(runs[i])
      BY <2>1 DEF LedgerInv, TypeOK, RowsConfined
    <3> QED
      BY <3>1 DEF Run
  <2>3. CASE runs[i].outcome.url
    BY <1>3, <2>1, <2>3, NothingDisciplined DEF SettleOutcome
  <2>4. CASE ~ runs[i].outcome.url
    <3>1. runs' = [runs EXCEPT ![i].outcome.decision = decision,
                               ![i].outcome.url = (decision \in Confirmed),
                               ![i].updated = Stamp(Latest(clock, @))]
      BY <1>3, <2>4 DEF SettleOutcome
    <3>2. runs' = [runs EXCEPT ![i] = row]
      BY <2>1, <3>1
    <3>3. /\ row.definition = runs[i].definition /\ row.trigger = runs[i].trigger
          /\ row.status = runs[i].status
          /\ row.outcome.intent = runs[i].outcome.intent
          /\ row.outcome.decision = decision
          /\ row.outcome.url = (decision \in Confirmed)
      BY <2>2 DEF Run, Outcome
    <3> HIDE DEF row
    <3>4. Onward(runs[i], row)
      BY <2>1, <2>2, <2>4, <3>3 DEF Onward, Moves, Confined
    <3> QED
      BY <2>1, <3>2, <3>4, OneRowDisciplined
  <2> QED
    BY <2>3, <2>4
<1>4. ASSUME NEW slot,
             \/ ClaimNotification(i, slot)
             \/ \E result \in {"confirmed", "unknown"} : SettleNotification(i, slot, result)
      PROVE  Disciplined
  BY <1>4, NothingDisciplined DEF ClaimNotification, SettleNotification
<1> QED
  BY <1>1, <1>2, <1>3, <1>4 DEF Publish

LEMMA StepDisciplined ==
  ASSUME LedgerAssumption, LedgerInv, [Next]_vars
  PROVE  Disciplined
<1>1. ASSUME Prune PROVE Disciplined
  BY <1>1, NothingDisciplined DEF Prune
<1>2. ASSUME Tick \/ StepBack \/ UNCHANGED vars PROVE Disciplined
  BY <1>2, NothingDisciplined DEF Tick, StepBack, vars, ledger
<1>3. ASSUME NEW i \in Ids, Execute(i) \/ Publish(i) PROVE Disciplined
  BY <1>3, ExecuteDisciplined, PublishDisciplined
<1>4. ASSUME Admit \/ InterruptOpen PROVE Disciplined
  BY <1>4, AdmitDisciplined, InterruptDisciplined
<1> QED
  BY <1>1, <1>2, <1>3, <1>4 DEF Next, Mutation

-----------------------------------------------------------------------------
(* The invariant and the theorems. *)

LEMMA InvInit ==
  ASSUME LedgerAssumption, Init
  PROVE  LedgerInv
<1>1. TypeOK
  BY TypeInit
<1>2. DOMAIN runs = {} /\ decisions = {}
  BY DEF Init
<1> QED
  BY <1>1, <1>2 DEF LedgerInv, RowsConfined, RefusalRows, CursorsAhead, OccurrenceOnce,
                    OneOpenRunPerDefinition, OpenRows, Rows

LEMMA InvStep ==
  ASSUME LedgerAssumption, LedgerInv, [Next]_vars
  PROVE  LedgerInv'
<1>1. TypeOK /\ TypeOK' /\ Disciplined
  BY TypeStep, StepDisciplined DEF LedgerInv
<1>2. \A i \in DOMAIN runs' :
        \/ /\ i \in DOMAIN runs
           /\ runs'[i].definition = runs[i].definition /\ runs'[i].trigger = runs[i].trigger
           /\ Confined(runs'[i])
           /\ runs'[i].status \in OpenStatus => runs[i].status \in OpenStatus
        \/ i \in Added
  <2> SUFFICES ASSUME NEW i \in DOMAIN runs, i \in DOMAIN runs'
               PROVE  /\ runs'[i].definition = runs[i].definition
                      /\ runs'[i].trigger = runs[i].trigger
                      /\ Confined(runs'[i])
                      /\ runs'[i].status \in OpenStatus => runs[i].status \in OpenStatus
    BY DEF Added
  <2>1. runs[i].status \in Status /\ runs'[i].status \in Status
    <3>1. runs[i] \in Run /\ runs'[i] \in Run
      BY <1>1 DEF TypeOK
    <3> QED
      BY <3>1 DEF Run
  <2>2. Onward(runs[i], runs'[i])
    BY <1>1 DEF Disciplined, KeepsRows
  <2> QED
    BY <2>1, <2>2, MovesFacts DEF Onward
<1>3. RowsConfined'
  BY <1>1, <1>2 DEF RowsConfined, Disciplined, AddsPlain, Confined
<1>4. OneOpenRunPerDefinition'
  <2> SUFFICES ASSUME NEW i \in OpenRows', NEW j \in OpenRows',
                      runs'[i].definition.id = runs'[j].definition.id
               PROVE  i = j
    BY DEF OneOpenRunPerDefinition
  <2>1. \A k \in OpenRows' : /\ k \in DOMAIN runs' /\ k \notin pruned'
                             /\ runs'[k].status \in OpenStatus
    BY DEF OpenRows, Rows, IsOpen
  <2>2. \A k \in OpenRows' : k \notin Added => k \in OpenRows
    BY <1>1, <1>2, <2>1 DEF OpenRows, Rows, IsOpen, Disciplined, KeepsTables
  <2>3. ASSUME NEW k \in OpenRows', NEW m \in OpenRows', k \in Added, m \notin Added
        PROVE  runs'[k].definition.id # runs'[m].definition.id
    <3>1. ~ Overlaps(runs'[k].definition.id)
      BY <1>1, <2>1, <2>3 DEF Disciplined, AddsFresh
    <3>2. m \in OpenRows /\ runs'[m].definition = runs[m].definition
      BY <1>2, <2>1, <2>2, <2>3
    <3> QED
      BY <3>1, <3>2 DEF Overlaps
  <2>4. CASE i \in Added /\ j \in Added
    BY <1>1, <2>4 DEF Disciplined, AddsApart
  <2>5. CASE i \notin Added /\ j \notin Added
    <3>1. i \in OpenRows /\ j \in OpenRows
      BY <2>2, <2>5
    <3>2. runs[i].definition.id = runs[j].definition.id
      BY <1>2, <2>1, <2>5
    <3> QED
      BY <3>1, <3>2 DEF LedgerInv, OneOpenRunPerDefinition
  <2> QED
    BY <2>3, <2>4, <2>5
<1>5. CursorsAhead'
  <2> SUFFICES ASSUME NEW i \in DOMAIN runs', runs'[i].trigger.kind = "scheduled"
               PROVE  runs'[i].trigger.occ <= cursors'[runs'[i].definition.id]
    BY DEF CursorsAhead
  <2>1. CASE i \in Added
    BY <1>1, <2>1 DEF Disciplined, AddsLater
  <2>2. CASE i \notin Added
    <3>1. /\ i \in DOMAIN runs /\ runs'[i].definition = runs[i].definition
          /\ runs'[i].trigger = runs[i].trigger
      BY <1>2, <2>2
    <3>2. runs[i].definition.id \in Defs /\ runs[i].trigger.occ \in 0..MaxTime
      <4>1. runs[i] \in Run
        BY <1>1, <3>1 DEF TypeOK
      <4>2. runs[i].trigger \in Trigger /\ runs[i].trigger.kind = "scheduled"
        BY <3>1, <4>1 DEF Run
      <4> QED
        BY <4>1, <4>2 DEF Run, Definition, Trigger, Scheduled, Manual, EventTrigger, Event,
                          Triage, PrReview
    <3>3. runs[i].trigger.occ <= cursors[runs[i].definition.id]
      BY <3>1 DEF LedgerInv, CursorsAhead
    <3>4. cursors[runs[i].definition.id] <= cursors'[runs[i].definition.id]
      BY <1>1, <3>2 DEF Disciplined, KeepsTables
    <3>5. /\ cursors[runs[i].definition.id] \in Int /\ cursors'[runs[i].definition.id] \in Int
          /\ runs[i].trigger.occ \in Int
      BY <1>1, <3>2 DEF TypeOK, LedgerAssumption
    <3> QED
      BY <3>1, <3>3, <3>4, <3>5
  <2> QED
    BY <2>1, <2>2
<1>6. OccurrenceOnce'
  <2> SUFFICES ASSUME NEW i \in DOMAIN runs', NEW j \in DOMAIN runs',
                      runs'[i].trigger.kind = "scheduled", runs'[j].trigger.kind = "scheduled",
                      runs'[i].definition.id = runs'[j].definition.id, i < j
               PROVE  runs'[i].trigger.occ < runs'[j].trigger.occ
    BY DEF OccurrenceOnce
  <2>1. \A a \in Added, b \in DOMAIN runs : a \in Nat /\ b \in Nat /\ b < a
    BY <1>1 DEF TypeOK, Added
  <2>2. i \in Nat /\ j \in Nat
    BY <1>1 DEF TypeOK
  <2>3. CASE i \notin Added /\ j \notin Added
    <3>1. /\ i \in DOMAIN runs /\ runs'[i].definition = runs[i].definition
          /\ runs'[i].trigger = runs[i].trigger
          /\ j \in DOMAIN runs /\ runs'[j].definition = runs[j].definition
          /\ runs'[j].trigger = runs[j].trigger
      BY <1>2, <2>3
    <3> QED
      BY <3>1 DEF LedgerInv, OccurrenceOnce
  <2>4. CASE i \notin Added /\ j \in Added
    <3>1. /\ i \in DOMAIN runs /\ runs'[i].definition = runs[i].definition
          /\ runs'[i].trigger = runs[i].trigger
      BY <1>2, <2>4
    <3>2. runs[i].trigger.occ <= cursors[runs[i].definition.id]
      BY <3>1 DEF LedgerInv, CursorsAhead
    <3>3. cursors[runs'[j].definition.id] < runs'[j].trigger.occ
      BY <1>1, <2>4 DEF Disciplined, AddsLater
    <3>4. /\ runs[i].trigger.occ \in Int /\ cursors[runs[i].definition.id] \in Int
          /\ runs'[j].trigger.occ \in Int
      <4>1. runs[i] \in Run /\ runs'[j] \in Run
        BY <1>1, <3>1 DEF TypeOK
      <4>2. \A t \in Trigger : t.kind = "scheduled" => t.occ \in 0..MaxTime
        BY DEF Trigger, Scheduled, Manual, EventTrigger, Event, Triage, PrReview
      <4>3. /\ runs[i].trigger \in Trigger /\ runs'[j].trigger \in Trigger
            /\ runs[i].definition.id \in Defs
        BY <4>1 DEF Run, Definition
      <4> QED
        BY <1>1, <3>1, <4>2, <4>3 DEF TypeOK, LedgerAssumption
    <3> QED
      BY <3>1, <3>2, <3>3, <3>4
  <2>5. CASE i \in Added /\ j \notin Added
    BY <1>2, <2>1, <2>2, <2>5
  <2>6. CASE i \in Added /\ j \in Added
    <3>1. i = j
      BY <1>1, <2>6 DEF Disciplined, AddsApart
    <3> QED
      BY <2>2, <3>1
  <2> QED
    BY <2>3, <2>4, <2>5, <2>6
<1> QED
  BY <1>1, <1>3, <1>4, <1>5, <1>6 DEF LedgerInv, Disciplined

LEMMA InvCorrect == Spec => []LedgerInv
<1>1. LedgerAssumption
  BY LedgerAssumption
<1>2. Init => LedgerInv
  BY <1>1, InvInit
<1>3. LedgerInv /\ [Next]_vars => LedgerInv'
  BY <1>1, InvStep
<1> QED
  BY <1>2, <1>3, PTL DEF Spec

\* No mix of schedules, Run Now and events opens a second run of a definition
\* (capacity_status), for any limit of concurrent runs.
THEOREM NoOverlap == Spec => []OneOpenRunPerDefinition
<1>1. LedgerInv => OneOpenRunPerDefinition
  BY DEF LedgerInv
<1> QED
  BY <1>1, InvCorrect, PTL

\* No occurrence gets a second row, before or after its first one is pruned
\* (scheduled_cursor), even if the wall clock steps back.
THEOREM OccurrencesDecidedOnce == Spec => []OccurrenceOnce
<1>1. LedgerInv => OccurrenceOnce
  BY DEF LedgerInv
<1> QED
  BY <1>1, InvCorrect, PTL

\* The first terminal result of a run is its last (transition, interrupt_open).
THEOREM FinalStatusStays == Spec => StatusMovesForward
<1>1. LedgerInv /\ [Next]_vars =>
        [\A i \in DOMAIN runs :
           \/ runs'[i].status = runs[i].status
           \/ Progress(runs'[i].status) > Progress(runs[i].status)
           \/ Progress(runs[i].status) = 2 /\ Progress(runs'[i].status) = 2]_vars
  <2> SUFFICES ASSUME LedgerInv, [Next]_vars
               PROVE  \A i \in DOMAIN runs : Moves(runs[i].status, runs'[i].status)
    BY DEF Moves
  <2>1. KeepsRows
    BY StepDisciplined, LedgerAssumption DEF Disciplined
  <2> QED
    BY <2>1 DEF KeepsRows, Onward
<1> QED
  BY <1>1, InvCorrect, PTL DEF Spec, StatusMovesForward

\* A publication intent survives everything that happens to its run, and a
\* confirmed URL is final (claim_publication, settle_outcome, interrupt_open).
THEOREM AuthorityIsKept == Spec => AuthorityKept
<1>1. LedgerInv /\ [Next]_vars =>
        [\A i \in DOMAIN runs :
           /\ runs[i].outcome.intent => runs'[i].outcome.intent
           /\ runs[i].outcome.url => runs'[i].outcome = runs[i].outcome]_vars
  <2> SUFFICES ASSUME LedgerInv, [Next]_vars
               PROVE  \A i \in DOMAIN runs :
                        /\ runs[i].outcome.intent => runs'[i].outcome.intent
                        /\ runs[i].outcome.url => runs'[i].outcome = runs[i].outcome
    OBVIOUS
  <2>1. KeepsRows
    BY StepDisciplined, LedgerAssumption DEF Disciplined
  <2> QED
    BY <2>1 DEF KeepsRows, Onward
<1> QED
  BY <1>1, InvCorrect, PTL DEF Spec, AuthorityKept

-----------------------------------------------------------------------------
(***************************************************************************)
(* The limit of concurrent runs holds in RunLedger for every mix of batches, *)
(* events and Run Now.  A single admission looks at the rows that are open;  *)
(* a batch decides all its candidates in one transaction, and the number of   *)
(* eligible candidates before each one in the order of the file is what keeps *)
(* the whole batch within the capacity that was left.                          *)
(***************************************************************************)

\* The open rows that a step adds, and the capacity they have to fit into.
AddedOpen == {i \in Added : runs'[i].status \in OpenStatus}
Fits ==
  /\ IsFiniteSet(AddedOpen)
  /\ AddedOpen = {} \/ Cardinality(OpenRows) + Cardinality(AddedOpen) <= MaxConcurrent

LEMMA OpenRowsFinite ==
  ASSUME TypeOK
  PROVE  IsFiniteSet(OpenRows) /\ Cardinality(OpenRows) \in Nat
<1>1. DOMAIN runs = 1..Len(runs) /\ Len(runs) \in Nat
  BY DEF TypeOK
<1>2. IsFiniteSet(1..Len(runs))
  BY <1>1, FS_Interval
<1>3. OpenRows \subseteq 1..Len(runs)
  BY <1>1 DEF OpenRows, Rows
<1> QED
  BY <1>2, <1>3, FS_Subset, FS_CardinalityType

LEMMA NothingFits ==
  ASSUME DOMAIN runs' = DOMAIN runs
  PROVE  Fits
<1>1. AddedOpen = {}
  BY DEF AddedOpen, Added
<1> QED
  BY <1>1, FS_EmptySet DEF Fits

\* One row added: if it is open there was room for it.
LEMMA RowFits ==
  ASSUME LedgerAssumption, TypeOK, NEW row, runs' = Append(runs, row),
         row.status \in OpenStatus => Cardinality(OpenRows) < MaxConcurrent
  PROVE  Fits
<1>1. Added = {Len(runs) + 1} /\ runs'[Len(runs) + 1] = row
  <2>1. runs \in Seq(Run) /\ Len(runs) \in Nat /\ DOMAIN runs = 1..Len(runs)
    BY DEF TypeOK
  <2>2. DOMAIN runs' = 1..(Len(runs) + 1) /\ runs'[Len(runs) + 1] = row
    BY <2>1
  <2> QED
    BY <2>1, <2>2 DEF Added
<1>2. CASE row.status \in OpenStatus
  <2>1. AddedOpen = {Len(runs) + 1}
    BY <1>1, <1>2 DEF AddedOpen
  <2>2. IsFiniteSet(AddedOpen) /\ Cardinality(AddedOpen) = 1
    BY <2>1, FS_Singleton
  <2>3. Cardinality(OpenRows) \in Nat /\ MaxConcurrent \in Nat
    BY OpenRowsFinite DEF LedgerAssumption
  <2> QED
    BY <1>2, <2>2, <2>3 DEF Fits
<1>3. CASE row.status \notin OpenStatus
  <2>1. AddedOpen = {}
    BY <1>1, <1>3 DEF AddedOpen
  <2> QED
    BY <2>1, FS_EmptySet DEF Fits
<1> QED
  BY <1>2, <1>3

\* A reservation means that there was room, for it and for what is ahead of it.
LEMMA ReservedHasRoom ==
  ASSUME LedgerAssumption, TypeOK, NEW d, NEW ahead \in Nat,
         CapacityStatus(d, ahead) \in OpenStatus
  PROVE  Cardinality(OpenRows) + ahead < MaxConcurrent
BY OpenRowsFinite DEF CapacityStatus, OpenStatus, LedgerAssumption

LEMMA SmallerBefore ==
  ASSUME LedgerAssumption, NEW S \in SUBSET Defs, NEW d \in S, NEW e \in S, Rank[d] < Rank[e]
  PROVE  /\ Cardinality(Before(S, d)) \in Nat /\ Cardinality(Before(S, e)) \in Nat
         /\ Cardinality(Before(S, d)) < Cardinality(Before(S, e))
<1>1. IsFiniteSet(Before(S, d)) /\ IsFiniteSet(Before(S, e))
  <2>1. IsFiniteSet(Defs) /\ Before(S, d) \subseteq Defs /\ Before(S, e) \subseteq Defs
    BY DEF LedgerAssumption, Before
  <2> QED
    BY <2>1, FS_Subset
<1>2. \A x \in Defs : Rank[x] \in Nat
  BY DEF LedgerAssumption
<1>3. d \notin Before(S, d) /\ Before(S, d) \cup {d} \subseteq Before(S, e)
  BY <1>2 DEF Before
<1>4. /\ IsFiniteSet(Before(S, d) \cup {d})
      /\ Cardinality(Before(S, d) \cup {d}) = Cardinality(Before(S, d)) + 1
  BY <1>1, <1>3, FS_AddElement
<1>5. Cardinality(Before(S, d) \cup {d}) <= Cardinality(Before(S, e))
  BY <1>1, <1>3, FS_Subset
<1>6. Cardinality(Before(S, d)) \in Nat /\ Cardinality(Before(S, e)) \in Nat
  BY <1>1, FS_CardinalityType
<1> QED
  BY <1>4, <1>5, <1>6

\* The candidates that a batch reserves take different places among the eligible ones,
\* all of them below the capacity that was left.
LEMMA BatchFits ==
  ASSUME LedgerAssumption, TypeOK,
         NEW definitions \in [Defs -> Definition],
         NEW D \in SUBSET Defs, NEW due \in [D -> 0..clock],
         AdmitBatch(definitions, due)
  PROVE  Fits
<1> DEFINE fresh    == Fresh(definitions, due)
           n        == Cardinality(fresh)
           eligible == {e \in fresh : ~ Missed(due, e) /\ ~ Overlaps(e)}
           place(d) == Cardinality(Before(eligible, d))
           left     == MaxConcurrent - Cardinality(OpenRows)
<1>0. BatchAdded(definitions, due, fresh, n)
  BY BatchShape
<1>1. PICK order \in [1..n -> fresh] :
        /\ Ascending(order)
        /\ runs' \in Seq(Run) /\ Len(runs') = Len(runs) + n
        /\ \A i \in DOMAIN runs : i \in DOMAIN runs' /\ runs'[i] = runs[i]
        /\ \A i \in DOMAIN runs' \ DOMAIN runs :
             /\ i - Len(runs) \in 1..n
             /\ runs'[i] = BatchRow(definitions, due, order[i - Len(runs)])
  BY <1>0 DEF BatchAdded
<1>2. /\ n \in Nat /\ Len(runs) \in Nat /\ fresh \subseteq Defs
      /\ Cardinality(OpenRows) \in Nat /\ MaxConcurrent \in Nat /\ left \in Int
  <2>1. n \in Nat
    BY <1>0 DEF BatchAdded
  <2>2. fresh \subseteq D
    BY DEF Fresh
  <2>3. Cardinality(OpenRows) \in Nat /\ MaxConcurrent \in Nat
    BY OpenRowsFinite DEF LedgerAssumption
  <2>4. Len(runs) \in Nat
    BY DEF TypeOK
  <2> QED
    BY <2>1, <2>2, <2>3, <2>4
<1>3. eligible \in SUBSET Defs
  BY <1>2
<1>4. ASSUME NEW d \in fresh, BatchRow(definitions, due, d).status \in OpenStatus
      PROVE  d \in eligible /\ place(d) \in 0..(left - 1)
  <2>1. /\ ~ Missed(due, d) /\ CapacityStatus(d, place(d)) \in OpenStatus
    BY <1>4, NewRunFields DEF BatchRow, Verdict, OpenStatus
  <2>2. d \in eligible
    BY <2>1, ReservedIsFresh
  <2>3. place(d) \in Nat
    <3>1. IsFiniteSet(Defs) /\ Before(eligible, d) \subseteq Defs
      BY <1>3 DEF LedgerAssumption, Before
    <3> QED
      BY <3>1, FS_Subset, FS_CardinalityType
  <2>4. Cardinality(OpenRows) + place(d) < MaxConcurrent
    BY <2>1, <2>3, ReservedHasRoom
  <2> QED
    BY <1>2, <2>2, <2>3, <2>4
<1> HIDE DEF fresh, n, eligible, place, left
<1> DEFINE f == [i \in AddedOpen |-> place(order[i - Len(runs)])]
<1>5. ASSUME NEW i \in AddedOpen
      PROVE  /\ i \in Int /\ i - Len(runs) \in 1..n
             /\ order[i - Len(runs)] \in eligible
             /\ place(order[i - Len(runs)]) \in 0..(left - 1)
  <2>1. i \in DOMAIN runs' \ DOMAIN runs /\ runs'[i].status \in OpenStatus
    BY DEF AddedOpen, Added
  <2>2. i \in Int
    BY <1>1, <2>1
  <2> QED
    BY <1>1, <1>4, <2>1, <2>2
<1>6. ASSUME NEW i \in AddedOpen, NEW j \in AddedOpen, i < j
      PROVE  f[i] # f[j]
  <2>1. /\ i - Len(runs) \in 1..n /\ j - Len(runs) \in 1..n
        /\ i - Len(runs) < j - Len(runs)
    BY <1>2, <1>5, <1>6
  <2>2. Rank[order[i - Len(runs)]] < Rank[order[j - Len(runs)]]
    BY <1>1, <2>1 DEF Ascending
  <2>3. /\ place(order[i - Len(runs)]) < place(order[j - Len(runs)])
        /\ place(order[i - Len(runs)]) \in Nat /\ place(order[j - Len(runs)]) \in Nat
    BY <1>3, <1>5, <2>2, SmallerBefore DEF place
  <2> QED
    BY <2>3
<1>7. f \in Injection(AddedOpen, 0..(left - 1))
  <2>1. f \in [AddedOpen -> 0..(left - 1)]
    BY <1>5
  <2>2. \A i, j \in AddedOpen : i < j \/ j < i \/ i = j
    BY <1>5
  <2>3. ASSUME NEW i \in AddedOpen, NEW j \in AddedOpen, f[i] = f[j] PROVE i = j
    <3>1. CASE i < j
      BY <1>6, <2>3, <3>1
    <3>2. CASE j < i
      BY <1>6, <2>3, <3>2
    <3> QED
      BY <2>2, <3>1, <3>2
  <2> HIDE DEF f
  <2>4. DOMAIN f = AddedOpen
    BY <2>1
  <2> QED
    BY <2>1, <2>3, <2>4 DEF Injection, IsInjective
<1>8. /\ IsFiniteSet(0..(left - 1))
      /\ 0 <= left - 1 => Cardinality(0..(left - 1)) = left
  <2>1. /\ IsFiniteSet(0..(left - 1))
        /\ Cardinality(0..(left - 1)) = IF 0 > left - 1 THEN 0 ELSE (left - 1) - 0 + 1
    <3>1. left - 1 \in Int /\ 0 \in Int
      BY <1>2
    <3> QED
      BY <3>1, FS_Interval
  <2> QED
    BY <1>2, <2>1
<1>9. IsFiniteSet(AddedOpen) /\ Cardinality(AddedOpen) <= Cardinality(0..(left - 1))
  BY <1>7, <1>8, FS_Injection
<1>10. Cardinality(AddedOpen) \in Nat
  BY <1>9, FS_CardinalityType
<1>11. CASE AddedOpen = {}
  BY <1>9, <1>11 DEF Fits
<1>12. CASE AddedOpen # {}
  <2>1. 0 <= left - 1
    BY <1>2, <1>5, <1>12
  <2>2. Cardinality(AddedOpen) <= left
    BY <1>2, <1>8, <1>9, <2>1
  <2>3. Cardinality(OpenRows) + Cardinality(AddedOpen) <= MaxConcurrent
    BY <1>2, <1>10, <2>2 DEF left
  <2> QED
    BY <1>9, <2>3 DEF Fits
<1> QED
  BY <1>11, <1>12

\* A refusal adds no open row.
LEMMA RefusalFits ==
  ASSUME LedgerAssumption, TypeOK, NEW definition, NEW trigger, NEW status \in Refusals,
         NEW reason, RecordRefusal(definition, trigger, status, reason)
  PROVE  Fits
<1> DEFINE row == [NewRun(definition, trigger, status) EXCEPT !.outcome = OutcomeOf(status)]
<1>1. CASE DOMAIN runs' = DOMAIN runs
  BY <1>1, NothingFits
<1>2. CASE runs' = Append(runs, row)
  <2>1. row.status = status
    BY DEF NewRun
  <2>2. row.status \notin OpenStatus
    BY <2>1 DEF Refusals, OpenStatus
  <2> HIDE DEF row
  <2> QED
    BY <1>2, <2>2, RowFits
<1> QED
  BY <1>1, <1>2 DEF RecordRefusal

LEMMA EventFits ==
  ASSUME LedgerAssumption, TypeOK, NEW definition, NEW trigger, AdmitEvent(definition, trigger)
  PROVE  Fits
<1> DEFINE answer == EventAnswer(definition, trigger)
           row    == NewRun(definition, trigger, "reserved")
<1>1. CASE answer = "reserved"
  <2>1. runs' = Append(runs, row)
    BY <1>1 DEF AdmitEvent
  <2>2. Cardinality(OpenRows) + 0 < MaxConcurrent
    BY <1>1, ReservedHasRoom DEF EventAnswer, OpenStatus
  <2> HIDE DEF row
  <2> QED
    BY <2>1, <2>2, RowFits, OpenRowsFinite
<1>2. CASE answer # "reserved"
  <2>1. answer \in Refusals
    BY <1>2, CapacityStatusType DEF EventAnswer, Refusals
  <2>2. RecordRefusal(definition, trigger, answer, answer)
    BY <1>2 DEF AdmitEvent
  <2> QED
    BY <2>1, <2>2, RefusalFits
<1> QED
  BY <1>1, <1>2

LEMMA AdmitFits ==
  ASSUME LedgerAssumption, TypeOK, Admit
  PROVE  Fits
<1>1. ASSUME NEW definitions \in [Defs -> Definition],
             NEW D \in SUBSET Defs, NEW due \in [D -> 0..clock],
             AdmitBatch(definitions, due)
      PROVE  Fits
  BY <1>1, BatchFits
<1>2. ASSUME NEW definition \in Definition, AdmitManual(definition) PROVE Fits
  <2> DEFINE status == CapacityStatus(definition.id, 0)
             row    == NewRun(definition, [kind |-> "manual"], status)
  <2>1. runs' = Append(runs, row) /\ row.status = status
    BY <1>2, NewRunFields DEF AdmitManual
  <2>2. status \in OpenStatus => Cardinality(OpenRows) + 0 < MaxConcurrent
    BY ReservedHasRoom
  <2> HIDE DEF row, status
  <2> QED
    BY <2>1, <2>2, RowFits, OpenRowsFinite
<1>3. ASSUME NEW definition, NEW trigger, AdmitEvent(definition, trigger) PROVE Fits
  BY <1>3, EventFits
<1>4. ASSUME NEW definition, NEW trigger, NEW reason,
             RecordEventRefusal(definition, trigger, reason)
      PROVE  Fits
  BY <1>4, RefusalFits DEF RecordEventRefusal, Refusals
<1> QED
  BY <1>1, <1>2, <1>3, <1>4 DEF Admit

LEMMA StepFits ==
  ASSUME LedgerAssumption, TypeOK, [Next]_vars
  PROVE  Fits
<1>1. CASE Admit
  BY <1>1, AdmitFits
<1>2. ASSUME NEW i \in Ids, Execute(i) \/ Publish(i) PROVE DOMAIN runs' = DOMAIN runs
  BY <1>2 DEF Execute, Publish, ClaimDispatch, Transition, RecordTriageDecision,
              ClaimPublication, SupersedePublication, SettleOutcome, ClaimNotification,
              SettleNotification, TypeOK
<1>3. CASE InterruptOpen \/ Prune \/ Tick \/ StepBack \/ UNCHANGED vars
  <2>1. DOMAIN runs' = DOMAIN runs
    BY <1>3 DEF InterruptOpen, Prune, Tick, StepBack, vars, ledger
  <2> QED
    BY <2>1, NothingFits
<1> QED
  BY <1>1, <1>2, <1>3, NothingFits DEF Next, Mutation

LEMMA CapacityStep ==
  ASSUME LedgerAssumption, LedgerInv, OpenWithinCapacity, [Next]_vars
  PROVE  OpenWithinCapacity'
<1>1. TypeOK /\ TypeOK' /\ Disciplined /\ Fits
  BY InvStep, StepDisciplined, StepFits DEF LedgerInv
<1>2. OpenRows' \subseteq OpenRows \cup AddedOpen
  <2> SUFFICES ASSUME NEW i \in OpenRows', i \notin Added PROVE i \in OpenRows
    BY DEF AddedOpen, Added, OpenRows, Rows, IsOpen
  <2>1. i \in DOMAIN runs /\ i \notin pruned' /\ runs'[i].status \in OpenStatus
        /\ i \in DOMAIN runs'
    BY DEF OpenRows, Rows, IsOpen, Added
  <2>2. runs[i].status \in Status /\ runs'[i].status \in Status
    <3>1. runs[i] \in Run /\ runs'[i] \in Run
      BY <1>1, <2>1 DEF TypeOK
    <3> QED
      BY <3>1 DEF Run
  <2>3. runs[i].status \in OpenStatus
    BY <1>1, <2>1, <2>2, MovesFacts DEF Disciplined, KeepsRows, Onward
  <2> QED
    BY <1>1, <2>1, <2>3 DEF Disciplined, KeepsTables, OpenRows, Rows, IsOpen
<1>3. IsFiniteSet(OpenRows) /\ IsFiniteSet(AddedOpen)
  BY <1>1, OpenRowsFinite DEF Fits
<1>4. /\ IsFiniteSet(OpenRows \cup AddedOpen)
      /\ Cardinality(OpenRows \cup AddedOpen)
           = Cardinality(OpenRows) + Cardinality(AddedOpen) - Cardinality(OpenRows \cap AddedOpen)
  BY <1>3, FS_Union
<1>5. Cardinality(OpenRows') <= Cardinality(OpenRows \cup AddedOpen)
  BY <1>2, <1>4, FS_Subset
<1>6. /\ Cardinality(OpenRows) \in Nat /\ Cardinality(AddedOpen) \in Nat
      /\ Cardinality(OpenRows \cap AddedOpen) \in Nat
      /\ Cardinality(OpenRows') \in Nat /\ MaxConcurrent \in Nat
  <2>1. IsFiniteSet(OpenRows \cap AddedOpen) /\ IsFiniteSet(OpenRows')
    BY <1>2, <1>3, <1>4, FS_Intersection, FS_Subset
  <2> QED
    BY <1>3, <2>1, FS_CardinalityType DEF LedgerAssumption
<1>7. CASE AddedOpen = {}
  <2>1. OpenRows \cup AddedOpen = OpenRows
    BY <1>7
  <2>2. Cardinality(OpenRows') <= Cardinality(OpenRows)
    BY <1>5, <2>1
  <2>3. Cardinality(OpenRows) <= MaxConcurrent
    BY DEF OpenWithinCapacity
  <2>4. Cardinality(OpenRows') <= MaxConcurrent
    BY <1>6, <2>2, <2>3
  <2> QED
    BY <2>4 DEF OpenWithinCapacity
<1>8. CASE Cardinality(OpenRows) + Cardinality(AddedOpen) <= MaxConcurrent
  BY <1>4, <1>5, <1>6, <1>8 DEF OpenWithinCapacity
<1> QED
  BY <1>1, <1>7, <1>8 DEF Fits

\* max_concurrent_runs holds for every mix of batches, events and Run Now
\* (admission.rs, reserve_in): whatever the order of admissions, no more runs are open.
THEOREM CapacityHolds == Spec => []OpenWithinCapacity
<1>1. Init => OpenWithinCapacity
  <2>1. Init => OpenRows = {}
    BY DEF Init, OpenRows, Rows
  <2>2. MaxConcurrent \in Nat
    BY LedgerAssumption DEF LedgerAssumption
  <2> QED
    BY <2>1, <2>2, FS_EmptySet DEF OpenWithinCapacity
<1>2. LedgerInv /\ OpenWithinCapacity /\ [Next]_vars => OpenWithinCapacity'
  BY CapacityStep, LedgerAssumption
<1> QED
  BY <1>1, <1>2, InvCorrect, PTL DEF Spec

-----------------------------------------------------------------------------
(***************************************************************************)
(* Events in the ledger: each starts at most one run, and each refusal has  *)
(* one row.  As far as events are concerned a step of the ledger does one   *)
(* of four things: nothing, an admission that consumes a key, a refusal     *)
(* that is recorded for the first time, or retention.  EventOnce and        *)
(* RefusalsCoalesce are each inductive over these four, with LedgerInv.     *)
(***************************************************************************)

\* What admit_event inserts into automation_event_keys for the run it reserves.
KeyOf(run)    == <<Namespace(run.definition.id, run.trigger), run.trigger>>
Admitted(run) == HasEventKey(run.trigger) /\ run.status \notin Refusals

Last == Len(runs) + 1

LeavesEvents ==
  /\ UNCHANGED <<keys, decisions, pruned>>
  /\ \A i \in Added : ~ HasEventKey(runs'[i].trigger)
AdmitsEvent ==
  /\ UNCHANGED <<decisions, pruned>>
  /\ Added = {Last} /\ Admitted(runs'[Last])
  /\ KeyOf(runs'[Last]) \notin keys /\ keys' = keys \cup {KeyOf(runs'[Last])}
RefusesEvent ==
  /\ UNCHANGED <<keys, pruned>>
  /\ Added = {Last} /\ HasEventKey(runs'[Last].trigger) /\ runs'[Last].status \in Refusals
  /\ \E x : /\ decisions' = decisions \cup {x} /\ x.id = Last
            /\ \A y \in decisions :
                 ~ (y.def = x.def /\ y.trigger = x.trigger /\ y.reason = x.reason)

-----------------------------------------------------------------------------
(* What the steps do. *)

LEMMA AppendAdds ==
  ASSUME TypeOK, NEW row, runs' = Append(runs, row)
  PROVE  Added = {Last} /\ runs'[Last] = row
BY DEF TypeOK, Added, Last

LEMMA HasKey ==
  ASSUME NEW trigger \in EventTrigger
  PROVE  HasEventKey(trigger)
BY DEF EventTrigger, Event, Triage, PrReview, HasEventKey

\* record_refusal_in rewrites the row of an earlier decision, or adds both.
LEMMA RefusalEvents ==
  ASSUME LedgerInv, NEW definition, NEW trigger \in EventTrigger, NEW status \in Refusals,
         NEW reason, RecordRefusal(definition, trigger, status, reason),
         UNCHANGED <<keys, pruned>>
  PROVE  LeavesEvents \/ RefusesEvent
<1> DEFINE same == {x \in decisions : x.def = definition.id /\ x.trigger = trigger
                                        /\ x.reason = reason}
<1>1. TypeOK
  BY DEF LedgerInv
<1>2. CASE same # {}
  <2>1. UNCHANGED decisions /\ DOMAIN runs' = DOMAIN runs
    BY <1>2 DEF RecordRefusal
  <2> QED
    BY <2>1 DEF LeavesEvents, Added
<1>3. CASE same = {}
  <2> DEFINE row == [NewRun(definition, trigger, status) EXCEPT !.outcome = OutcomeOf(status)]
             x   == [def |-> definition.id, trigger |-> trigger, reason |-> reason, id |-> Last]
  <2>1. runs' = Append(runs, row) /\ decisions' = decisions \cup {x}
    BY <1>3 DEF RecordRefusal, Last
  <2>2. row.trigger = trigger /\ row.status = status
    BY DEF NewRun
  <2>3. \A y \in decisions : ~ (y.def = x.def /\ y.trigger = x.trigger /\ y.reason = x.reason)
    BY <1>3
  <2>4. x.id = Last
    OBVIOUS
  <2> HIDE DEF row, x
  <2> QED
    BY <1>1, <2>1, <2>2, <2>3, <2>4, AppendAdds, HasKey DEF RefusesEvent
<1> QED
  BY <1>2, <1>3

LEMMA AdmitEvents ==
  ASSUME LedgerAssumption, LedgerInv, Admit
  PROVE  LeavesEvents \/ AdmitsEvent \/ RefusesEvent
<1>1. TypeOK
  BY DEF LedgerInv
<1>2. ASSUME NEW definitions \in {f \in [Defs -> Definition] : \A d \in Defs : f[d].id = d},
             NEW D \in SUBSET Defs, NEW due \in [D -> 0..clock],
             AdmitBatch(definitions, due)
      PROVE  LeavesEvents
  <2> DEFINE fresh == Fresh(definitions, due)
             n     == Cardinality(fresh)
  <2>1. BatchAdded(definitions, due, fresh, n)
    BY <1>1, <1>2, BatchShape
  <2>2. ASSUME NEW i \in Added PROVE runs'[i].trigger.kind = "scheduled"
    <3>1. \E d : runs'[i] = BatchRow(definitions, due, d)
      BY <2>1, <2>2 DEF BatchAdded, Added
    <3> QED
      BY <3>1 DEF BatchRow, NewRun
  <2>3. UNCHANGED <<keys, decisions, pruned>>
    BY <1>2 DEF AdmitBatch
  <2> QED
    BY <2>2, <2>3 DEF LeavesEvents, HasEventKey
<1>3. ASSUME NEW definition \in Definition, AdmitManual(definition)
      PROVE  LeavesEvents
  <2>1. PICK row : row.trigger.kind = "manual" /\ runs' = Append(runs, row)
    BY <1>3 DEF AdmitManual, NewRun
  <2> QED
    BY <1>1, <1>3, <2>1, AppendAdds DEF AdmitManual, LeavesEvents, HasEventKey
<1>4. ASSUME NEW definition \in Definition, NEW trigger \in EventTrigger,
             AdmitEvent(definition, trigger)
      PROVE  LeavesEvents \/ AdmitsEvent \/ RefusesEvent
  <2> DEFINE answer == EventAnswer(definition, trigger)
  <2>1. CASE answer = "reserved"
    <3> DEFINE row == NewRun(definition, trigger, "reserved")
    <3>1. /\ runs' = Append(runs, row) /\ UNCHANGED <<decisions, pruned>>
          /\ keys' = keys \cup {<<Namespace(definition.id, trigger), trigger>>}
      BY <1>4, <2>1 DEF AdmitEvent
    <3>2. row.definition = definition /\ row.trigger = trigger /\ row.status = "reserved"
      BY NewRunFields
    <3>3. <<Namespace(definition.id, trigger), trigger>> \notin keys
      BY <2>1 DEF EventAnswer
    <3> HIDE DEF row
    <3>4. Added = {Last} /\ runs'[Last] = row
      BY <1>1, <3>1, AppendAdds
    <3> QED
      BY <3>1, <3>2, <3>3, <3>4, HasKey DEF AdmitsEvent, Admitted, KeyOf, Refusals
  <2>2. CASE answer # "reserved"
    <3>1. RecordRefusal(definition, trigger, answer, answer) /\ UNCHANGED <<keys, pruned>>
      BY <1>4, <2>2 DEF AdmitEvent
    <3>2. answer \in Refusals
      BY <2>2, CapacityStatusType DEF EventAnswer, Refusals
    <3> QED
      BY <3>1, <3>2, RefusalEvents
  <2> QED
    BY <2>1, <2>2
<1>5. ASSUME NEW definition \in Definition, NEW trigger \in Event,
             NEW reason \in FilterReasons, RecordEventRefusal(definition, trigger, reason)
      PROVE  LeavesEvents \/ RefusesEvent
  <2>1. trigger \in EventTrigger /\ "skipped_filtered" \in Refusals
    BY TriggerKinds DEF Refusals
  <2> QED
    BY <1>5, <2>1, RefusalEvents DEF RecordEventRefusal
<1> QED
  BY <1>2, <1>3, <1>4, <1>5 DEF Admit

LEMMA StepEvents ==
  ASSUME LedgerAssumption, LedgerInv, [Next]_vars
  PROVE  LeavesEvents \/ AdmitsEvent \/ RefusesEvent \/ Prune
<1>1. ASSUME NEW i \in Ids, Execute(i) \/ Publish(i) PROVE LeavesEvents
  <2>1. UNCHANGED <<keys, decisions, pruned>> /\ DOMAIN runs' = DOMAIN runs
    BY <1>1 DEF Execute, ClaimDispatch, Transition, RecordTriageDecision, Publish,
                ClaimPublication, SupersedePublication, SettleOutcome, ClaimNotification,
                SettleNotification
  <2> QED
    BY <2>1 DEF LeavesEvents, Added
<1>2. ASSUME InterruptOpen \/ Tick \/ StepBack \/ UNCHANGED vars PROVE LeavesEvents
  BY <1>2 DEF InterruptOpen, Tick, StepBack, vars, ledger, LeavesEvents, Added
<1> QED
  BY <1>1, <1>2, AdmitEvents DEF Next, Mutation

-----------------------------------------------------------------------------
(* The theorems. *)

\* Rows keep what identifies their event, and whether they are a refusal.
LEMMA RowsKept ==
  ASSUME LedgerAssumption, LedgerInv, [Next]_vars
  PROVE  /\ DOMAIN runs' = DOMAIN runs \cup Added /\ DOMAIN runs \cap Added = {}
         /\ \A i \in DOMAIN runs :
              /\ runs'[i].trigger = runs[i].trigger /\ KeyOf(runs'[i]) = KeyOf(runs[i])
              /\ runs'[i].status \in Refusals <=> runs[i].status \in Refusals
<1>1. KeepsRows
  BY StepDisciplined DEF Disciplined
<1> QED
  BY <1>1 DEF KeepsRows, Onward, KeyOf, Added

LEMMA EventOnceStep ==
  ASSUME LedgerAssumption, LedgerInv, EventOnce, [Next]_vars
  PROVE  EventOnce'
<1> DEFINE rows == {i \in DOMAIN runs : Admitted(runs[i])}
           more == {i \in Added : Admitted(runs'[i])}
<1>1. /\ keys = {KeyOf(runs[i]) : i \in rows}
      /\ \A i, j \in rows : KeyOf(runs[i]) = KeyOf(runs[j]) => i = j
  BY DEF EventOnce, KeyOf, Admitted, Refused
<1>2. /\ {i \in DOMAIN runs' : Admitted(runs'[i])} = rows \cup more
      /\ \A i \in rows : KeyOf(runs'[i]) = KeyOf(runs[i])
  BY RowsKept DEF Admitted
<1>3. /\ keys' = keys \cup {KeyOf(runs'[i]) : i \in more}
      /\ \A i \in more : KeyOf(runs'[i]) \notin keys
      /\ \A i, j \in more : i = j
  <2>1. CASE LeavesEvents \/ RefusesEvent \/ Prune
    <3>1. keys' = keys
      BY <2>1 DEF LeavesEvents, RefusesEvent, Prune
    <3>2. more = {}
      BY <2>1 DEF LeavesEvents, RefusesEvent, Prune, Added, Admitted
    <3> QED
      BY <3>1, <3>2
  <2>2. CASE AdmitsEvent
    <3>1. more = {Last}
      BY <2>2 DEF AdmitsEvent
    <3> QED
      BY <2>2, <3>1 DEF AdmitsEvent
  <2> QED
    BY <2>1, <2>2, StepEvents
<1> DEFINE all == {i \in DOMAIN runs' : Admitted(runs'[i])}
<1>4. keys' = {KeyOf(runs'[i]) : i \in all}
  BY <1>1, <1>2, <1>3
<1>5. \A i, j \in all : KeyOf(runs'[i]) = KeyOf(runs'[j]) => i = j
  BY <1>1, <1>2, <1>3
<1> QED
  BY <1>4, <1>5 DEF EventOnce, KeyOf, Admitted, Refused

LEMMA CoalesceStep ==
  ASSUME LedgerAssumption, LedgerInv, RefusalsCoalesce, [Next]_vars
  PROVE  RefusalsCoalesce'
<1> DEFINE Named(R)  == {x.id : x \in R}
           refused   == {i \in DOMAIN runs : HasEventKey(runs[i].trigger)
                                             /\ runs[i].status \in Refusals}
           more      == {i \in Added : HasEventKey(runs'[i].trigger)
                                       /\ runs'[i].status \in Refusals}
           Single(R) == \A x, y \in R :
             (x.id = y.id \/ (x.def = y.def /\ x.trigger = y.trigger /\ x.reason = y.reason))
             => x = y
<1>1. Named(decisions) = refused \ pruned /\ Single(decisions)
  BY DEF RefusalsCoalesce, Refused, Rows
<1>2. {i \in DOMAIN runs' : HasEventKey(runs'[i].trigger) /\ runs'[i].status \in Refusals}
        = refused \cup more
  BY RowsKept
<1>3. Added \cap pruned = {} /\ Added \cap DOMAIN runs = {} /\ Last \notin DOMAIN runs
  BY DEF LedgerInv, TypeOK, Added, Last
<1>4. Named(decisions') = (refused \cup more) \ pruned' /\ Single(decisions')
  <2>1. CASE LeavesEvents \/ AdmitsEvent
    <3>1. decisions' = decisions /\ pruned' = pruned
      BY <2>1 DEF LeavesEvents, AdmitsEvent
    <3>2. more = {}
      BY <2>1 DEF LeavesEvents, AdmitsEvent, Admitted
    <3> QED
      BY <1>1, <3>1, <3>2
  <2>2. CASE RefusesEvent
    <3>1. PICK x : /\ decisions' = decisions \cup {x} /\ x.id = Last
                   /\ \A y \in decisions :
                        ~ (y.def = x.def /\ y.trigger = x.trigger /\ y.reason = x.reason)
      BY <2>2 DEF RefusesEvent
    <3>2. more = {Last} /\ Last \in Added /\ pruned' = pruned
      BY <2>2 DEF RefusesEvent
    <3>3. \A y \in decisions : y.id # Last
      BY <1>1, <1>3
    <3>4. Named(decisions') = Named(decisions) \cup {Last}
      BY <3>1
    <3>5. Single(decisions')
      BY <1>1, <3>1, <3>3
    <3> QED
      BY <1>1, <1>3, <3>2, <3>4, <3>5
  <2>3. CASE Prune
    <3>1. PICK old : /\ pruned' = pruned \cup old
                     /\ decisions' = {x \in decisions : x.id \notin old}
      BY <2>3 DEF Prune
    <3>2. more = {}
      BY <2>3 DEF Prune, Added
    <3>3. Named(decisions') = Named(decisions) \ old
      BY <3>1
    <3> QED
      BY <1>1, <3>1, <3>2, <3>3
  <2> QED
    BY <2>1, <2>2, <2>3, StepEvents
<1> QED
  BY <1>2, <1>4 DEF RefusalsCoalesce, Refused, Rows

\* An event never starts a second run, not even when retention has deleted the
\* first one: the key is consumed by admit_event's own transaction and stays.
THEOREM EventsStartOnce == Spec => []EventOnce
<1>1. Init => EventOnce
  BY DEF Init, EventOnce
<1>2. LedgerInv /\ EventOnce /\ [Next]_vars => EventOnce'
  BY EventOnceStep, LedgerAssumption
<1> QED
  BY <1>1, <1>2, InvCorrect, PTL DEF Spec

\* However often an event is refused, its history is one row per definition and
\* reason, and retention deletes the row with its decision (record_refusal_in).
THEOREM RefusalsKeptOnce == Spec => []RefusalsCoalesce
<1>1. Init => RefusalsCoalesce
  BY DEF Init, RefusalsCoalesce, Rows
<1>2. LedgerInv /\ RefusalsCoalesce /\ [Next]_vars => RefusalsCoalesce'
  BY CoalesceStep, LedgerAssumption
<1> QED
  BY <1>1, <1>2, InvCorrect, PTL DEF Spec
=============================================================================
