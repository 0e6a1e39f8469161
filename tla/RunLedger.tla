------------------------------ MODULE RunLedger ------------------------------
(***************************************************************************)
(* The owner-guarded automation run ledger: src-tauri/src/automations/store *)
(* (store.rs and store/*.rs).  Every public mutator is one SQLite IMMEDIATE *)
(* transaction, so every mutator is one action here.  The specification     *)
(* Spec lets any caller of the one owning process call any mutator at any   *)
(* time; module AutomationRuntime composes the same actions with the        *)
(* callers the program really has.                                          *)
(*                                                                          *)
(* A row is never removed from `runs': prune moves its id to `pruned', and  *)
(* every query below reads Rows only, so that a property can still speak of *)
(* what was admitted and later deleted.  Run ids are positions in `runs'    *)
(* (the code's UUIDv7 ids are unique and ordered by creation).              *)
(***************************************************************************)
EXTENDS Integers, Sequences, FiniteSets

CONSTANTS
  Defs,        \* definition ids of automations.json
  Rank,        \* their order in the file, Rank[d] \in Nat
  Revs,        \* contents a definition can have: an edit changes its revision
  Issues,      \* identities of issue events, after the case folding of event_key
  Prs,         \* pull requests under review
  Shas,        \* head commits of those pull requests
  NoSha,       \* no head recorded
  FilterReasons, \* why intake filters an issue out before admission
  Slots,       \* (transition, channel) pairs of the delivery table
  MaxConcurrent, \* config.max_concurrent_runs
  Grace,       \* definition.grace_secs
  Retention,   \* days of history kept by prune
  MaxRuns,     \* bound: rows ever inserted
  MaxTime,     \* bound: the wall clock stops here
  ClockRegress, \* may the wall clock step back (NTP, a manual change)?
  KeepStamps,  \* are the updated_ms stamps of the rows kept?
  Targets      \* statuses the callers of transition ask for

(* Run statuses: a refusal is the final status of a row that was never admitted. *)
OpenStatus  == {"reserved", "prechecking", "running", "needs_you"}
Refusals    == {"skipped_overlap", "skipped_concurrency", "skipped_filtered",
                "skipped_duplicate"}
FinalStatus == {"completed", "failed", "unknown", "timed_out", "interrupted",
                "skipped_precheck", "skipped_missed"} \cup Refusals
Status      == OpenStatus \cup FinalStatus

ASSUME LedgerAssumption ==
  /\ MaxConcurrent \in Nat \ {0}
  /\ Grace \in Nat /\ Retention \in Nat \ {0}
  /\ MaxRuns \in Nat /\ MaxTime \in Nat
  /\ ClockRegress \in BOOLEAN /\ KeepStamps \in BOOLEAN
  /\ ClockRegress => KeepStamps
  /\ Rank \in [Defs -> Nat]
  /\ \A d, e \in Defs : Rank[d] = Rank[e] => d = e
  /\ IsFiniteSet(Defs) /\ NoSha \notin Shas
  /\ Targets \subseteq Status \ Refusals

VARIABLES
  runs,       \* automation_runs, in insertion order
  pruned,     \* ids of rows deleted by retention
  cursors,    \* automation_cursors: latest consumed occurrence, -1 for none
  heads,      \* automation_review_heads
  keys,       \* automation_event_keys: <<namespace, trigger>>
  decisions,  \* automation_event_decisions: refusal rows by event and reason
  deliveries, \* automation_deliveries
  clock       \* chrono::Utc::now

ledger == <<runs, pruned, cursors, heads, keys, decisions, deliveries>>
vars   == <<ledger, clock>>

-----------------------------------------------------------------------------
(* Data. *)

Definition  == [id : Defs, enabled : BOOLEAN, rev : Revs]

Scheduled   == [kind : {"scheduled"}, occ : 0..MaxTime]
Manual      == [kind : {"manual"}]
Event       == [kind : {"event"}, key : Issues]
Triage      == [kind : {"triage"}, key : Issues]
PrReview    == [kind : {"pr_review"}, pr : Prs, sha : Shas]
EventTrigger == Event \cup Triage \cup PrReview
Trigger     == Scheduled \cup Manual \cup EventTrigger

HasEventKey(t) == t.kind \in {"event", "triage", "pr_review"}

\* The namespace of an event key: an issue event belongs to its definition,
\* a triage or a review is unique whatever definition serves it.
Namespace(d, t) == IF t.kind = "event" THEN <<"definition", d>> ELSE <<t.kind>>

Settled   == {"published", "review_published", "publication_unknown",
              "publication_failed", "publication_refused", "superseded"}
Decision  == {"none", "admitted", "publication_pending"} \cup Settled \cup FinalStatus
Outcome   == [decision : Decision, intent : BOOLEAN, url : BOOLEAN]
OutcomeOf(decision) == [decision |-> decision, intent |-> FALSE, url |-> FALSE]

TriageOutcome == {"none", "accepted", "rejected", "needs_input"}

\* The deadline of a row is kept by AutomationRuntime, the only module that reads
\* it.  finished is -1 while the run is open; bound says that the session (or the
\* workflow) launched for the run is saved in its row.
Run == [definition : Definition, trigger : Trigger, status : Status,
        updated : Nat, finished : Int,
        bound : BOOLEAN, triage : TriageOutcome, outcome : Outcome]

\* Why a refusal row exists: admit_event's own four answers, and intake's filters.
Reasons       == Refusals \cup FilterReasons

DeliveryStatus == {"none", "attempted", "confirmed", "unknown"}

Ids    == 1..MaxRuns
Rows   == DOMAIN runs \ pruned
Latest(a, b) == IF a >= b THEN a ELSE b
\* updated_ms only guards against callers whose clock reading is older than the
\* row.  Where all callers read a clock that never steps back, the guard always
\* holds and the stamps need not be kept (a smaller state space).
Stamp(t) == IF KeepStamps THEN t ELSE 0
Readings == IF KeepStamps THEN 0..MaxTime ELSE {clock}

IsOpen(i) == runs[i].status \in OpenStatus
OpenRows  == {i \in Rows : IsOpen(i)}

-----------------------------------------------------------------------------
(* Reservation (store.rs reserve_in, admission.rs). *)

NewRun(definition, trigger, status) ==
  [definition |-> definition, trigger |-> trigger, status |-> status,
   updated |-> Stamp(clock),
   finished |-> IF status \in OpenStatus THEN -1 ELSE clock,
   bound |-> FALSE, triage |-> "none",
   outcome |-> OutcomeOf(IF HasEventKey(trigger) THEN "admitted" ELSE "none")]

\* Slip: a run counts as overlapping only once its agent works.
OverlapsWhenRunning(d) ==
  \E i \in OpenRows : runs[i].definition.id = d /\ runs[i].status \in {"running", "needs_you"}
Overlaps(d) == \E i \in OpenRows : runs[i].definition.id = d

\* `ahead' runs were reserved earlier in the same transaction.
CapacityStatus(d, ahead) ==
  IF Overlaps(d) THEN "skipped_overlap"
  ELSE IF Cardinality(OpenRows) + ahead >= MaxConcurrent THEN "skipped_concurrency"
  ELSE "reserved"

\* Slip: the cursor table is forgotten, only the rows still there are looked at.
ConsumedByRows(d, occ) ==
  \E i \in Rows : /\ runs[i].definition.id = d /\ runs[i].trigger.kind = "scheduled"
                 /\ occ <= runs[i].trigger.occ
\* scheduled_cursor: an occurrence is consumed if it is not after the cursor and
\* the scheduled rows still there.
Consumed(d, occ) ==
  \/ occ <= cursors[d]
  \/ \E i \in Rows : /\ runs[i].definition.id = d /\ runs[i].trigger.kind = "scheduled"
                     /\ occ <= runs[i].trigger.occ

(* admit_batch for scheduled candidates: due maps each due definition to its  *)
(* latest occurrence.  All decisions commit together, in the order of the     *)
(* file: a consumed candidate leaves no row, an occurrence older than the     *)
(* grace is missed, and the capacity left is given in order.                  *)
Fresh(definitions, due) ==
  {d \in DOMAIN due : definitions[d].enabled /\ ~ Consumed(d, due[d])}
Missed(due, d)    == clock - due[d] > Grace
Before(S, d)      == {e \in S : Rank[e] < Rank[d]}
Ascending(order)  == \A m, n \in DOMAIN order : m < n => Rank[order[m]] < Rank[order[n]]
\* Slip: each candidate of the batch sees all of the capacity.
VerdictAlone(fresh, due, d) ==
  IF Missed(due, d) THEN "skipped_missed" ELSE CapacityStatus(d, 0)
Verdict(fresh, due, d) ==
  LET eligible == {e \in fresh : ~ Missed(due, e) /\ ~ Overlaps(e)}
  IN  IF Missed(due, d) THEN "skipped_missed"
      ELSE CapacityStatus(d, Cardinality(Before(eligible, d)))
\* Slip: the row records the occurrence after the due one.
BatchRowNext(definitions, due, d) ==
  NewRun(definitions[d], [kind |-> "scheduled", occ |-> due[d] + 1],
         Verdict(Fresh(definitions, due), due, d))
BatchRow(definitions, due, d) ==
  NewRun(definitions[d], [kind |-> "scheduled", occ |-> due[d]],
         Verdict(Fresh(definitions, due), due, d))

AdmitBatch(definitions, due) ==
  LET fresh == Fresh(definitions, due) IN
  /\ Len(runs) + Cardinality(fresh) <= MaxRuns
  /\ \E order \in [1..Cardinality(fresh) -> fresh] :
       /\ Ascending(order)
       /\ runs' = runs \o [n \in 1..Cardinality(fresh) |->
                             BatchRow(definitions, due, order[n])]
  /\ cursors' = [d \in Defs |-> IF d \in fresh THEN due[d] ELSE cursors[d]]
  /\ UNCHANGED <<pruned, heads, keys, decisions, deliveries>>

\* Run Now: the same capacity decision, whatever the enabled flag says.
AdmitManual(definition) ==
  /\ Len(runs) < MaxRuns
  /\ runs' = Append(runs, NewRun(definition, [kind |-> "manual"],
                                 CapacityStatus(definition.id, 0)))
  /\ UNCHANGED <<pruned, cursors, heads, keys, decisions, deliveries>>

\* Slip: every poll of a refused event adds a row.
RecordRefusalAlways(definition, trigger, status, reason) ==
  /\ Len(runs) < MaxRuns
  /\ runs' = Append(runs, [NewRun(definition, trigger, status)
                             EXCEPT !.outcome = OutcomeOf(status)])
  /\ decisions' = decisions \cup
       {[def |-> definition.id, trigger |-> trigger, reason |-> reason, id |-> Len(runs) + 1]}

\* outcomes.rs record_refusal_in: one row per definition, event and reason.
RecordRefusal(definition, trigger, status, reason) ==
  LET same == {x \in decisions : x.def = definition.id /\ x.trigger = trigger
                                 /\ x.reason = reason}
  IN  IF same # {}
      THEN LET i == (CHOOSE x \in same : TRUE).id IN
           /\ runs' = [runs EXCEPT ![i].outcome = OutcomeOf(status),
                                   ![i].updated = Stamp(Latest(clock, @))]
           /\ UNCHANGED decisions
      ELSE /\ Len(runs) < MaxRuns
           /\ runs' = Append(runs, [NewRun(definition, trigger, status)
                                      EXCEPT !.outcome = OutcomeOf(status)])
           /\ decisions' = decisions \cup
                {[def |-> definition.id, trigger |-> trigger,
                  reason |-> reason, id |-> Len(runs) + 1]}

\* Slip: an event is a duplicate only while its run is open.
EventAnswerOpen(definition, trigger) ==
  IF \E i \in OpenRows : runs[i].trigger = trigger THEN "skipped_duplicate"
  ELSE IF ~ definition.enabled THEN "skipped_filtered"
  ELSE CapacityStatus(definition.id, 0)

\* What admit_event answers: a refusal consumes no key, so the event can be retried.
EventAnswer(definition, trigger) ==
  IF <<Namespace(definition.id, trigger), trigger>> \in keys THEN "skipped_duplicate"
  ELSE IF ~ definition.enabled THEN "skipped_filtered"
  ELSE CapacityStatus(definition.id, 0)

AdmitEvent(definition, trigger) ==
  LET answer == EventAnswer(definition, trigger) IN
  /\ heads' = IF trigger.kind = "pr_review"
              THEN [heads EXCEPT ![trigger.pr] = trigger.sha] ELSE heads
  /\ IF answer = "reserved"
     THEN /\ Len(runs) < MaxRuns
          /\ runs' = Append(runs, NewRun(definition, trigger, "reserved"))
          /\ keys' = keys \cup {<<Namespace(definition.id, trigger), trigger>>}
          /\ UNCHANGED decisions
     ELSE RecordRefusal(definition, trigger, answer, answer) /\ UNCHANGED keys
  /\ UNCHANGED <<pruned, cursors, deliveries>>

\* record_event_refusal: an issue that intake filters out before admission.
RecordEventRefusal(definition, trigger, reason) ==
  /\ RecordRefusal(definition, trigger, "skipped_filtered", reason)
  /\ UNCHANGED <<pruned, cursors, heads, keys, deliveries>>

-----------------------------------------------------------------------------
(* Execution state (mutations.rs, triage.rs). *)

\* claim_dispatch: only a fresh reservation may perform effects.
Claimable(i) == i \in Rows /\ runs[i].status = "reserved"
ClaimDispatch(i) ==
  /\ Claimable(i)
  /\ runs' = [runs EXCEPT ![i].status = "prechecking",
                          ![i].updated = Stamp(Latest(clock, @))]
  /\ UNCHANGED <<pruned, cursors, heads, keys, decisions, deliveries>>

\* A triage run that ends without a decision asks for the operator.
MissingTriageDecision(run) ==
  IF run.trigger.kind = "triage" /\ run.triage = "none" THEN "needs_input" ELSE run.triage

Backwards(i, next) ==
  \/ next = "reserved" /\ runs[i].status # next
  \/ next = "prechecking" /\ runs[i].status \in {"running", "needs_you"}

\* transition returns an error, and leaves the row alone.
TransitionError(i, next, now) ==
  \/ i \notin Rows
  \/ IsOpen(i) /\ (now < runs[i].updated \/ Backwards(i, next))

\* The row that transition writes; `binding' says that the caller saves a session.
Transitioned(run, next, binding, now) ==
  [run EXCEPT
     !.status   = next,
     !.updated  = Stamp(now),
     !.bound    = @ \/ binding,
     !.finished = IF next \in OpenStatus THEN @ ELSE now,
     !.triage   = IF next \in OpenStatus THEN @ ELSE MissingTriageDecision(run),
     !.outcome  = IF next \notin OpenStatus /\ next # "completed" /\ HasEventKey(run.trigger)
                  THEN OutcomeOf(next) ELSE @]

\* Slip: a late signal rewrites a final row.
TransitionLate(i, next, binding, now) ==
  /\ ~ TransitionError(i, next, now)
  /\ runs' = [runs EXCEPT ![i] = Transitioned(@, next, binding, now)]
  /\ UNCHANGED <<pruned, cursors, heads, keys, decisions, deliveries>>

\* The first terminal result is immutable: a later transition returns it as saved.
Transition(i, next, binding, now) ==
  /\ ~ TransitionError(i, next, now)
  /\ runs' = IF IsOpen(i) THEN [runs EXCEPT ![i] = Transitioned(@, next, binding, now)]
             ELSE runs
  /\ UNCHANGED <<pruned, cursors, heads, keys, decisions, deliveries>>

\* record_triage_decision: the bound session reports once, and that completes the run.
RecordTriageDecision(i, outcome) ==
  /\ i \in Rows
  /\ runs[i].trigger.kind = "triage" /\ runs[i].bound /\ runs[i].triage = "none"
  /\ runs[i].status \in {"running", "needs_you"}
  /\ LET at == Latest(clock, runs[i].updated) IN
     runs' = [runs EXCEPT ![i].triage = outcome, ![i].status = "completed",
                          ![i].updated = Stamp(at), ![i].finished = at]
  /\ UNCHANGED <<pruned, cursors, heads, keys, decisions, deliveries>>

(* interrupt_open, run by the process that acquires the owner lock: open runs *)
(* are interrupted and never dispatched again, a review that may have been    *)
(* posted and a send that may have arrived become unknown, in one commit.     *)
InterruptOpen ==
  LET interrupted(run) ==
        Transitioned(run, "interrupted", FALSE, Latest(clock, run.updated))
      uncertain(run) ==
        [run EXCEPT !.outcome.decision = "publication_unknown",
                    !.updated = Stamp(Latest(clock, @))]
      pendingReview(run) == run.trigger.kind = "pr_review"
                            /\ run.outcome.decision = "publication_pending"
  IN
  /\ runs' = [i \in DOMAIN runs |->
                IF i \in OpenRows THEN interrupted(runs[i])
                ELSE IF i \in Rows /\ pendingReview(runs[i]) THEN uncertain(runs[i])
                ELSE runs[i]]
  /\ deliveries' = [x \in DOMAIN deliveries |->
                      IF deliveries[x] = "attempted" THEN "unknown" ELSE deliveries[x]]
  /\ UNCHANGED <<pruned, cursors, heads, keys, decisions>>

-----------------------------------------------------------------------------
(* Publication authority and deliveries (outcomes.rs, mutations.rs). *)

\* claim_publication refuses a run whose authority was used, or never granted.
Unclaimed(i) == ~ runs[i].outcome.intent /\ runs[i].outcome.decision \in {"none", "admitted"}
Superseded(i) == LET t == runs[i].trigger IN
  t.kind = "pr_review" /\ heads[t.pr] # t.sha
MayPublish(i) == i \in Rows /\ runs[i].status = "completed" /\ HasEventKey(runs[i].trigger)

\* Slip: the claim does not look at the newest head.
ClaimPublicationAnyHead(i) ==
  /\ MayPublish(i) /\ Unclaimed(i)
  /\ runs' = [runs EXCEPT ![i].outcome = [decision |-> "publication_pending",
                                          intent |-> TRUE, url |-> FALSE]]
  /\ UNCHANGED <<pruned, cursors, heads, keys, decisions, deliveries>>

\* The claim is won, and the exact intent is saved before any request leaves.
ClaimPublication(i) ==
  /\ MayPublish(i) /\ Unclaimed(i) /\ ~ Superseded(i)
  /\ runs' = [runs EXCEPT ![i].outcome = [decision |-> "publication_pending",
                                          intent |-> TRUE, url |-> FALSE],
                          ![i].updated = Stamp(Latest(clock, @))]
  /\ UNCHANGED <<pruned, cursors, heads, keys, decisions, deliveries>>

\* The claim of a review whose head was overtaken: refused for good.
SupersedePublication(i) ==
  /\ MayPublish(i) /\ Unclaimed(i) /\ Superseded(i)
  /\ runs' = [runs EXCEPT ![i].outcome = OutcomeOf("superseded")]
  /\ UNCHANGED <<pruned, cursors, heads, keys, decisions, deliveries>>

\* Slip: a settlement starts from an empty outcome and loses the intent.
SettleOutcomeAfresh(i, decision, url) ==
  /\ i \in Rows
  /\ runs' = IF runs[i].outcome.url THEN runs
             ELSE [runs EXCEPT ![i].outcome = [OutcomeOf(decision) EXCEPT !.url = url]]
  /\ UNCHANGED <<pruned, cursors, heads, keys, decisions, deliveries>>

\* settle_outcome: a confirmed URL is final, the intent is kept.
SettleOutcome(i, decision, url) ==
  /\ i \in Rows
  /\ runs' = IF runs[i].outcome.url THEN runs
             ELSE [runs EXCEPT ![i].outcome.decision = decision, ![i].outcome.url = url,
                               ![i].updated = Stamp(Latest(clock, @))]
  /\ UNCHANGED <<pruned, cursors, heads, keys, decisions, deliveries>>

\* claim_notification: the insert that wins may send, and nobody else ever may.
NotificationClaimable(i, slot) == i \in Rows /\ deliveries[<<i, slot>>] = "none"
ClaimNotification(i, slot) ==
  /\ NotificationClaimable(i, slot)
  /\ deliveries' = [deliveries EXCEPT ![<<i, slot>>] = "attempted"]
  /\ UNCHANGED <<runs, pruned, cursors, heads, keys, decisions>>

SettleNotification(i, slot, result) ==
  /\ i \in Rows /\ deliveries[<<i, slot>>] # "none"
  /\ deliveries' = [deliveries EXCEPT ![<<i, slot>>] = IF @ = "attempted" THEN result ELSE @]
  /\ UNCHANGED <<runs, pruned, cursors, heads, keys, decisions>>

\* prune: final rows past retention, triage rows excepted; decisions and
\* deliveries go with their row, cursors, heads and event keys stay.
Prune ==
  LET old == {i \in Rows : /\ ~ IsOpen(i) /\ runs[i].trigger.kind # "triage"
                           /\ runs[i].finished < clock - Retention}
  IN  /\ pruned' = pruned \cup old
      /\ decisions' = {x \in decisions : x.id \notin old}
      /\ deliveries' = [x \in DOMAIN deliveries |->
                          IF x[1] \in old THEN "none" ELSE deliveries[x]]
      /\ UNCHANGED <<runs, cursors, heads, keys>>

-----------------------------------------------------------------------------
(* Specification: every caller, every order, under a bounded wall clock. *)

Init ==
  /\ runs = <<>> /\ pruned = {}
  /\ cursors = [d \in Defs |-> -1]
  /\ heads = [p \in Prs |-> NoSha]
  /\ keys = {} /\ decisions = {}
  /\ deliveries = [x \in Ids \X Slots |-> "none"]
  /\ clock = 0

Tick     == clock < MaxTime /\ clock' = clock + 1 /\ UNCHANGED ledger
StepBack == ClockRegress /\ clock > 0 /\ clock' = clock - 1 /\ UNCHANGED ledger

\* A binding is saved with `running' only; a caller may have read the clock earlier.
Execute(i) ==
  \/ ClaimDispatch(i)
  \/ \E next \in Targets, now \in Readings : Transition(i, next, next = "running", now)
  \/ \E outcome \in TriageOutcome \ {"none"} : RecordTriageDecision(i, outcome)

Admit ==
  \/ \E definitions \in {f \in [Defs -> Definition] : \A d \in Defs : f[d].id = d} :
       \E D \in SUBSET Defs : \E due \in [D -> 0..clock] : AdmitBatch(definitions, due)
  \/ \E definition \in Definition :
       \/ AdmitManual(definition)
       \/ \E trigger \in EventTrigger : AdmitEvent(definition, trigger)
       \/ \E trigger \in Event, reason \in FilterReasons :
            RecordEventRefusal(definition, trigger, reason)

\* settle_outcome is called for a completed event run or by its running review,
\* with a URL only after the claim (publish.rs, pr_reviews.rs, completion.rs).
Confirmed == {"published", "review_published"}
MaySettle(i, decision) ==
  /\ i \in Rows /\ HasEventKey(runs[i].trigger)
  /\ runs[i].status \in {"running", "completed"}
  /\ decision \in Confirmed => runs[i].outcome.intent

Publish(i) ==
  \/ ClaimPublication(i)
  \/ SupersedePublication(i)
  \/ \E decision \in {"published", "publication_failed"} :
       MaySettle(i, decision) /\ SettleOutcome(i, decision, decision \in Confirmed)
  \/ \E slot \in Slots :
       \/ ClaimNotification(i, slot)
       \/ \E result \in {"confirmed", "unknown"} : SettleNotification(i, slot, result)

Mutation == Admit \/ (\E i \in Ids : Execute(i) \/ Publish(i)) \/ InterruptOpen \/ Prune
Next == (Mutation /\ UNCHANGED clock) \/ Tick \/ StepBack
Spec == Init /\ [][Next]_vars

-----------------------------------------------------------------------------
(* Properties. *)

\* Every table keeps its shape: rows are runs, prune deletes only rows that
\* exist, and a cursor is an occurrence or -1.
TypeOK ==
  /\ runs \in Seq(Run)
  /\ pruned \subseteq DOMAIN runs
  /\ cursors \in [Defs -> {-1} \cup (0..MaxTime)]
  /\ heads \in [Prs -> Shas \cup {NoSha}]
  /\ keys \subseteq {<<Namespace(d, t), t>> : d \in Defs, t \in EventTrigger}
  /\ decisions \subseteq [def : Defs, trigger : EventTrigger, reason : Reasons, id : Nat]
  /\ deliveries \in [Ids \X Slots -> DeliveryStatus]
  /\ clock \in 0..MaxTime

\* Overlap: a definition never has two open runs, whatever mix of schedule,
\* Run Now and events admits them (capacity_status, one transaction).
OneOpenRunPerDefinition ==
  \A i, j \in OpenRows : runs[i].definition.id = runs[j].definition.id => i = j

\* The machine-wide limit holds across batches, events and Run Now.
OpenWithinCapacity == Cardinality(OpenRows) <= MaxConcurrent

\* A scheduled occurrence is decided once, ever: neither a later tick, nor a
\* schedule edit, nor the pruning of its row gives it a second row.
OccurrenceOnce ==
  \A i, j \in DOMAIN runs :
    (/\ runs[i].trigger.kind = "scheduled" /\ runs[j].trigger.kind = "scheduled"
     /\ runs[i].definition.id = runs[j].definition.id /\ i < j)
    => runs[i].trigger.occ < runs[j].trigger.occ

\* A row that a refusal created, not an admission.
Refused(i) == runs[i].status \in Refusals
\* An event starts at most one run, before and after retention: the consumed
\* keys are exactly the keys of the admitted rows, and no two rows share one.
EventOnce ==
  LET admitted == {i \in DOMAIN runs : HasEventKey(runs[i].trigger) /\ ~ Refused(i)}
      key(i)   == <<Namespace(runs[i].definition.id, runs[i].trigger), runs[i].trigger>>
  IN  /\ keys = {key(i) : i \in admitted}
      /\ \A i, j \in admitted : key(i) = key(j) => i = j

\* Polls do not grow the history: the refusal rows still there are exactly the
\* ones the decision table names, one for each definition, event and reason.
RefusalsCoalesce ==
  /\ {x.id : x \in decisions} =
       {i \in Rows : HasEventKey(runs[i].trigger) /\ Refused(i)}
  /\ \A x, y \in decisions :
       (x.id = y.id \/ (x.def = y.def /\ x.trigger = y.trigger /\ x.reason = y.reason)) => x = y

\* How far a run is: nothing takes it back, and a final status never changes.
Progress(status) == CASE status = "reserved" -> 0 [] status = "prechecking" -> 1
                      [] status \in {"running", "needs_you"} -> 2 [] OTHER -> 3
StatusMovesForward ==
  [][\A i \in DOMAIN runs :
       \/ runs'[i].status = runs[i].status
       \/ Progress(runs'[i].status) > Progress(runs[i].status)
       \/ Progress(runs[i].status) = 2 /\ Progress(runs'[i].status) = 2]_vars

\* A publication authority once consumed is never granted again: the saved
\* intent survives every settlement, restart and late transition, and a
\* confirmed URL is the last outcome of its run.
AuthorityKept ==
  [][\A i \in DOMAIN runs :
       /\ runs[i].outcome.intent => runs'[i].outcome.intent
       /\ runs[i].outcome.url => runs'[i].outcome = runs[i].outcome]_vars

=============================================================================
