---------------------------- MODULE RuntimeProofs ----------------------------
(***************************************************************************)
(* The runtime implements the ledger, and what it adds to it.  Every step  *)
(* of the loop, of a dispatch task and of a recovery is a step that        *)
(* RunLedger allows: for that the monitor's stale copies have to be behind  *)
(* the rows they were read from, and a run whose agent works has to be      *)
(* bound.  The second half relates each row to its task and its agent.      *)
(***************************************************************************)
EXTENDS AutomationRuntime, RunLedgerProofs

Working       == {"running", "needs_you"}
NeverLaunched == Refusals \cup {"skipped_missed", "skipped_precheck"}
BeforeLaunch  == {"admitted", "queued", "claimed", "resolving", "resolved", "checking",
                  "ready", "launching"}

\* The bounds of the history: rows, and stamps that were read from the clock.
Bounded ==
  /\ Len(runs) <= MaxRuns
  /\ \A i \in DOMAIN runs : runs[i].updated <= MaxTime

Config  == [Defs -> [present : BOOLEAN, enabled : BOOLEAN, rev : Revs]]
ViewRow == [status : OpenStatus, bound : BOOLEAN, updated : 0..MaxTime]
Loop    == [pc : LoopState, timer : BOOLEAN, now : 0..MaxTime,
            view : UNION {[S -> ViewRow] : S \in SUBSET Ids}, next : Verdicts \cup {"none"}]
Spent   == [crashes : Nat, edits : Nat, faults : Nat,
            orphans : SUBSET Ids, abandoned : SUBSET Ids]
Shape ==
  /\ config \in Config /\ up \in BOOLEAN
  /\ loop \in Loop
  /\ task \in [Ids -> TaskState] /\ child \in [Ids -> ChildState]
  /\ deadline \in [Ids -> Nat] /\ launched \in [Ids -> Nat]
  /\ spent \in Spent

\* The monitor's copies are never ahead of the rows, and it decides on a copy.
ViewBehind ==
  /\ Viewed \subseteq DOMAIN runs
  /\ \A i \in Viewed : loop.view[i].status \in Working
                         => runs[i].status \notin {"reserved", "prechecking"}
  /\ loop.pc = "apply" =>
       /\ Viewed # {} /\ loop.next # "none"
       /\ loop.next \in Working => loop.view[First].status \in Working

\* A run whose agent works was launched once and saved its session.
WorkIsBound(i) == runs[i].status \in Working => runs[i].bound /\ launched[i] = 1
\* How far the task of a row may be.
TaskFits(i) ==
  /\ launched[i] <= 1
  /\ task[i] \in BeforeLaunch => launched[i] = 0
  /\ task[i] = "launched" => launched[i] = 1
  /\ task[i] \in BeforeLaunch \/ launched[i] = 1 => runs[i].status \notin NeverLaunched
  /\ task[i] \in {"admitted", "queued"} => runs[i].status \notin {"prechecking", "running", "needs_you"}
ChildOwned(i) ==
  child[i] \in Live /\ ~ runs[i].bound => task[i] \in {"launched", "unbound"} \/ i \in spent.orphans
Tended(i) ==
  up /\ i \notin pruned /\ runs[i].status \in {"reserved", "prechecking"}
    => Active(i) \/ i \in spent.abandoned

RowInv(i) ==
  /\ i \notin DOMAIN runs => task[i] = "none" /\ child[i] = "none" /\ launched[i] = 0
  /\ i \in DOMAIN runs => WorkIsBound(i) /\ TaskFits(i) /\ ChildOwned(i) /\ Tended(i)

RtInv ==
  /\ LedgerInv /\ Bounded
  /\ Shape /\ ViewBehind
  /\ \A i \in Ids : RowInv(i)

-----------------------------------------------------------------------------
(* Data. *)

LEMMA LessRelation ==
  ASSUME NEW x \in Nat, NEW y \in Nat, y < x
  PROVE  <<y, x>> \in OpToRel(<, Nat)
<1>1. <<y, x>> \in {ss \in Nat \X Nat : ss[1] < ss[2]}
  OBVIOUS
<1> QED
  BY <1>1 DEF OpToRel

\* A set of naturals that is not empty has a least element, and a greatest one
\* where it has an upper bound.
LEMMA LeastOf ==
  ASSUME NEW S \in SUBSET Nat, S # {}
  PROVE  Min(S) \in S
<1>1. PICK x \in S : \A y \in S : ~ (<<y, x>> \in OpToRel(<, Nat))
  BY NatLessThanWellFounded, WFMin
<1>2. \A y \in S : ~ (y < x)
  BY <1>1, LessRelation
<1>3. \A y \in S : x <= y
  BY <1>2
<1> QED
  BY <1>3 DEF Min

LEMMA GreatestOf ==
  ASSUME NEW n \in Nat, NEW S \in SUBSET (0..n), S # {}
  PROVE  Max(S) \in S
<1> DEFINE T == {n - y : y \in S}
<1>1. T \in SUBSET Nat /\ T # {}
  <2>1. \A y \in S : n - y \in Nat
    OBVIOUS
  <2>2. PICK y \in S : TRUE
    OBVIOUS
  <2>3. n - y \in T
    OBVIOUS
  <2> QED
    BY <2>1, <2>3
<1>2. PICK x \in T : \A y \in T : ~ (<<y, x>> \in OpToRel(<, Nat))
  BY <1>1, NatLessThanWellFounded, WFMin
<1>3. \A y \in T : x <= y
  <2>1. \A y \in T : ~ (y < x)
    BY <1>1, <1>2, LessRelation
  <2> QED
    BY <1>1, <2>1
<1>4. PICK z \in S : x = n - z
  BY <1>2
<1>5. ASSUME NEW y \in S PROVE z >= y
  <2>1. n - y \in T
    OBVIOUS
  <2>2. n - z <= n - y
    BY <1>3, <1>4, <2>1
  <2> QED
    BY <2>2
<1> QED
  BY <1>4, <1>5 DEF Max

LEMMA EmptyView == <<>> \in UNION {[S -> ViewRow] : S \in SUBSET Ids} /\ DOMAIN <<>> = {}
<1>1. <<>> \in [{} -> ViewRow]
  OBVIOUS
<1>2. {} \in SUBSET Ids
  OBVIOUS
<1> QED
  BY <1>1, <1>2

LEMMA IdleLoop ==
  ASSUME LedgerAssumption
  PROVE  Idle \in Loop /\ DOMAIN Idle.view = {} /\ Idle.pc = "select"
<1>1. 0 \in 0..MaxTime
  BY DEF LedgerAssumption
<1> QED
  BY <1>1, EmptyView DEF Idle, Loop, LoopState

LEMMA ViewType ==
  ASSUME NEW l \in Loop
  PROVE  /\ DOMAIN l.view \subseteq Ids
         /\ \A i \in DOMAIN l.view : l.view[i] \in ViewRow
         /\ \A i \in DOMAIN l.view : Without(l.view, i) \in UNION {[S -> ViewRow] : S \in SUBSET Ids}
         /\ \A i : DOMAIN Without(l.view, i) = DOMAIN l.view \ {i}
         /\ \A i : \A j \in DOMAIN l.view \ {i} : Without(l.view, i)[j] = l.view[j]
<1>1. PICK S \in SUBSET Ids : l.view \in [S -> ViewRow]
  BY DEF Loop
<1>2. \A i : Without(l.view, i) \in [S \ {i} -> ViewRow]
  BY <1>1 DEF Without
<1> QED
  BY <1>1, <1>2 DEF Without

LEMMA FirstIsViewed ==
  ASSUME loop \in Loop, Viewed # {}
  PROVE  First \in Viewed
<1>1. Viewed \in SUBSET Nat
  BY ViewType DEF Viewed, Ids
<1> QED
  BY <1>1, LeastOf DEF First

\* Statuses, as the monitor and the launch tell them apart.
LEMMA StatusKinds ==
  /\ Working \subseteq OpenStatus /\ NeverLaunched \cap OpenStatus = {}
  /\ Verdicts \subseteq Status /\ Verdicts \cap NeverLaunched = {}
  /\ Verdicts \cap OpenStatus = Working
  /\ OpenStatus = {"reserved", "prechecking"} \cup Working
BY DEF Working, NeverLaunched, OpenStatus, Refusals, Verdicts, Status, FinalStatus

-----------------------------------------------------------------------------
(* The bounds of the history.  Rows are added under a guard, and a stamp is   *)
(* a reading of the clock or a later one of those that were saved before.      *)

LEMMA StampBound ==
  ASSUME LedgerAssumption, NEW a \in 0..MaxTime, NEW b \in 0..MaxTime
  PROVE  Stamp(a) \in 0..MaxTime /\ Stamp(Latest(a, b)) \in 0..MaxTime
BY DEF LedgerAssumption, Stamp, Latest

LEMMA NewRunStamp ==
  ASSUME LedgerAssumption, TypeOK, NEW definition, NEW trigger, NEW status
  PROVE  NewRun(definition, trigger, status).updated \in 0..MaxTime
<1>1. clock \in 0..MaxTime
  BY DEF TypeOK
<1>2. Stamp(clock) \in 0..MaxTime
  BY <1>1, StampBound
<1> QED
  BY <1>2 DEF NewRun

\* A row of the ledger keeps a stamp within the bound.
LEMMA StampsOf ==
  ASSUME LedgerAssumption, TypeOK, Bounded, NEW i \in DOMAIN runs
  PROVE  runs[i].updated \in 0..MaxTime
<1>1. runs[i] \in Run
  BY DEF TypeOK
<1> QED
  BY <1>1 DEF Bounded, Run, LedgerAssumption

LEMMA BoundAdd ==
  ASSUME TypeOK, Bounded, NEW row \in Run, Len(runs) < MaxRuns, MaxRuns \in Nat,
         row.updated \in 0..MaxTime, runs' = Append(runs, row)
  PROVE  Bounded'
<1>1. runs \in Seq(Run)
  BY DEF TypeOK
<1>2. /\ Len(runs') = Len(runs) + 1 /\ DOMAIN runs' = DOMAIN runs \cup {Len(runs) + 1}
      /\ runs'[Len(runs) + 1] = row
      /\ \A i \in DOMAIN runs : runs'[i] = runs[i]
  BY <1>1
<1>3. row.updated <= MaxTime
  OBVIOUS
<1> QED
  BY <1>1, <1>2, <1>3 DEF Bounded

LEMMA BoundRewrite ==
  ASSUME TypeOK, Bounded, NEW i, NEW row,
         i \in DOMAIN runs => row.updated <= MaxTime, runs' = [runs EXCEPT ![i] = row]
  PROVE  Bounded'
<1>1. runs \in Seq(Run)
  BY DEF TypeOK
<1>2. DOMAIN runs' = DOMAIN runs /\ \A j \in DOMAIN runs : j # i => runs'[j] = runs[j]
  BY <1>1
<1>3. i \in DOMAIN runs => runs'[i] = row
  BY <1>1
<1>4. Len(runs') = Len(runs)
  <2>1. CASE i \in DOMAIN runs
    BY <1>1, <2>1
  <2>2. CASE i \notin DOMAIN runs
    <3>1. runs' = runs
      BY <1>1, <2>2
    <3> QED
      BY <3>1
  <2> QED
    BY <2>1, <2>2
<1> QED
  BY <1>2, <1>3, <1>4 DEF Bounded

LEMMA BoundRefusal ==
  ASSUME LedgerAssumption, TypeOK, Bounded,
         NEW definition \in Definition, NEW trigger \in EventTrigger, NEW status \in Refusals,
         NEW reason, RecordRefusal(definition, trigger, status, reason)
  PROVE  Bounded'
<1> DEFINE row == [NewRun(definition, trigger, status) EXCEPT !.outcome = OutcomeOf(status)]
           same == {x \in decisions : x.def = definition.id /\ x.trigger = trigger
                                      /\ x.reason = reason}
<1>1. CASE same # {}
  <2>1. PICK i : runs' = [runs EXCEPT ![i].outcome = OutcomeOf(status),
                                      ![i].updated = Stamp(Latest(clock, @))]
    BY <1>1 DEF RecordRefusal
  <2> DEFINE new == [runs[i] EXCEPT !.outcome = OutcomeOf(status),
                                    !.updated = Stamp(Latest(clock, @))]
  <2>2. runs' = [runs EXCEPT ![i] = new]
    BY <2>1
  <2>3. ASSUME i \in DOMAIN runs PROVE new.updated <= MaxTime
    <3>1. runs[i] \in Run /\ runs[i].updated \in 0..MaxTime /\ clock \in 0..MaxTime
      BY <2>3, StampsOf DEF TypeOK
    <3>2. new.updated = Stamp(Latest(clock, runs[i].updated))
      BY <3>1 DEF Run
    <3> QED
      BY <3>1, <3>2, StampBound
  <2> HIDE DEF new
  <2> QED
    BY <2>2, <2>3, BoundRewrite
<1>2. CASE same = {}
  <2>1. Len(runs) < MaxRuns /\ runs' = Append(runs, row)
    BY <1>2 DEF RecordRefusal
  <2>2. NewRun(definition, trigger, status) \in Run
    <3>1. status \in Status /\ trigger \in Trigger /\ clock \in 0..MaxTime
      BY TriggerKinds DEF Status, FinalStatus, TypeOK
    <3> QED
      BY <3>1, NewRunType
  <2>3. OutcomeOf(status) \in Outcome
    BY DEF OutcomeOf, Outcome, Decision, FinalStatus
  <2>4. row \in Run /\ row.updated = NewRun(definition, trigger, status).updated
    BY <2>2, <2>3 DEF Run
  <2>5. row.updated \in 0..MaxTime /\ MaxRuns \in Nat
    BY <2>4, NewRunStamp DEF LedgerAssumption
  <2> HIDE DEF row
  <2> QED
    BY <2>1, <2>4, <2>5, BoundAdd
<1> QED
  BY <1>1, <1>2

LEMMA BoundAdmit ==
  ASSUME LedgerAssumption, TypeOK, Bounded, Admit
  PROVE  Bounded'
<1>0. MaxRuns \in Nat /\ clock \in 0..MaxTime
  BY DEF LedgerAssumption, TypeOK
<1>1. ASSUME NEW definitions \in [Defs -> Definition],
             NEW D \in SUBSET Defs, NEW due \in [D -> 0..clock],
             AdmitBatch(definitions, due)
      PROVE  Bounded'
  <2> DEFINE fresh == Fresh(definitions, due)
             n     == Cardinality(fresh)
  <2>1. BatchAdded(definitions, due, fresh, n)
    BY <1>1, BatchShape
  <2>2. PICK order \in [1..n -> fresh] :
          /\ runs' \in Seq(Run) /\ Len(runs') = Len(runs) + n
          /\ \A i \in DOMAIN runs : i \in DOMAIN runs' /\ runs'[i] = runs[i]
          /\ \A i \in DOMAIN runs' \ DOMAIN runs :
               /\ i - Len(runs) \in 1..n
               /\ runs'[i] = BatchRow(definitions, due, order[i - Len(runs)])
    BY <2>1 DEF BatchAdded
  <2>3. Len(runs) + n <= MaxRuns
    BY <1>1 DEF AdmitBatch
  <2>4. \A d : BatchRow(definitions, due, d).updated \in 0..MaxTime
    BY NewRunStamp DEF BatchRow
  <2> HIDE DEF fresh, n
  <2>5. \A i \in DOMAIN runs' : runs'[i].updated <= MaxTime
    <3> SUFFICES ASSUME NEW i \in DOMAIN runs' PROVE runs'[i].updated <= MaxTime
      OBVIOUS
    <3>1. CASE i \in DOMAIN runs
      BY <2>2, <3>1 DEF Bounded
    <3>2. CASE i \notin DOMAIN runs
      <4>1. runs'[i].updated \in 0..MaxTime
        BY <2>2, <2>4, <3>2
      <4> QED
        BY <4>1
    <3> QED
      BY <3>1, <3>2
  <2> QED
    BY <2>2, <2>3, <2>5 DEF Bounded
<1>2. ASSUME NEW definition \in Definition, AdmitManual(definition) PROVE Bounded'
  <2> DEFINE row == NewRun(definition, [kind |-> "manual"], CapacityStatus(definition.id, 0))
  <2>1. Len(runs) < MaxRuns /\ runs' = Append(runs, row)
    BY <1>2 DEF AdmitManual
  <2>2. CapacityStatus(definition.id, 0) \in Status
    BY CapacityStatusType DEF Status, OpenStatus, FinalStatus, Refusals
  <2>3. row \in Run /\ row.updated \in 0..MaxTime
    BY <1>0, <2>2, NewRunType, NewRunStamp, TriggerKinds
  <2> HIDE DEF row
  <2> QED
    BY <1>0, <2>1, <2>3, BoundAdd
<1>3. ASSUME NEW definition \in Definition, NEW trigger \in EventTrigger,
             AdmitEvent(definition, trigger)
      PROVE  Bounded'
  <2> DEFINE answer == EventAnswer(definition, trigger)
             row    == NewRun(definition, trigger, "reserved")
  <2>1. CASE answer = "reserved"
    <3>1. Len(runs) < MaxRuns /\ runs' = Append(runs, row)
      BY <1>3, <2>1 DEF AdmitEvent
    <3>2. "reserved" \in Status /\ trigger \in Trigger
      BY TriggerKinds DEF Status, OpenStatus
    <3>3. row \in Run /\ row.updated \in 0..MaxTime
      BY <1>0, <3>2, NewRunType, NewRunStamp
    <3> HIDE DEF row
    <3> QED
      BY <1>0, <3>1, <3>3, BoundAdd
  <2>2. CASE answer # "reserved"
    <3>1. answer \in Refusals
      BY <2>2, CapacityStatusType DEF EventAnswer, Refusals
    <3>2. RecordRefusal(definition, trigger, answer, answer)
      BY <1>3, <2>2 DEF AdmitEvent
    <3> QED
      BY <3>1, <3>2, BoundRefusal
  <2> QED
    BY <2>1, <2>2
<1>4. ASSUME NEW definition \in Definition, NEW trigger \in Event, NEW reason,
             RecordEventRefusal(definition, trigger, reason)
      PROVE  Bounded'
  <2>1. trigger \in EventTrigger /\ "skipped_filtered" \in Refusals
    BY TriggerKinds DEF Refusals
  <2> QED
    BY <1>4, <2>1, BoundRefusal DEF RecordEventRefusal
<1> QED
  BY <1>1, <1>2, <1>3, <1>4 DEF Admit

LEMMA BoundedStep ==
  ASSUME LedgerAssumption, TypeOK, Bounded, [Next]_vars
  PROVE  Bounded'
<1>0. clock \in 0..MaxTime /\ \A i \in DOMAIN runs : runs[i].updated \in 0..MaxTime
  BY StampsOf DEF TypeOK
<1>a. \A i \in DOMAIN runs : Stamp(Latest(clock, runs[i].updated)) \in 0..MaxTime
  BY <1>0, StampBound
<1>b. \A i \in DOMAIN runs : runs[i] \in Run
  BY DEF TypeOK
<1>1. CASE Admit
  BY <1>1, BoundAdmit
<1>2. ASSUME NEW i \in Ids, ClaimDispatch(i) PROVE Bounded'
  <2> DEFINE row == [runs[i] EXCEPT !.status = "prechecking",
                                    !.updated = Stamp(Latest(clock, @))]
  <2>1. i \in DOMAIN runs /\ runs' = [runs EXCEPT ![i] = row]
    BY <1>2 DEF ClaimDispatch, Claimable, Rows
  <2>2. row.updated = Stamp(Latest(clock, runs[i].updated))
    BY <1>b, <2>1 DEF Run
  <2> HIDE DEF row
  <2>3. row.updated <= MaxTime
    BY <1>a, <2>1, <2>2
  <2> QED
    BY <2>1, <2>3, BoundRewrite
<1>3. ASSUME NEW i, NEW next, NEW binding, NEW now \in Readings, Transition(i, next, binding, now)
      PROVE  Bounded'
  <2> DEFINE row == Transitioned(runs[i], next, binding, now)
  <2>1. CASE runs' = [runs EXCEPT ![i] = row]
    <3>1. now \in 0..MaxTime
      BY <1>0 DEF Readings
    <3>2. Stamp(now) \in 0..MaxTime
      BY <3>1, StampBound
    <3>3. i \in DOMAIN runs => row.updated = Stamp(now)
      BY <1>b DEF Transitioned, Run
    <3> HIDE DEF row
    <3>4. i \in DOMAIN runs => row.updated <= MaxTime
      BY <3>2, <3>3
    <3> QED
      BY <2>1, <3>4, BoundRewrite
  <2>2. CASE runs' = runs
    BY <2>2 DEF Bounded
  <2> QED
    BY <1>3, <2>1, <2>2 DEF Transition
<1>4. ASSUME NEW i, NEW outcome, RecordTriageDecision(i, outcome) PROVE Bounded'
  <2> DEFINE at  == Latest(clock, runs[i].updated)
             row == [runs[i] EXCEPT !.triage = outcome, !.status = "completed",
                                    !.updated = Stamp(at), !.finished = at]
  <2>1. i \in DOMAIN runs /\ runs' = [runs EXCEPT ![i] = row]
    BY <1>4 DEF RecordTriageDecision, Rows
  <2>2. row.updated = Stamp(at)
    BY <1>b, <2>1 DEF Run
  <2> HIDE DEF row
  <2>3. row.updated <= MaxTime
    BY <1>a, <2>1, <2>2
  <2> QED
    BY <2>1, <2>3, BoundRewrite
<1>5. ASSUME InterruptOpen PROVE Bounded'
  <2>1. DOMAIN runs' = DOMAIN runs
    BY <1>5 DEF InterruptOpen
  <2>2. ASSUME NEW i \in DOMAIN runs' PROVE runs'[i].updated <= MaxTime
    <3>1. i \in DOMAIN runs /\ runs[i] \in Run
      BY <1>b, <2>1, <2>2
    <3>2. \/ runs'[i] = Transitioned(runs[i], "interrupted", FALSE, Latest(clock, runs[i].updated))
          \/ runs'[i] = [runs[i] EXCEPT !.outcome.decision = "publication_unknown",
                                        !.updated = Stamp(Latest(clock, @))]
          \/ runs'[i] = runs[i]
      BY <1>5, <3>1 DEF InterruptOpen
    <3>3. Transitioned(runs[i], "interrupted", FALSE, Latest(clock, runs[i].updated)).updated
            = Stamp(Latest(clock, runs[i].updated))
      BY <3>1 DEF Transitioned, Run
    <3>4. [runs[i] EXCEPT !.outcome.decision = "publication_unknown",
                          !.updated = Stamp(Latest(clock, @))].updated
            = Stamp(Latest(clock, runs[i].updated))
      BY <3>1 DEF Run
    <3>5. runs'[i].updated \in 0..MaxTime
      BY <1>0, <1>a, <3>1, <3>2, <3>3, <3>4
    <3> QED
      BY <3>5
  <2>3. Len(runs') = Len(runs)
    <3>1. runs' \in Seq(Run)
      BY TypeStep DEF TypeOK
    <3>2. runs \in Seq(Run) /\ Len(runs) \in Nat /\ Len(runs') \in Nat
      BY <3>1 DEF TypeOK
    <3>3. 1..Len(runs') = 1..Len(runs)
      BY <2>1, <3>1, <3>2
    <3> QED
      BY <3>2, <3>3
  <2> QED
    BY <2>2, <2>3 DEF Bounded
<1>6. ASSUME NEW i, ClaimPublication(i) PROVE Bounded'
  <2> DEFINE row == [runs[i] EXCEPT !.outcome = [decision |-> "publication_pending",
                                                 intent |-> TRUE, url |-> FALSE],
                                    !.updated = Stamp(Latest(clock, @))]
  <2>1. i \in DOMAIN runs /\ runs' = [runs EXCEPT ![i] = row]
    BY <1>6 DEF ClaimPublication, MayPublish, Rows
  <2>2. row.updated = Stamp(Latest(clock, runs[i].updated))
    BY <1>b, <2>1 DEF Run
  <2> HIDE DEF row
  <2>3. row.updated <= MaxTime
    BY <1>a, <2>1, <2>2
  <2> QED
    BY <2>1, <2>3, BoundRewrite
<1>7. ASSUME NEW i, SupersedePublication(i) PROVE Bounded'
  <2> DEFINE row == [runs[i] EXCEPT !.outcome = OutcomeOf("superseded")]
  <2>1. i \in DOMAIN runs /\ runs' = [runs EXCEPT ![i] = row]
    BY <1>7 DEF SupersedePublication, MayPublish, Rows
  <2>2. row.updated = runs[i].updated
    BY <1>b, <2>1 DEF Run
  <2> HIDE DEF row
  <2>3. row.updated <= MaxTime
    BY <1>0, <2>1, <2>2
  <2> QED
    BY <2>1, <2>3, BoundRewrite
<1>8. ASSUME NEW i, NEW decision, NEW url, SettleOutcome(i, decision, url) PROVE Bounded'
  <2> DEFINE row == [runs[i] EXCEPT !.outcome.decision = decision, !.outcome.url = url,
                                    !.updated = Stamp(Latest(clock, @))]
  <2>1. i \in DOMAIN runs /\ (runs' = runs \/ runs' = [runs EXCEPT ![i] = row])
    BY <1>8 DEF SettleOutcome, Rows
  <2>2. row.updated = Stamp(Latest(clock, runs[i].updated))
    BY <1>b, <2>1 DEF Run
  <2> HIDE DEF row
  <2>3. row.updated <= MaxTime
    BY <1>a, <2>1, <2>2
  <2>4. runs' = runs => Bounded'
    BY DEF Bounded
  <2> QED
    BY <2>1, <2>3, <2>4, BoundRewrite
<1>9. ASSUME runs' = runs PROVE Bounded'
  BY <1>9 DEF Bounded
<1>10. ASSUME NEW i \in Ids, Execute(i) PROVE Bounded'
  BY <1>2, <1>3, <1>4, <1>10 DEF Execute
<1>11. ASSUME NEW i \in Ids, Publish(i) PROVE Bounded'
  BY <1>6, <1>7, <1>8, <1>9, <1>11 DEF Publish, ClaimNotification, SettleNotification
<1>12. ASSUME Prune \/ Tick \/ StepBack \/ UNCHANGED vars PROVE Bounded'
  BY <1>9, <1>12 DEF Prune, Tick, StepBack, vars, ledger
<1> QED
  BY <1>1, <1>5, <1>10, <1>11, <1>12 DEF Next, Mutation

-----------------------------------------------------------------------------
(* The refinement: every step of the runtime is a step of the ledger.          *)

LEMMA TargetsUsed ==
  ASSUME RuntimeAssumption
  PROVE  /\ Verdicts \subseteq Targets
         /\ {"prechecking", "skipped_precheck", "failed", "running"} \subseteq Targets
BY DEF RuntimeAssumption, Verdicts

\* Reading the clock now, as every task does, is one of the ledger's readings.
LEMMA ReadingNow ==
  ASSUME TypeOK
  PROVE  clock \in Readings
BY DEF TypeOK, Readings

LEMMA LoadedType ==
  ASSUME Shape, NEW d \in Defs
  PROVE  Loaded(d) \in Definition /\ Loaded(d).id = d
BY DEF Shape, Config, Loaded, Definition

LEMMA RowsAreIds ==
  ASSUME TypeOK, Bounded, LedgerAssumption
  PROVE  DOMAIN runs \subseteq Ids
<1>1. DOMAIN runs = 1..Len(runs) /\ Len(runs) \in Nat /\ Len(runs) <= MaxRuns /\ MaxRuns \in Nat
  BY DEF TypeOK, Bounded, LedgerAssumption
<1> QED
  BY <1>1 DEF Ids

\* A ledger mutation by the runtime, while the clock stands still.
LEMMA AdmitsIsNext ==
  ASSUME Admit, UNCHANGED clock
  PROVE  Next
BY DEF Next, Mutation

LEMMA TransitionIsNext ==
  ASSUME NEW i \in Ids, NEW next \in Targets, NEW now \in Readings,
         Transition(i, next, next = "running", now), UNCHANGED clock
  PROVE  Next
BY DEF Next, Mutation, Execute

\* The transitions of a task: prechecking, skipped_precheck and failed save no
\* session, running saves the one that was launched.
LEMMA SaveIsNext ==
  ASSUME TypeOK, RuntimeAssumption, NEW i \in Ids, NEW next, NEW binding,
         \/ next \in {"prechecking", "skipped_precheck", "failed"} /\ binding = FALSE
         \/ next = "running" /\ binding = TRUE,
         Transition(i, next, binding, clock), UNCHANGED clock
  PROVE  Next
<1>1. binding = (next = "running")
  BY Zenon
<1>2. next \in Targets
  BY TargetsUsed
<1>3. Transition(i, next, next = "running", clock)
  BY <1>1
<1> QED
  BY <1>2, <1>3, ReadingNow, TransitionIsNext

\* A dispatch task: a claim, a transition, or no write at all.
LEMMA DispatchImplements ==
  ASSUME RuntimeAssumption, TypeOK, NEW i \in Ids, Dispatch(i)
  PROVE  [Next]_vars
<1>0. UNCHANGED clock
  BY DEF Dispatch, Claim, StartWorkspace, WorkspaceReady, StartPrecheck, PrecheckDone, StartLaunch,
         Launch, Bind, StopOwn, Fail, Check, Quiet
<1>1. ASSUME UNCHANGED ledger PROVE [Next]_vars
  BY <1>0, <1>1 DEF vars
<1>2. ASSUME NEW next, NEW binding, NEW from, NEW to, NEW otherwise,
             Save(i, next, binding, from, to, otherwise),
             \/ next \in {"prechecking", "skipped_precheck", "failed"} /\ binding = FALSE
             \/ next = "running" /\ binding = TRUE
      PROVE  [Next]_vars
  <2>1. CASE Transition(i, next, binding, clock)
    BY <1>0, <1>2, <2>1, SaveIsNext
  <2> QED
    BY <1>1, <1>2, <2>1 DEF Save
<1>3. CASE Claim(i)
  <2>1. ClaimDispatch(i) => Next
    BY <1>0 DEF Next, Mutation, Execute
  <2> QED
    BY <1>1, <1>3, <2>1 DEF Claim
<1>4. CASE StartWorkspace(i) \/ StartPrecheck(i) \/ StartLaunch(i)
  BY <1>1, <1>4 DEF StartWorkspace, StartPrecheck, StartLaunch, Check
<1>5. CASE WorkspaceReady(i)
  BY <1>1, <1>2, <1>5 DEF WorkspaceReady
<1>6. CASE PrecheckDone(i)
  BY <1>1, <1>2, <1>6 DEF PrecheckDone
<1>7. CASE Launch(i) \/ StopOwn(i)
  BY <1>1, <1>7 DEF Launch, StopOwn
<1>8. CASE Bind(i)
  BY <1>2, <1>8 DEF Bind
<1>9. CASE Fail(i)
  <2>1. Transition(i, "failed", FALSE, clock) => Next
    BY <1>0, SaveIsNext
  <2> QED
    BY <1>1, <1>9, <2>1 DEF Fail
<1> QED
  BY <1>3, <1>4, <1>5, <1>6, <1>7, <1>8, <1>9 DEF Dispatch

\* What the monitor asks for was decided on a copy; if it wants the run to go on,
\* the run is bound already or is over.
LEMMA ApplyImplements ==
  ASSUME LedgerAssumption, RuntimeAssumption, RtInv, Apply
  PROVE  [Next]_vars
<1> DEFINE i   == First
           now == Latest(loop.now, loop.view[i].updated)
<1>0. TypeOK /\ UNCHANGED clock
  BY DEF Apply, RtInv, LedgerInv
<1>1. i \in Viewed /\ i \in DOMAIN runs /\ i \in Ids
  <2>1. Viewed # {} /\ Viewed \subseteq DOMAIN runs /\ DOMAIN runs \subseteq Ids /\ loop \in Loop
    BY <1>0, RowsAreIds DEF RtInv, Shape, ViewBehind, Apply
  <2> QED
    BY <2>1, FirstIsViewed
<1>2. loop \in Loop /\ loop.next \in Verdicts
  BY DEF RtInv, Shape, ViewBehind, Apply, Loop
<1>3. now \in Readings
  <2>1. loop.view[i] \in ViewRow
    BY <1>1, <1>2, ViewType DEF Viewed
  <2>2. loop.now \in 0..MaxTime /\ loop.view[i].updated \in 0..MaxTime
    BY <1>2, <2>1 DEF Loop, ViewRow
  <2> QED
    BY <2>2 DEF Readings, Latest, RuntimeAssumption
<1>4. loop.next \in Targets
  BY <1>2, TargetsUsed
<1>5. CASE Transition(i, loop.next, FALSE, now)
  <2>1. Transition(i, loop.next, loop.next = "running", now)
    <3>1. CASE loop.next # "running"
      <4>1. (loop.next = "running") = FALSE
        BY <3>1
      <4> QED
        BY <1>5, <4>1
    <3>2. CASE ~ IsOpen(i)
      BY <1>5, <3>2 DEF Transition
    <3>3. CASE loop.next = "running" /\ IsOpen(i)
      <4>1. runs[i].status \in Working
        BY <1>1, <3>3, StatusKinds DEF RtInv, ViewBehind, Apply, Working, IsOpen
      <4>2. runs[i].bound /\ runs[i] \in Run
        BY <1>0, <1>1, <4>1 DEF RtInv, RowInv, WorkIsBound, TypeOK
      <4>3. (loop.next = "running") = TRUE /\ runs[i].bound = TRUE
        BY <3>3, <4>2 DEF Run
      <4>4. (runs[i].bound \/ FALSE) = (runs[i].bound \/ (loop.next = "running"))
        BY <4>3
      <4>5. Transitioned(runs[i], loop.next, FALSE, now)
              = Transitioned(runs[i], loop.next, loop.next = "running", now)
        BY <4>4 DEF Transitioned
      <4> HIDE DEF i, now
      <4>6. runs' = [runs EXCEPT ![i] = Transitioned(runs[i], loop.next, FALSE, now)]
        BY <1>5, <3>3 DEF Transition
      <4>7. runs' = [runs EXCEPT ![i] = Transitioned(runs[i], loop.next, loop.next = "running", now)]
        BY <4>5, <4>6
      <4> QED
        BY <1>5, <3>3, <4>7 DEF Transition
    <3> QED
      BY <3>1, <3>2, <3>3
  <2> QED
    BY <1>0, <1>1, <1>3, <1>4, <2>1, TransitionIsNext
<1>6. CASE UNCHANGED ledger
  BY <1>0, <1>6 DEF vars
<1> QED
  BY <1>5, <1>6 DEF Apply

\* The occurrence that a tick admits is not in the future.
LEMMA DueIsPast ==
  ASSUME LedgerAssumption, RuntimeAssumption, TypeOK, NEW d \in Defs, Due(d) # {}
  PROVE  Max(Due(d)) \in 0..clock
<1>1. Schedule[d] \subseteq 0..MaxTime
  BY DEF RuntimeAssumption
<1>2. clock \in Nat /\ MaxTime \in Nat
  BY DEF TypeOK, LedgerAssumption
<1>3. Due(d) \in SUBSET (0..clock)
  BY <1>1, <1>2 DEF Due
<1> QED
  BY <1>2, <1>3, GreatestOf

LEMMA TickImplements ==
  ASSUME LedgerAssumption, RuntimeAssumption, RtInv, TickStep
  PROVE  [Next]_vars
<1> DEFINE D   == {d \in Defs : config[d].present /\ config[d].enabled /\ Due(d) # {}}
           due == [d \in D |-> Max(Due(d))]
           all == [d \in Defs |-> Loaded(d)]
<1>0. TypeOK /\ Shape /\ UNCHANGED clock
  BY DEF TickStep, RtInv, LedgerInv
<1>1. all \in [Defs -> Definition] /\ \A d \in Defs : all[d].id = d
  BY <1>0, LoadedType
<1>2. due \in [D -> 0..clock]
  BY <1>0, DueIsPast
<1>3. CASE AdmitBatch(all, due)
  <2>1. all \in {f \in [Defs -> Definition] : \A d \in Defs : f[d].id = d}
    BY <1>1
  <2>2. D \in SUBSET Defs
    OBVIOUS
  <2> HIDE DEF D, due, all
  <2>3. Admit
    BY <1>2, <1>3, <2>1, <2>2 DEF Admit
  <2> QED
    BY <1>0, <2>3, AdmitsIsNext
<1>4. CASE UNCHANGED ledger
  BY <1>0, <1>4 DEF vars
<1> QED
  BY <1>3, <1>4 DEF TickStep

LEMMA StepImplements ==
  ASSUME LedgerAssumption, RuntimeAssumption, RtInv, [RtNext]_rtVars
  PROVE  [Next]_vars
<1>0. TypeOK /\ Shape
  BY DEF RtInv, LedgerInv
<1>1. CASE Wake(TRUE) \/ Wake(FALSE) \/ Observe \/ EndReconcile \/ EndIntake \/ Crash
  BY <1>1 DEF Wake, Observe, EndReconcile, EndIntake, Crash
<1>2. CASE Apply
  BY <1>2, ApplyImplements
<1>3. CASE PruneStep
  BY <1>3 DEF PruneStep, Next, Mutation
<1>4. CASE TickStep
  BY <1>4, TickImplements
<1>5. CASE Intake
  <2>1. PICK issue \in Issues :
          LET trigger == [kind |-> "event", key |-> issue] IN
          \/ AdmitEvent(Loaded(IntakeDef), trigger)
          \/ \E reason \in FilterReasons : RecordEventRefusal(Loaded(IntakeDef), trigger, reason)
    BY <1>5 DEF Intake
  <2>2. /\ [kind |-> "event", key |-> issue] \in Event
        /\ [kind |-> "event", key |-> issue] \in EventTrigger
    BY DEF Event, EventTrigger
  <2>3. Loaded(IntakeDef) \in Definition
    BY <1>0, LoadedType DEF RuntimeAssumption
  <2>4. Admit
    BY <2>1, <2>2, <2>3 DEF Admit
  <2>5. UNCHANGED clock
    BY <1>5 DEF Intake
  <2> QED
    BY <2>4, <2>5, AdmitsIsNext
<1>6. ASSUME NEW d \in Defs, RunNow(d) PROVE [Next]_vars
  <2>1. Loaded(d) \in Definition /\ AdmitManual(Loaded(d)) /\ UNCHANGED clock
    BY <1>0, <1>6, LoadedType DEF RunNow
  <2>2. Admit
    BY <2>1 DEF Admit
  <2> QED
    BY <2>1, <2>2, AdmitsIsNext
<1>7. ASSUME NEW d \in Defs, Edit(d) PROVE [Next]_vars
  BY <1>7 DEF Edit
<1>8. ASSUME NEW i \in Ids, Dispatch(i) PROVE [Next]_vars
  BY <1>0, <1>8, DispatchImplements
<1>9. ASSUME NEW i \in Ids, Agent(i) PROVE [Next]_vars
  BY <1>9 DEF Agent
<1>10. CASE Restart
  BY <1>10 DEF Restart, Next, Mutation
<1>11. CASE Time
  BY <1>11 DEF Time, Next
<1>12. CASE UNCHANGED rtVars
  BY <1>12 DEF rtVars
<1> QED
  BY <1>1, <1>2, <1>3, <1>4, <1>5, <1>6, <1>7, <1>8, <1>9, <1>10, <1>11, <1>12 DEF RtNext, LoopStep

-----------------------------------------------------------------------------
(* The shape of the runtime's state. *)

LEMMA ShapeAdmission ==
  ASSUME RuntimeAssumption, TypeOK, Shape, NEW state \in {"admitted", "queued"}, Enter(state)
  PROVE  task' \in [Ids -> TaskState] /\ deadline' \in [Ids -> Nat]
<1>1. clock + Duration \in Nat
  BY DEF RuntimeAssumption, TypeOK
<1> QED
  BY <1>1 DEF Enter, Shape, TaskState

LEMMA ShapeSpent ==
  ASSUME RuntimeAssumption, Shape, NEW i \in Ids
  PROVE  /\ Fault => spent' \in Spent
         /\ GivesUp(i) => spent' \in Spent
         /\ spent' = [spent EXCEPT !.faults = @ + 1, !.orphans = @ \cup {i}] => spent' \in Spent
         /\ spent' = [spent EXCEPT !.abandoned = @ \cup {i}] => spent' \in Spent
<1>1. spent \in Spent
  BY DEF Shape
<1>2. /\ spent.faults + 1 \in Nat
      /\ spent.orphans \cup {i} \in SUBSET Ids /\ spent.abandoned \cup {i} \in SUBSET Ids
  BY <1>1 DEF Spent
<1>3. [spent EXCEPT !.faults = spent.faults + 1] \in Spent
  BY <1>1, <1>2 DEF Spent
<1>4. [spent EXCEPT !.faults = spent.faults + 1, !.abandoned = spent.abandoned \cup {i}] \in Spent
  BY <1>1, <1>2 DEF Spent
<1>5. [spent EXCEPT !.faults = spent.faults + 1, !.orphans = spent.orphans \cup {i}] \in Spent
  BY <1>1, <1>2 DEF Spent
<1>6. [spent EXCEPT !.abandoned = spent.abandoned \cup {i}] \in Spent
  BY <1>1, <1>2 DEF Spent
<1> QED
  BY <1>3, <1>4, <1>5, <1>6 DEF Fault, GivesUp

LEMMA ShapeOfStep ==
  ASSUME Shape, NEW i \in Ids, NEW from, NEW to \in TaskState, Step(i, from, to)
  PROVE  task' \in [Ids -> TaskState]
BY DEF Step, Shape

LEMMA ShapeDispatch ==
  ASSUME RuntimeAssumption, Shape, NEW i \in Ids, Dispatch(i)
  PROVE  Shape'
<1>0. UNCHANGED <<config, up, loop, deadline>>
  BY DEF Dispatch, Claim, StartWorkspace, WorkspaceReady, StartPrecheck, PrecheckDone, StartLaunch,
         Launch, Bind, StopOwn, Fail, Check, Quiet
<1>1. ASSUME task' \in [Ids -> TaskState], child' \in [Ids -> ChildState],
             launched' \in [Ids -> Nat], spent' \in Spent
      PROVE  Shape'
  BY <1>0, <1>1 DEF Shape
<1>2. /\ NoEffect => child' \in [Ids -> ChildState] /\ launched' \in [Ids -> Nat]
      /\ UNCHANGED spent => spent' \in Spent
  BY DEF NoEffect, Shape
<1>3. ASSUME NEW next, NEW binding, NEW from, NEW to \in TaskState, NEW otherwise \in TaskState,
             Save(i, next, binding, from, to, otherwise), NoEffect
      PROVE  Shape'
  <2>1. task' \in [Ids -> TaskState]
    BY <1>3, ShapeOfStep DEF Save
  <2>2. spent' \in Spent
    BY <1>2, <1>3, ShapeSpent DEF Save
  <2> QED
    BY <1>1, <1>2, <1>3, <2>1, <2>2
<1>4. ASSUME NEW from, NEW to \in TaskState, Step(i, from, to), NoEffect, spent' \in Spent
      PROVE  Shape'
  BY <1>1, <1>2, <1>4, ShapeOfStep
<1>5. CASE Claim(i)
  BY <1>2, <1>4, <1>5, ShapeSpent DEF Claim, TaskState
<1>6. CASE StartWorkspace(i) \/ StartPrecheck(i) \/ StartLaunch(i)
  BY <1>2, <1>4, <1>6 DEF StartWorkspace, StartPrecheck, StartLaunch, Check, FailStep, TaskState
<1>7. CASE WorkspaceReady(i)
  BY <1>2, <1>3, <1>4, <1>7 DEF WorkspaceReady, FailStep, TaskState
<1>8. CASE PrecheckDone(i)
  BY <1>3, <1>8 DEF PrecheckDone, TaskState
<1>9. CASE Launch(i)
  <2>1. spent' \in Spent
    BY <1>2, <1>9 DEF Launch
  <2>2. CASE FailStep(i, "launching") /\ NoEffect
    BY <1>4, <2>1, <2>2 DEF FailStep, TaskState
  <2>3. CASE /\ Step(i, "launching", "launched")
             /\ child' = [child EXCEPT ![i] = "working"]
             /\ launched' = [launched EXCEPT ![i] = @ + 1]
    <3>1. task' \in [Ids -> TaskState]
      BY <2>3, ShapeOfStep DEF TaskState
    <3>2. child' \in [Ids -> ChildState] /\ launched' \in [Ids -> Nat]
      BY <2>3 DEF Shape, ChildState, Live
    <3> QED
      BY <1>1, <2>1, <3>1, <3>2
  <2> QED
    BY <1>9, <2>2, <2>3 DEF Launch
<1>10. CASE Bind(i)
  <2>1. (IF IsOpen(i) THEN "done" ELSE "unbound") \in TaskState
    BY DEF TaskState
  <2> QED
    BY <1>3, <1>10, <2>1 DEF Bind, TaskState
<1>11. CASE StopOwn(i)
  <2>1. task' \in [Ids -> TaskState]
    BY <1>11, ShapeOfStep DEF StopOwn, FailStep, TaskState
  <2>2. child' \in [Ids -> ChildState] /\ launched' \in [Ids -> Nat]
    BY <1>11 DEF StopOwn, Shape, ChildState, Live
  <2>3. spent' \in Spent
    BY <1>2, <1>11, ShapeSpent DEF StopOwn
  <2> QED
    BY <1>1, <2>1, <2>2, <2>3
<1>12. CASE Fail(i)
  BY <1>2, <1>4, <1>12, ShapeSpent DEF Fail, TaskState
<1> QED
  BY <1>5, <1>6, <1>7, <1>8, <1>9, <1>10, <1>11, <1>12 DEF Dispatch

\* The rows a step does not take back leave the copies behind them.
LEMMA ViewStays ==
  ASSUME LedgerAssumption, RtInv, [Next]_vars, UNCHANGED loop
  PROVE  ViewBehind'
<1>1. TypeOK /\ TypeOK' /\ KeepsRows /\ ViewBehind /\ loop \in Loop
  BY InvStep, StepDisciplined DEF RtInv, LedgerInv, Disciplined, Shape
<1>2. Viewed' = Viewed /\ First' = First
  BY DEF Viewed, First
<1>3. Viewed' \subseteq DOMAIN runs'
  BY <1>1, <1>2 DEF ViewBehind, KeepsRows
<1>4. ASSUME NEW i \in Viewed, loop.view[i].status \in Working
      PROVE  runs'[i].status \notin {"reserved", "prechecking"}
  <2>1. i \in DOMAIN runs /\ runs[i].status \notin {"reserved", "prechecking"}
    BY <1>1, <1>4 DEF ViewBehind
  <2>2. runs[i] \in Run /\ runs'[i] \in Run /\ Moves(runs[i].status, runs'[i].status)
    BY <1>1, <2>1 DEF TypeOK, KeepsRows, Onward
  <2>3. runs[i].status \in Status /\ runs'[i].status \in Status
    BY <2>2 DEF Run
  <2> QED
    BY <2>1, <2>2, <2>3 DEF Moves, Progress
<1> QED
  BY <1>1, <1>2, <1>3, <1>4 DEF ViewBehind

\* A step of the loop itself.
LEMMA LoopShape ==
  ASSUME LedgerAssumption, RuntimeAssumption, RtInv, [RtNext]_rtVars
  PROVE  loop' \in Loop
<1>0. TypeOK /\ loop \in Loop /\ DOMAIN runs \subseteq Ids
  BY RowsAreIds DEF RtInv, LedgerInv, Shape
<1>1. ASSUME NEW timer \in BOOLEAN, Wake(timer) PROVE loop' \in Loop
  <2> DEFINE S == {j \in OpenRows : runs[j].trigger.kind # "pr_review"}
             v == [i \in S |-> [status |-> runs[i].status, bound |-> runs[i].bound,
                                updated |-> runs[i].updated]]
  <2>1. S \in SUBSET Ids
    BY <1>0 DEF OpenRows, Rows
  <2>2. ASSUME NEW i \in S
        PROVE  [status |-> runs[i].status, bound |-> runs[i].bound,
                updated |-> runs[i].updated] \in ViewRow
    <3>1. i \in DOMAIN runs /\ runs[i].status \in OpenStatus
      BY DEF OpenRows, Rows, IsOpen
    <3>2. runs[i] \in Run
      BY <1>0, <3>1 DEF TypeOK
    <3>3. runs[i].updated \in 0..MaxTime
      BY <1>0, <3>1, StampsOf DEF RtInv
    <3> QED
      BY <3>1, <3>2, <3>3 DEF ViewRow, Run
  <2>3. v \in [S -> ViewRow]
    BY <2>2
  <2> HIDE DEF S
  <2>4. v \in UNION {[T -> ViewRow] : T \in SUBSET Ids}
    BY <2>1, <2>3
  <2>5. loop' = [pc |-> "reconcile", timer |-> timer, now |-> clock, next |-> "none", view |-> v]
    BY <1>1 DEF Wake, S
  <2>6. clock \in 0..MaxTime
    BY <1>0 DEF TypeOK
  <2> HIDE DEF v
  <2> QED
    BY <2>4, <2>5, <2>6 DEF Loop, LoopState
<1>2. ASSUME NEW i \in Viewed, Skip(i) PROVE loop' \in Loop
  BY <1>0, <1>2, ViewType DEF Skip, Loop, Viewed
<1>3. ASSUME NEW i \in Viewed, NEW next \in Verdicts, Decide(i, next) PROVE loop' \in Loop
  <2>1. CASE loop' = [loop EXCEPT !.pc = "apply", !.next = next]
    BY <1>0, <2>1 DEF Loop, LoopState
  <2> QED
    BY <1>2, <1>3, <2>1 DEF Decide
<1>4. Viewed # {} => First \in Viewed
  BY <1>0, FirstIsViewed
<1>5. CASE Observe
  <2>1. First \in Viewed
    BY <1>4, <1>5 DEF Observe
  <2>2. Classify(First) \in Verdicts /\ "timed_out" \in Verdicts
    <3>1. child[First] \in ChildState
      BY <1>0, <2>1, ViewType DEF RtInv, Shape, Viewed
    <3> QED
      BY <3>1 DEF Classify, Verdicts, ChildState, Live
  <2> QED
    BY <1>2, <1>3, <1>5, <2>1, <2>2 DEF Observe
<1>6. CASE Apply
  <2>1. First \in Viewed
    BY <1>4, <1>6 DEF Apply, RtInv, ViewBehind
  <2>2. ASSUME loop' = [loop EXCEPT !.pc = "reconcile", !.next = "none", !.view = <<>>]
        PROVE  loop' \in Loop
    BY <1>0, <2>2, EmptyView DEF Loop, LoopState
  <2>3. ASSUME loop' = [loop EXCEPT !.pc = "reconcile", !.next = "none",
                                    !.view = Without(@, First)]
        PROVE  loop' \in Loop
    BY <1>0, <2>1, <2>3, ViewType DEF Loop, LoopState, Viewed
  <2> QED
    BY <1>6, <2>2, <2>3 DEF Apply
<1>7. CASE EndReconcile
  BY <1>0, <1>7, IdleLoop DEF EndReconcile, Loop, LoopState
<1>8. CASE EndIntake \/ PruneStep
  BY <1>0, <1>8, IdleLoop DEF EndIntake, PruneStep, Loop, LoopState
<1>9. CASE TickStep \/ Crash
  BY <1>9, IdleLoop DEF TickStep, Crash
<1>10. CASE Intake \/ Restart \/ Time \/ UNCHANGED rtVars
  BY <1>0, <1>10 DEF Intake, Restart, Time, rtVars
<1>11. ASSUME NEW d \in Defs, RunNow(d) \/ Edit(d) PROVE loop' \in Loop
  BY <1>0, <1>11 DEF RunNow, Edit
<1>12. ASSUME NEW i \in Ids, Dispatch(i) \/ Agent(i) PROVE loop' \in Loop
  BY <1>0, <1>12 DEF Dispatch, Claim, StartWorkspace, WorkspaceReady, StartPrecheck, PrecheckDone,
         StartLaunch, Launch, Bind, StopOwn, Fail, Check, Quiet, Agent
<1> QED
  BY <1>1, <1>5, <1>6, <1>7, <1>8, <1>9, <1>10, <1>11, <1>12 DEF RtNext, LoopStep

LEMMA ShapeStep ==
  ASSUME LedgerAssumption, RuntimeAssumption, RtInv, [RtNext]_rtVars
  PROVE  Shape'
<1>0. TypeOK /\ Shape /\ loop' \in Loop
  BY LoopShape DEF RtInv, LedgerInv
<1>1. CASE Wake(TRUE) \/ Wake(FALSE) \/ EndReconcile \/ PruneStep \/ Restart \/ Time \/ UNCHANGED rtVars
  BY <1>0, <1>1 DEF Shape, Wake, EndReconcile, PruneStep, Restart, Time, rtVars
<1>2. CASE Observe
  <2>1. spent' \in Spent
    <3>1. UNCHANGED spent \/ Fault
      BY <1>2 DEF Observe
    <3> QED
      BY <1>0, <3>1 DEF Fault, Shape, Spent
  <2>2. child' \in [Ids -> ChildState]
    <3>1. UNCHANGED child \/ child' = [child EXCEPT ![First] = "stopped"]
      BY <1>2 DEF Observe
    <3> QED
      BY <1>0, <3>1 DEF Shape, ChildState
  <2> QED
    BY <1>0, <1>2, <2>1, <2>2 DEF Observe, Shape
<1>3. CASE Apply
  <2>1. UNCHANGED spent \/ Fault
    BY <1>3 DEF Apply
  <2>2. spent' \in Spent
    BY <1>0, <2>1 DEF Fault, Shape, Spent
  <2> QED
    BY <1>0, <1>3, <2>2 DEF Apply, Shape
<1>4. CASE EndIntake
  <2>1. task' \in [Ids -> TaskState]
    BY <1>0, <1>4 DEF EndIntake, Shape, Released, TaskState
  <2> QED
    BY <1>0, <1>4, <2>1 DEF EndIntake, Shape
<1>5. CASE TickStep
  <2>1. task' \in [Ids -> TaskState]
    BY <1>0, <1>5 DEF TickStep, Shape, Released, TaskState
  <2>2. clock + Duration \in Nat
    BY <1>0 DEF RuntimeAssumption, TypeOK
  <2>3. deadline' \in [Ids -> Nat]
    BY <1>0, <1>5, <2>2 DEF TickStep, Shape
  <2>4. spent' \in Spent
    <3>1. UNCHANGED spent \/ Fault
      BY <1>5 DEF TickStep
    <3> QED
      BY <1>0, <3>1 DEF Fault, Shape, Spent
  <2> QED
    BY <1>0, <1>5, <2>1, <2>3, <2>4 DEF TickStep, Shape
<1>6. CASE Intake
  BY <1>0, <1>6, ShapeAdmission DEF Intake, Shape
<1>7. ASSUME NEW d \in Defs, RunNow(d) PROVE Shape'
  BY <1>0, <1>7, ShapeAdmission DEF RunNow, Shape
<1>8. ASSUME NEW d \in Defs, Edit(d) PROVE Shape'
  <2>1. config' \in Config
    <3>1. config \in Config /\ config[d] \in [present : BOOLEAN, enabled : BOOLEAN, rev : Revs]
      BY <1>0 DEF Shape, Config
    <3>2. PICK new \in [present : BOOLEAN, enabled : BOOLEAN, rev : Revs] :
            config' = [config EXCEPT ![d] = new]
      <4>1. CASE config' = [config EXCEPT ![d].enabled = ~ @]
        BY <3>1, <4>1
      <4>2. ASSUME NEW rev \in Revs, config' = [config EXCEPT ![d].rev = rev]
            PROVE  \E new \in [present : BOOLEAN, enabled : BOOLEAN, rev : Revs] :
                     config' = [config EXCEPT ![d] = new]
        BY <3>1, <4>2
      <4>3. CASE config' = [config EXCEPT ![d].present = FALSE]
        BY <3>1, <4>3
      <4> QED
        BY <1>8, <4>1, <4>2, <4>3 DEF Edit
    <3> QED
      BY <3>1, <3>2 DEF Config
  <2>2. spent' \in Spent
    BY <1>0, <1>8 DEF Edit, Shape, Spent
  <2> QED
    BY <1>0, <1>8, <2>1, <2>2 DEF Edit, Shape
<1>9. ASSUME NEW i \in Ids, Dispatch(i) PROVE Shape'
  BY <1>0, <1>9, ShapeDispatch
<1>10. ASSUME NEW i \in Ids, Agent(i) PROVE Shape'
  <2>1. child' \in [Ids -> ChildState]
    BY <1>0, <1>10 DEF Agent, Shape, RuntimeAssumption, ChildState, Live
  <2> QED
    BY <1>0, <1>10, <2>1 DEF Agent, Shape
<1>11. CASE Crash
  <2>1. spent' \in Spent
    BY <1>0, <1>11 DEF Crash, Shape, Spent
  <2>2. task' \in [Ids -> TaskState] /\ child' \in [Ids -> ChildState]
    BY <1>0, <1>11 DEF Crash, Shape, TaskState, ChildState
  <2> QED
    BY <1>0, <1>11, <2>1, <2>2 DEF Crash, Shape
<1> QED
  BY <1>1, <1>2, <1>3, <1>4, <1>5, <1>6, <1>7, <1>8, <1>9, <1>10, <1>11 DEF RtNext, LoopStep

\* A step of the loop itself: new copies are the rows as they are, a decision is
\* taken on a copy.
LEMMA ViewStep ==
  ASSUME LedgerAssumption, RuntimeAssumption, RtInv, [RtNext]_rtVars
  PROVE  ViewBehind'
<1>0. /\ TypeOK /\ TypeOK' /\ loop \in Loop /\ DOMAIN runs \subseteq Ids /\ ViewBehind
      /\ [Next]_vars
  BY RowsAreIds, StepImplements, InvStep DEF RtInv, LedgerInv, Shape
<1>1. UNCHANGED loop => ViewBehind'
  BY <1>0, ViewStays
<1>2. ASSUME loop'.view = <<>> \/ loop' = Idle \/ DOMAIN loop'.view = {}, loop'.pc # "apply"
      PROVE  ViewBehind'
  <2>1. Viewed' = {}
    BY <1>2, EmptyView, IdleLoop DEF Viewed
  <2> QED
    BY <1>2, <2>1 DEF ViewBehind
<1>3. ASSUME NEW timer, Wake(timer) PROVE ViewBehind'
  <2>1. UNCHANGED runs /\ loop'.pc = "reconcile"
    BY <1>3 DEF Wake, vars, ledger
  <2>2. /\ Viewed' \subseteq OpenRows
        /\ \A i \in Viewed' : loop'.view[i].status = runs[i].status
    BY <1>3 DEF Wake, Viewed
  <2> QED
    BY <2>1, <2>2 DEF ViewBehind, OpenRows, Rows, Working
<1>4. Viewed # {} => First \in Viewed
  BY <1>0, FirstIsViewed
<1>5. ASSUME NEW i \in Viewed, UNCHANGED runs, loop'.view = Without(loop.view, i), loop'.pc # "apply"
      PROVE  ViewBehind'
  <2>1. Viewed' = Viewed \ {i} /\ \A j \in Viewed' : loop'.view[j] = loop.view[j]
    <3>1. /\ DOMAIN Without(loop.view, i) = DOMAIN loop.view \ {i}
          /\ \A j \in DOMAIN loop.view \ {i} : Without(loop.view, i)[j] = loop.view[j]
      BY <1>0, ViewType
    <3> QED
      BY <1>5, <3>1 DEF Viewed
  <2> QED
    BY <1>0, <1>5, <2>1 DEF ViewBehind
<1>6. CASE Observe
  <2> DEFINE i == First
  <2>1. i \in Viewed /\ UNCHANGED runs /\ loop.pc = "reconcile"
    BY <1>4, <1>6 DEF Observe, vars, ledger
  <2>2. CASE Skip(i)
    <3>1. loop'.view = Without(loop.view, i) /\ loop'.pc = "reconcile"
      BY <1>0, <2>1, <2>2 DEF Skip, Loop
    <3> QED
      BY <1>5, <2>1, <3>1
  <2>3. ASSUME NEW next \in Verdicts, next \in Working => loop.view[i].status \in Working,
               loop' = [loop EXCEPT !.pc = "apply", !.next = next]
        PROVE  ViewBehind'
    <3>1. loop'.view = loop.view /\ loop'.pc = "apply" /\ loop'.next = next
      BY <1>0, <2>3 DEF Loop
    <3>2. Viewed' = Viewed /\ First' = First
      BY <3>1 DEF Viewed, First
    <3>3. next # "none"
      BY <2>3 DEF Verdicts
    <3> QED
      BY <1>0, <2>1, <2>3, <3>1, <3>2, <3>3 DEF ViewBehind
  <2>4. CASE Decide(i, "timed_out")
    BY <2>2, <2>3, <2>4 DEF Decide, Verdicts, Working
  <2>5. CASE loop.view[i].status \in {"running", "needs_you"} /\ Decide(i, Classify(i))
    <3>1. Classify(i) \in Verdicts
      <4>1. child[i] \in ChildState
        BY <1>0, <2>1, ViewType DEF RtInv, Shape, Viewed
      <4> QED
        BY <4>1 DEF Classify, Verdicts, ChildState, Live
    <3> QED
      BY <2>2, <2>3, <2>5, <3>1 DEF Decide, Working
  <2> QED
    BY <1>6, <2>2, <2>4, <2>5 DEF Observe
<1>7. CASE Apply
  <2> DEFINE i == First
  <2>1. i \in Viewed
    BY <1>0, <1>4, <1>7 DEF Apply, ViewBehind
  <2>2. CASE loop' = [loop EXCEPT !.pc = "reconcile", !.next = "none", !.view = <<>>]
    <3>1. loop'.view = <<>> /\ loop'.pc = "reconcile"
      BY <1>0, <2>2 DEF Loop
    <3> QED
      BY <1>2, <3>1
  <2>3. CASE loop' = [loop EXCEPT !.pc = "reconcile", !.next = "none", !.view = Without(@, i)]
    <3>1. loop'.view = Without(loop.view, i) /\ loop'.pc = "reconcile"
      BY <1>0, <2>3 DEF Loop
    <3>2. Viewed' = Viewed \ {i} /\ \A j \in Viewed' : loop'.view[j] = loop.view[j]
      <4>1. /\ DOMAIN Without(loop.view, i) = DOMAIN loop.view \ {i}
            /\ \A j \in DOMAIN loop.view \ {i} : Without(loop.view, i)[j] = loop.view[j]
        BY <1>0, ViewType
      <4> QED
        BY <3>1, <4>1 DEF Viewed
    <3>3. KeepsRows
      BY <1>0, StepDisciplined DEF RtInv, Disciplined
    <3>4. ASSUME NEW j \in Viewed', loop'.view[j].status \in Working
          PROVE  runs'[j].status \notin {"reserved", "prechecking"}
      <4>1. j \in DOMAIN runs /\ runs[j].status \notin {"reserved", "prechecking"}
        BY <1>0, <3>2, <3>4 DEF ViewBehind
      <4>2. runs[j] \in Run /\ runs'[j] \in Run /\ Moves(runs[j].status, runs'[j].status)
        BY <1>0, <3>3, <4>1 DEF TypeOK, KeepsRows, Onward
      <4>3. runs[j].status \in Status /\ runs'[j].status \in Status
        BY <4>2 DEF Run
      <4> QED
        BY <4>1, <4>2, <4>3 DEF Moves, Progress
    <3>5. Viewed' \subseteq DOMAIN runs'
      BY <1>0, <3>2, <3>3 DEF ViewBehind, KeepsRows
    <3> QED
      BY <3>1, <3>4, <3>5 DEF ViewBehind
  <2> QED
    BY <1>7, <2>2, <2>3 DEF Apply
<1>8. CASE EndReconcile
  <2>1. loop'.pc = "intake" /\ DOMAIN loop'.view = {}
    BY <1>8, EmptyView DEF EndReconcile, Idle
  <2> QED
    BY <1>2, <2>1
<1>9. CASE EndIntake \/ PruneStep
  <2>1. CASE loop' = Idle
    BY <1>2, <2>1, IdleLoop
  <2>2. CASE loop' = [loop EXCEPT !.pc = "prune"] \/ loop' = [loop EXCEPT !.pc = "tick"]
    <3>1. loop'.view = loop.view /\ loop'.pc # "apply"
      BY <1>0, <2>2 DEF Loop
    <3>2. Viewed' = Viewed /\ UNCHANGED runs
      BY <1>9, <3>1 DEF Viewed, EndIntake, PruneStep, Prune, vars, ledger
    <3> QED
      BY <1>0, <3>1, <3>2 DEF ViewBehind
  <2> QED
    BY <1>9, <2>1, <2>2 DEF EndIntake, PruneStep
<1>10. CASE TickStep \/ Crash
  BY <1>2, <1>10, IdleLoop DEF TickStep, Crash
<1>11. CASE Intake \/ Restart \/ Time \/ UNCHANGED rtVars
  BY <1>1, <1>11 DEF Intake, Restart, Time, rtVars
<1>12. ASSUME NEW d \in Defs, RunNow(d) \/ Edit(d) PROVE ViewBehind'
  BY <1>1, <1>12 DEF RunNow, Edit
<1>13. ASSUME NEW i \in Ids, Dispatch(i) \/ Agent(i) PROVE ViewBehind'
  BY <1>1, <1>13 DEF Dispatch, Claim, StartWorkspace, WorkspaceReady, StartPrecheck, PrecheckDone,
         StartLaunch, Launch, Bind, StopOwn, Fail, Check, Quiet, Agent
<1> QED
  BY <1>3, <1>6, <1>7, <1>8, <1>9, <1>10, <1>11, <1>12, <1>13 DEF RtNext, LoopStep

-----------------------------------------------------------------------------
(* Rows, tasks and agents. *)

\* A row whose status and binding a step leaves alone.
Same(i) ==
  /\ i \in DOMAIN runs' <=> i \in DOMAIN runs
  /\ i \in DOMAIN runs => /\ runs'[i].status = runs[i].status
                          /\ runs'[i].bound = runs[i].bound
\* What a step that is not about row i leaves as it was, or takes nothing from.
Aside(i) ==
  /\ task'[i] = task[i] \/ (task[i] = "admitted" /\ task'[i] = "queued")
  /\ launched'[i] = launched[i]
  /\ child'[i] = child[i] \/ (i \in DOMAIN runs /\ (child'[i] \in Live => child[i] \in Live))
  /\ up' => up
  /\ pruned \subseteq pruned'
  /\ spent.orphans \subseteq spent.orphans' /\ spent.abandoned \subseteq spent.abandoned'

LEMMA RowKept ==
  ASSUME NEW i \in Ids, RowInv(i), Same(i), Aside(i)
  PROVE  RowInv(i)'
<1>1. CASE i \notin DOMAIN runs
  BY <1>1 DEF RowInv, Same, Aside
<1>2. CASE i \in DOMAIN runs
  <2>1. /\ i \in DOMAIN runs' /\ runs'[i].status = runs[i].status
        /\ runs'[i].bound = runs[i].bound
    BY <1>2 DEF Same
  <2>2. WorkIsBound(i)'
    BY <1>2, <2>1 DEF RowInv, WorkIsBound, Aside
  <2>3. TaskFits(i)'
    BY <1>2, <2>1 DEF RowInv, TaskFits, Aside, BeforeLaunch
  <2>4. ChildOwned(i)'
    BY <1>2, <2>1 DEF RowInv, ChildOwned, Aside, Live
  <2>5. Tended(i)'
    BY <1>2, <2>1 DEF RowInv, Tended, Aside, Active
  <2> QED
    BY <2>1, <2>2, <2>3, <2>4, <2>5 DEF RowInv
<1> QED
  BY <1>1, <1>2

\* A run that a step ends keeps its binding; no task and no agent is left out.
LEMMA RowEnds ==
  ASSUME NEW i \in Ids, RowInv(i), i \in DOMAIN runs, i \in DOMAIN runs',
         runs'[i].status \in Status \ (OpenStatus \cup NeverLaunched),
         runs[i].bound => runs'[i].bound,
         task'[i] = task[i], launched'[i] = launched[i], child'[i] = child[i],
         spent.orphans \subseteq spent.orphans'
  PROVE  RowInv(i)'
<1>1. /\ runs'[i].status \notin NeverLaunched /\ runs'[i].status \notin Working
      /\ runs'[i].status \notin {"reserved", "prechecking", "running", "needs_you"}
  BY StatusKinds DEF Working
<1>2. WorkIsBound(i)' /\ Tended(i)'
  BY <1>1 DEF WorkIsBound, Tended
<1>3. TaskFits(i)'
  BY <1>1 DEF RowInv, TaskFits
<1>4. ChildOwned(i)'
  BY DEF RowInv, ChildOwned
<1> QED
  BY <1>2, <1>3, <1>4 DEF RowInv

\* A row that an admission adds: reserved with a task, or over from the start.
LEMMA RowEnters ==
  ASSUME NEW i \in Ids, RowInv(i), i \notin DOMAIN runs, i \in DOMAIN runs',
         \/ /\ runs'[i].status = "reserved" /\ task'[i] \in {"admitted", "queued"}
         \/ runs'[i].status \in NeverLaunched /\ task'[i] = task[i],
         launched'[i] = launched[i], child'[i] = child[i]
  PROVE  RowInv(i)'
<1>1. /\ launched'[i] = 0 /\ child'[i] = "none" /\ task[i] = "none"
  BY DEF RowInv
<1>2. runs'[i].status = "reserved" => runs'[i].status \notin NeverLaunched \cup Working
  BY DEF NeverLaunched, Working, Refusals
<1>3. runs'[i].status \in NeverLaunched
        => runs'[i].status \notin {"reserved", "prechecking", "running", "needs_you"}
  BY DEF NeverLaunched, Refusals
<1>4. WorkIsBound(i)'
  BY <1>2, <1>3 DEF WorkIsBound, Working
<1>5. TaskFits(i)'
  BY <1>1, <1>2, <1>3 DEF TaskFits, BeforeLaunch
<1>6. ChildOwned(i)' /\ Tended(i)'
  BY <1>1, <1>3 DEF ChildOwned, Tended, Live, Active
<1> QED
  BY <1>4, <1>5, <1>6 DEF RowInv

\* An admission changes no status, and what it adds is reserved or refused.
AdmissionRows ==
  /\ \A i \in DOMAIN runs : Same(i)
  /\ \A i \in Added : runs'[i].status = "reserved" \/ runs'[i].status \in NeverLaunched

LEMMA AppendRows ==
  ASSUME TypeOK, NEW row, runs' = Append(runs, row),
         row.status = "reserved" \/ row.status \in NeverLaunched
  PROVE  AdmissionRows
<1>1. runs \in Seq(Run)
  BY DEF TypeOK
<1>2. /\ DOMAIN runs' = DOMAIN runs \cup {Len(runs) + 1}
      /\ runs'[Len(runs) + 1] = row
      /\ \A i \in DOMAIN runs : runs'[i] = runs[i]
  BY <1>1
<1> QED
  BY <1>2 DEF AdmissionRows, Same, Added

LEMMA RefusalRowsKept ==
  ASSUME TypeOK, NEW definition, NEW trigger, NEW status \in Refusals, NEW reason,
         RecordRefusal(definition, trigger, status, reason)
  PROVE  AdmissionRows
<1> DEFINE row == [NewRun(definition, trigger, status) EXCEPT !.outcome = OutcomeOf(status)]
           same == {x \in decisions : x.def = definition.id /\ x.trigger = trigger
                                      /\ x.reason = reason}
<1>1. CASE same # {}
  <2>1. PICK k : runs' = [runs EXCEPT ![k].outcome = OutcomeOf(status),
                                      ![k].updated = Stamp(Latest(clock, @))]
    BY <1>1 DEF RecordRefusal
  <2> DEFINE new == [runs[k] EXCEPT !.outcome = OutcomeOf(status),
                                    !.updated = Stamp(Latest(clock, @))]
  <2>2. runs' = [runs EXCEPT ![k] = new]
    BY <2>1
  <2>3. k \in DOMAIN runs => new.status = runs[k].status /\ new.bound = runs[k].bound
    <3>1. k \in DOMAIN runs => runs[k] \in Run
      BY DEF TypeOK
    <3> QED
      BY <3>1 DEF Run
  <2> HIDE DEF new
  <2>4. DOMAIN runs' = DOMAIN runs
        /\ \A i \in DOMAIN runs : runs'[i] = IF i = k THEN new ELSE runs[i]
    BY <2>2 DEF TypeOK
  <2> QED
    BY <2>3, <2>4 DEF AdmissionRows, Same, Added
<1>2. CASE same = {}
  <2>1. runs' = Append(runs, row)
    BY <1>2 DEF RecordRefusal
  <2>2. row.status \in NeverLaunched
    BY DEF NewRun, NeverLaunched
  <2> HIDE DEF row
  <2> QED
    BY <2>1, <2>2, AppendRows
<1> QED
  BY <1>1, <1>2

LEMMA BatchRows ==
  ASSUME LedgerAssumption, TypeOK,
         NEW definitions \in [Defs -> Definition],
         NEW D \in SUBSET Defs, NEW due \in [D -> 0..clock],
         AdmitBatch(definitions, due)
  PROVE  AdmissionRows
<1> DEFINE fresh == Fresh(definitions, due)
           n     == Cardinality(fresh)
<1>1. BatchAdded(definitions, due, fresh, n)
  BY BatchShape
<1>2. PICK order \in [1..n -> fresh] :
        /\ \A i \in DOMAIN runs : i \in DOMAIN runs' /\ runs'[i] = runs[i]
        /\ \A i \in DOMAIN runs' \ DOMAIN runs :
             runs'[i] = BatchRow(definitions, due, order[i - Len(runs)])
  BY <1>1 DEF BatchAdded
<1>3. ASSUME NEW d
      PROVE  \/ BatchRow(definitions, due, d).status = "reserved"
             \/ BatchRow(definitions, due, d).status \in NeverLaunched
  <2>1. Verdict(Fresh(definitions, due), due, d)
          \in {"skipped_missed", "skipped_overlap", "skipped_concurrency", "reserved"}
    BY CapacityStatusType DEF Verdict
  <2> QED
    BY <2>1, NewRunFields DEF BatchRow, NeverLaunched, Refusals
<1> HIDE DEF fresh, n
<1> QED
  BY <1>2, <1>3 DEF AdmissionRows, Same, Added

LEMMA ManualRows ==
  ASSUME TypeOK, NEW definition, AdmitManual(definition)
  PROVE  AdmissionRows
<1> DEFINE row == NewRun(definition, [kind |-> "manual"], CapacityStatus(definition.id, 0))
<1>1. runs' = Append(runs, row)
  BY DEF AdmitManual
<1>2. row.status = "reserved" \/ row.status \in NeverLaunched
  BY NewRunFields, CapacityStatusType DEF NeverLaunched, Refusals
<1> HIDE DEF row
<1> QED
  BY <1>1, <1>2, AppendRows

LEMMA EventRows ==
  ASSUME TypeOK, NEW definition, NEW trigger,
         \/ AdmitEvent(definition, trigger)
         \/ \E reason : RecordEventRefusal(definition, trigger, reason)
  PROVE  AdmissionRows
<1> DEFINE answer == EventAnswer(definition, trigger)
           row    == NewRun(definition, trigger, "reserved")
<1>1. ASSUME AdmitEvent(definition, trigger), answer = "reserved" PROVE AdmissionRows
  <2>1. runs' = Append(runs, row) /\ row.status = "reserved"
    BY <1>1, NewRunFields DEF AdmitEvent
  <2> HIDE DEF row
  <2> QED
    BY <2>1, AppendRows
<1>2. ASSUME AdmitEvent(definition, trigger), answer # "reserved" PROVE AdmissionRows
  <2>1. answer \in Refusals
    BY <1>2, CapacityStatusType DEF EventAnswer, Refusals
  <2>2. RecordRefusal(definition, trigger, answer, answer)
    BY <1>2 DEF AdmitEvent
  <2> QED
    BY <2>1, <2>2, RefusalRowsKept
<1>3. ASSUME NEW reason, RecordEventRefusal(definition, trigger, reason) PROVE AdmissionRows
  BY <1>3, RefusalRowsKept DEF RecordEventRefusal, Refusals
<1> QED
  BY <1>1, <1>2, <1>3

\* A transition moves one open row, or no row at all.
LEMMA TransitionRow ==
  ASSUME TypeOK, NEW i, NEW next, NEW binding \in BOOLEAN, NEW now, Transition(i, next, binding, now)
  PROVE  /\ i \in Rows /\ pruned' = pruned
         /\ DOMAIN runs' = DOMAIN runs
         /\ \A j \in DOMAIN runs : j # i => runs'[j] = runs[j]
         /\ ~ IsOpen(i) => runs' = runs
         /\ IsOpen(i) => /\ ~ Backwards(i, next)
                         /\ runs'[i].status = next
                         /\ runs'[i].bound = (runs[i].bound \/ binding)
<1>1. i \in Rows /\ pruned' = pruned /\ (IsOpen(i) => ~ Backwards(i, next))
  BY DEF Transition, TransitionError
<1>2. CASE ~ IsOpen(i)
  BY <1>1, <1>2 DEF Transition
<1>3. CASE IsOpen(i)
  <2> DEFINE row == Transitioned(runs[i], next, binding, now)
  <2>1. i \in DOMAIN runs /\ runs[i] \in Run
    BY <1>1 DEF TypeOK, Rows
  <2>2. row.status = next /\ row.bound = (runs[i].bound \/ binding)
    BY <2>1 DEF Transitioned, Run
  <2>3. runs' = [runs EXCEPT ![i] = row]
    BY <1>3 DEF Transition
  <2> HIDE DEF row
  <2>4. DOMAIN runs' = DOMAIN runs
        /\ \A j \in DOMAIN runs : runs'[j] = IF j = i THEN row ELSE runs[j]
    BY <2>3 DEF TypeOK
  <2> QED
    BY <1>1, <1>3, <2>1, <2>2, <2>4
<1> QED
  BY <1>2, <1>3

\* The other rows, tasks and agents are not concerned by a dispatch.
LEMMA DispatchElsewhere ==
  ASSUME RtInv, NEW i \in Ids, NEW j \in Ids, i # j, Dispatch(j)
  PROVE  Same(i) /\ Aside(i)
<1>0. TypeOK /\ Shape
  BY DEF RtInv, LedgerInv
<1>1. UNCHANGED ledger => Same(i) /\ pruned' = pruned
  BY DEF ledger, Same
<1>2. ASSUME NEW next, NEW binding \in BOOLEAN, NEW now, Transition(j, next, binding, now)
      PROVE  Same(i) /\ pruned' = pruned
  BY <1>0, <1>2, TransitionRow DEF Same
<1>3. ClaimDispatch(j) => Same(i) /\ pruned' = pruned
  BY <1>0 DEF ClaimDispatch, Same, TypeOK
<1>4. ASSUME NEW from, NEW to, Step(j, from, to) PROVE task'[i] = task[i]
  BY <1>0, <1>4 DEF Step, Shape
<1>5. ASSUME NEW next, NEW binding \in BOOLEAN, NEW from, NEW to, NEW otherwise,
             Save(j, next, binding, from, to, otherwise)
      PROVE  Same(i) /\ pruned' = pruned /\ task'[i] = task[i]
  BY <1>1, <1>2, <1>4, <1>5 DEF Save
<1>6. ASSUME NEW next, NEW binding, NEW from, NEW to, NEW otherwise,
             Save(j, next, binding, from, to, otherwise)
      PROVE  UNCHANGED spent \/ Fault
  BY <1>6 DEF Save
<1>7. ASSUME UNCHANGED spent \/ Fault \/ GivesUp(j)
             \/ spent' = [spent EXCEPT !.abandoned = @ \cup {j}]
             \/ spent' = [spent EXCEPT !.faults = @ + 1, !.orphans = @ \cup {j}]
      PROVE  spent.orphans \subseteq spent.orphans' /\ spent.abandoned \subseteq spent.abandoned'
  BY <1>0, <1>7 DEF Fault, GivesUp, Shape, Spent
<1>8. Same(i) /\ pruned' = pruned /\ task'[i] = task[i]
  BY <1>1, <1>2, <1>3, <1>4, <1>5 DEF Dispatch, Claim, StartWorkspace, WorkspaceReady, StartPrecheck,
     PrecheckDone, StartLaunch, Launch, Bind, StopOwn, Fail, Check, FailStep
<1>9. /\ UNCHANGED spent \/ Fault \/ GivesUp(j)
         \/ spent' = [spent EXCEPT !.abandoned = @ \cup {j}]
         \/ spent' = [spent EXCEPT !.faults = @ + 1, !.orphans = @ \cup {j}]
  BY <1>6 DEF Dispatch, Claim, StartWorkspace, WorkspaceReady, StartPrecheck,
     PrecheckDone, StartLaunch, Launch, Bind, StopOwn, Fail, Check
<1>10. child'[i] = child[i] /\ launched'[i] = launched[i] /\ up' = up
  BY <1>0 DEF Dispatch, Claim, StartWorkspace, WorkspaceReady, StartPrecheck,
     PrecheckDone, StartLaunch, Launch, Bind, StopOwn, Fail, Check, NoEffect, Quiet, Shape
<1> QED
  <2>1. spent.orphans \subseteq spent.orphans' /\ spent.abandoned \subseteq spent.abandoned'
    BY <1>7, <1>9
  <2> QED
    BY <1>8, <1>10, <2>1 DEF Aside

\* A task goes on or fails, while its row and its agent stay as they are.
LEMMA TaskMoves ==
  ASSUME NEW i \in Ids, RowInv(i), i \in DOMAIN runs, Same(i),
         launched'[i] = launched[i], child'[i] = child[i], up' = up, pruned' = pruned,
         spent.orphans \subseteq spent.orphans', spent.abandoned \subseteq spent.abandoned',
         task[i] \notin {"launched", "unbound"}
           \/ task'[i] = "unbound"
           \/ ~ (child[i] \in Live /\ ~ runs[i].bound),
         task'[i] \in BeforeLaunch => task[i] \in BeforeLaunch,
         task'[i] \notin {"none", "admitted", "queued", "launched"},
         task'[i] = "done" =>
           \/ runs[i].status \notin {"reserved", "prechecking"}
           \/ i \in pruned \/ i \in spent.abandoned'
  PROVE  RowInv(i)'
<1>1. i \in DOMAIN runs' /\ runs'[i].status = runs[i].status /\ runs'[i].bound = runs[i].bound
  BY DEF Same
<1>2. WorkIsBound(i)'
  BY <1>1 DEF RowInv, WorkIsBound
<1>3. TaskFits(i)'
  BY <1>1 DEF RowInv, TaskFits
<1>4. ChildOwned(i)'
  BY <1>1 DEF RowInv, ChildOwned
<1>5. Tended(i)'
  BY <1>1 DEF RowInv, Tended, Active
<1> QED
  BY <1>1, <1>2, <1>3, <1>4, <1>5 DEF RowInv

\* What a dispatch step always knows of its own row.
LEMMA TaskOfRow ==
  ASSUME RtInv, NEW i \in Ids, NEW from, NEW to, Step(i, from, to), from # "none"
  PROVE  /\ i \in DOMAIN runs /\ RowInv(i) /\ up /\ task[i] = from /\ task'[i] = to
<1>1. RowInv(i) /\ task[i] = from /\ task'[i] = to /\ up
  BY DEF RtInv, Shape, Step
<1> QED
  BY <1>1 DEF RowInv

LEMMA SpentGrows ==
  ASSUME Shape, NEW i
  PROVE  /\ UNCHANGED spent \/ Fault =>
              spent.orphans' = spent.orphans /\ spent.abandoned' = spent.abandoned
         /\ GivesUp(i) \/ spent' = [spent EXCEPT !.abandoned = @ \cup {i}] =>
              spent.orphans' = spent.orphans /\ spent.abandoned' = spent.abandoned \cup {i}
BY DEF Shape, Spent, Fault, GivesUp

\* A transition that could not be saved leaves the row to the next step of its task.
LEMMA SaveFails ==
  ASSUME RtInv, NEW i \in Ids, NEW next, NEW from, NEW otherwise,
         from # "none", Step(i, from, otherwise),
         \/ TransitionError(i, next, clock) /\ UNCHANGED <<ledger, spent>>
         \/ Fault /\ UNCHANGED ledger,
         NoEffect, Quiet,
         \/ from \in BeforeLaunch /\ otherwise = "failing"
         \/ from = "launched" /\ otherwise = "unbound"
  PROVE  RowInv(i)'
<1>1. /\ i \in DOMAIN runs /\ RowInv(i) /\ task[i] = from /\ task'[i] = otherwise
  BY TaskOfRow
<1>2. Same(i) /\ pruned' = pruned /\ up' = up /\ child'[i] = child[i] /\ launched'[i] = launched[i]
  BY DEF ledger, Same, NoEffect, Quiet
<1>3. spent.orphans' = spent.orphans /\ spent.abandoned' = spent.abandoned
  BY SpentGrows DEF RtInv
<1> QED
  BY <1>1, <1>2, <1>3, TaskMoves DEF BeforeLaunch

LEMMA ClaimRow ==
  ASSUME RtInv, NEW i \in Ids, Claim(i)
  PROVE  RowInv(i)'
<1>0. TypeOK /\ Shape /\ NoEffect /\ Quiet
  BY DEF RtInv, LedgerInv, Claim
<1>1. i \in DOMAIN runs /\ RowInv(i) /\ up /\ task[i] = "queued"
  BY TaskOfRow DEF Claim
<1>2. up' = up /\ child'[i] = child[i] /\ launched'[i] = launched[i]
  BY <1>0 DEF NoEffect, Quiet
<1>3. CASE Step(i, "queued", "claimed") /\ ClaimDispatch(i) /\ UNCHANGED spent
  <2>1. task'[i] = "claimed"
    BY <1>3, TaskOfRow
  <2>2. runs[i] \in Run /\ runs[i].status = "reserved"
    BY <1>0, <1>1, <1>3 DEF TypeOK, ClaimDispatch, Claimable
  <2>3. /\ i \in DOMAIN runs' /\ runs'[i].status = "prechecking"
        /\ runs'[i].bound = runs[i].bound
    <3> DEFINE row == [runs[i] EXCEPT !.status = "prechecking",
                                      !.updated = Stamp(Latest(clock, @))]
    <3>1. row.status = "prechecking" /\ row.bound = runs[i].bound
      BY <2>2 DEF Run
    <3>2. runs' = [runs EXCEPT ![i] = row]
      BY <1>3 DEF ClaimDispatch
    <3> HIDE DEF row
    <3> QED
      BY <1>0, <1>1, <3>1, <3>2 DEF TypeOK
  <2>4. WorkIsBound(i)' /\ TaskFits(i)'
    BY <1>1, <1>2, <2>1, <2>3 DEF WorkIsBound, TaskFits, RowInv, Working, BeforeLaunch,
       NeverLaunched, Refusals
  <2>5. ChildOwned(i)'
    BY <1>1, <1>2, <1>3, <2>1, <2>3 DEF ChildOwned, RowInv
  <2>6. Tended(i)'
    BY <2>1 DEF Tended, Active
  <2> QED
    BY <2>3, <2>4, <2>5, <2>6 DEF RowInv
<1>4. CASE Step(i, "queued", "done") /\ ~ Claimable(i) /\ UNCHANGED <<ledger, spent>>
  <2>1. task'[i] = "done" /\ Same(i) /\ pruned' = pruned
    BY <1>4, TaskOfRow DEF ledger, Same
  <2>2. runs[i].status \notin {"reserved", "prechecking"} \/ i \in pruned
    BY <1>1, <1>4 DEF RowInv, TaskFits, Claimable, Rows
  <2> QED
    BY <1>1, <1>2, <1>4, <2>1, <2>2, TaskMoves DEF BeforeLaunch
<1>5. CASE Step(i, "queued", "done") /\ GivesUp(i) /\ UNCHANGED ledger
  <2>1. task'[i] = "done" /\ Same(i) /\ pruned' = pruned
    BY <1>5, TaskOfRow DEF ledger, Same
  <2>2. spent.orphans' = spent.orphans /\ spent.abandoned' = spent.abandoned \cup {i}
    BY <1>0, <1>5, SpentGrows
  <2> QED
    BY <1>1, <1>2, <2>1, <2>2, TaskMoves DEF BeforeLaunch
<1> QED
  BY <1>3, <1>4, <1>5 DEF Claim

\* Between the claim and the launch: checks that write nothing.
LEMMA CheckRow ==
  ASSUME RtInv, NEW i \in Ids, StartWorkspace(i) \/ StartPrecheck(i) \/ StartLaunch(i)
  PROVE  RowInv(i)'
<1>0. /\ NoEffect /\ Quiet /\ UNCHANGED <<ledger, spent>>
  BY DEF StartWorkspace, StartPrecheck, StartLaunch, Check
<1>1. PICK from \in {"claimed", "resolved", "ready"},
           to \in {"resolving", "checking", "launching", "failing"} : Step(i, from, to)
  BY DEF StartWorkspace, StartPrecheck, StartLaunch, Check, FailStep
<1>2. /\ i \in DOMAIN runs /\ RowInv(i) /\ task[i] = from /\ task'[i] = to
  BY <1>1, TaskOfRow
<1>3. Same(i) /\ pruned' = pruned /\ up' = up /\ child'[i] = child[i] /\ launched'[i] = launched[i]
  BY <1>0 DEF ledger, Same, NoEffect, Quiet
<1> QED
  BY <1>0, <1>1, <1>2, <1>3, TaskMoves DEF BeforeLaunch

\* The workspace and the precheck: the row is prechecking, or was ended meanwhile.
LEMMA PrecheckRow ==
  ASSUME RtInv, NEW i \in Ids, WorkspaceReady(i) \/ PrecheckDone(i)
  PROVE  RowInv(i)'
<1>0. TypeOK /\ Shape /\ NoEffect /\ Quiet
  BY DEF RtInv, LedgerInv, WorkspaceReady, PrecheckDone
<1>1. up' = up /\ child'[i] = child[i] /\ launched'[i] = launched[i]
  BY <1>0 DEF NoEffect, Quiet
<1>2. ASSUME NEW next \in {"prechecking", "skipped_precheck"},
             NEW from \in {"resolving", "checking"},
             NEW to \in {"resolved", "ready", "done"},
             to = "done" => next = "skipped_precheck",
             next = "skipped_precheck" => to = "done",
             Step(i, from, to), Transition(i, next, FALSE, clock), UNCHANGED spent
      PROVE  RowInv(i)'
  <2>1. i \in DOMAIN runs /\ RowInv(i) /\ task[i] = from /\ task'[i] = to
    BY <1>2, TaskOfRow
  <2>2. pruned' = pruned /\ i \in Rows
    BY <1>0, <1>2, TransitionRow
  <2>3. CASE ~ IsOpen(i)
    <3>1. Same(i)
      BY <1>0, <1>2, <2>3, TransitionRow DEF Same
    <3>2. runs[i].status \notin {"reserved", "prechecking"}
      BY <2>3 DEF IsOpen, OpenStatus
    <3> QED
      BY <1>1, <1>2, <2>1, <2>2, <3>1, <3>2, TaskMoves DEF BeforeLaunch
  <2>4. CASE IsOpen(i)
    <3>1. /\ i \in DOMAIN runs' /\ runs'[i].status = next
          /\ runs'[i].bound = (runs[i].bound \/ FALSE)
      BY <1>0, <1>2, <2>1, <2>4, TransitionRow
    <3>2. launched[i] = 0
      BY <2>1 DEF RowInv, TaskFits, BeforeLaunch
    <3>3. WorkIsBound(i)'
      BY <1>2, <3>1 DEF WorkIsBound, Working
    <3>4. TaskFits(i)'
      BY <1>1, <1>2, <2>1, <3>1, <3>2 DEF TaskFits, BeforeLaunch, NeverLaunched, Refusals
    <3>5. ChildOwned(i)'
      BY <1>1, <1>2, <2>1, <3>1 DEF ChildOwned, RowInv
    <3>6. Tended(i)'
      BY <1>2, <2>1, <3>1 DEF Tended, Active
    <3> QED
      BY <3>1, <3>3, <3>4, <3>5, <3>6 DEF RowInv
  <2> QED
    BY <2>3, <2>4
<1>3. ASSUME NEW next \in {"prechecking", "skipped_precheck"},
             NEW from \in {"resolving", "checking"},
             NEW to \in {"resolved", "ready", "done"},
             to = "done" => next = "skipped_precheck",
             next = "skipped_precheck" => to = "done",
             Save(i, next, FALSE, from, to, "failing")
      PROVE  RowInv(i)'
  <2>1. from # "none" /\ from \in BeforeLaunch
    BY DEF BeforeLaunch
  <2> QED
    BY <1>0, <1>2, <1>3, <2>1, SaveFails DEF Save
<1>4. ASSUME FailStep(i, "resolving"), UNCHANGED <<ledger, spent>> PROVE RowInv(i)'
  <2>1. i \in DOMAIN runs /\ RowInv(i) /\ task[i] = "resolving" /\ task'[i] = "failing"
    BY <1>4, TaskOfRow DEF FailStep
  <2>2. Same(i) /\ pruned' = pruned
    BY <1>4 DEF ledger, Same
  <2> QED
    BY <1>1, <1>4, <2>1, <2>2, TaskMoves DEF BeforeLaunch
<1> QED
  BY <1>3, <1>4 DEF WorkspaceReady, PrecheckDone

LEMMA LaunchRow ==
  ASSUME RtInv, NEW i \in Ids, Launch(i)
  PROVE  RowInv(i)'
<1>0. /\ Shape /\ Quiet /\ UNCHANGED <<ledger, spent>>
  BY DEF RtInv, Launch
<1>1. i \in DOMAIN runs /\ RowInv(i) /\ task[i] = "launching"
  BY TaskOfRow DEF Launch, FailStep
<1>2. Same(i) /\ pruned' = pruned /\ up' = up /\ runs' = runs
  BY <1>0 DEF ledger, Same, Quiet
<1>3. CASE FailStep(i, "launching") /\ NoEffect
  <2>1. task'[i] = "failing"
    BY <1>3, TaskOfRow DEF FailStep
  <2> QED
    BY <1>0, <1>1, <1>2, <1>3, <2>1, TaskMoves DEF BeforeLaunch, NoEffect
<1>4. CASE /\ Step(i, "launching", "launched")
           /\ child' = [child EXCEPT ![i] = "working"]
           /\ launched' = [launched EXCEPT ![i] = @ + 1]
  <2>1. task'[i] = "launched"
    BY <1>4, TaskOfRow
  <2>2. launched[i] = 0 /\ launched'[i] = 1 /\ runs[i].status \notin NeverLaunched
    BY <1>0, <1>1, <1>4 DEF RowInv, TaskFits, BeforeLaunch, Shape
  <2>3. runs'[i].status \notin Working
    BY <1>1, <1>2, <2>2 DEF RowInv, WorkIsBound
  <2>4. WorkIsBound(i)' /\ TaskFits(i)'
    BY <1>2, <2>1, <2>2, <2>3 DEF WorkIsBound, TaskFits, BeforeLaunch
  <2>5. ChildOwned(i)' /\ Tended(i)'
    BY <2>1 DEF ChildOwned, Tended, Active
  <2> QED
    BY <1>1, <1>2, <2>4, <2>5 DEF RowInv
<1> QED
  BY <1>3, <1>4 DEF Launch

\* The binding is saved in the open row, or the agent is left to the task.
LEMMA BindRow ==
  ASSUME RtInv, NEW i \in Ids, Bind(i)
  PROVE  RowInv(i)'
<1>0. TypeOK /\ Shape /\ NoEffect /\ Quiet
  BY DEF RtInv, LedgerInv, Bind
<1>1. up' = up /\ child'[i] = child[i] /\ launched'[i] = launched[i]
  BY <1>0 DEF NoEffect, Quiet
<1>2. PICK to : to = IF IsOpen(i) THEN "done" ELSE "unbound"
  OBVIOUS
<1>3. Save(i, "running", TRUE, "launched", to, "unbound")
  BY <1>2 DEF Bind
<1>4. CASE Step(i, "launched", to) /\ Transition(i, "running", TRUE, clock) /\ UNCHANGED spent
  <2>1. i \in DOMAIN runs /\ RowInv(i) /\ task[i] = "launched" /\ task'[i] = to
    BY <1>4, TaskOfRow
  <2>2. pruned' = pruned
    BY <1>0, <1>4, TransitionRow
  <2>3. CASE ~ IsOpen(i)
    <3>1. Same(i) /\ to = "unbound"
      BY <1>0, <1>2, <1>4, <2>3, TransitionRow DEF Same
    <3> QED
      BY <1>1, <1>4, <2>1, <2>2, <3>1, TaskMoves DEF BeforeLaunch
  <2>4. CASE IsOpen(i)
    <3>1. /\ i \in DOMAIN runs' /\ runs'[i].status = "running"
          /\ runs'[i].bound = (runs[i].bound \/ TRUE)
      BY <1>0, <1>4, <2>1, <2>4, TransitionRow
    <3>2. launched[i] = 1 /\ task'[i] = "done" /\ runs'[i].bound
      BY <1>2, <2>1, <2>4, <3>1 DEF RowInv, TaskFits
    <3>3. WorkIsBound(i)' /\ TaskFits(i)'
      BY <1>1, <3>1, <3>2 DEF WorkIsBound, TaskFits, BeforeLaunch, NeverLaunched, Refusals
    <3>4. ChildOwned(i)' /\ Tended(i)'
      BY <3>1, <3>2 DEF ChildOwned, Tended
    <3> QED
      BY <3>1, <3>3, <3>4 DEF RowInv
  <2> QED
    BY <2>3, <2>4
<1>5. CASE /\ Step(i, "launched", "unbound")
           /\ \/ TransitionError(i, "running", clock) /\ UNCHANGED <<ledger, spent>>
              \/ Fault /\ UNCHANGED ledger
  BY <1>0, <1>5, SaveFails
<1> QED
  BY <1>3, <1>4, <1>5 DEF Save

LEMMA StopRow ==
  ASSUME RtInv, NEW i \in Ids, StopOwn(i)
  PROVE  RowInv(i)'
<1>0. /\ Shape /\ Quiet /\ UNCHANGED <<ledger, launched>>
  BY DEF RtInv, StopOwn
<1>1. i \in DOMAIN runs /\ RowInv(i) /\ task[i] = "unbound" /\ task'[i] = "failing"
  BY TaskOfRow DEF StopOwn, FailStep
<1>2. runs' = runs /\ pruned' = pruned /\ up' = up
  BY <1>0 DEF ledger, Quiet
<1>3. spent.abandoned' = spent.abandoned /\ spent.orphans \subseteq spent.orphans'
      /\ (child'[i] \notin Live \/ i \in spent.orphans')
  <2>1. CASE child' = [child EXCEPT ![i] = IF @ \in Live THEN "stopped" ELSE @] /\ UNCHANGED spent
    BY <1>0, <2>1 DEF Shape, Live
  <2>2. CASE spent' = [spent EXCEPT !.faults = @ + 1, !.orphans = @ \cup {i}]
    BY <1>0, <2>2 DEF Shape, Spent
  <2> QED
    BY <2>1, <2>2 DEF StopOwn
<1>4. WorkIsBound(i)' /\ TaskFits(i)'
  BY <1>0, <1>1, <1>2 DEF RowInv, WorkIsBound, TaskFits, BeforeLaunch
<1>5. ChildOwned(i)' /\ Tended(i)'
  BY <1>1, <1>3 DEF ChildOwned, Tended, Active
<1> QED
  BY <1>1, <1>2, <1>4, <1>5 DEF RowInv

LEMMA FailRow ==
  ASSUME RtInv, NEW i \in Ids, Fail(i)
  PROVE  RowInv(i)'
<1>0. TypeOK /\ Shape /\ NoEffect /\ Quiet
  BY DEF RtInv, LedgerInv, Fail
<1>1. up' = up /\ child'[i] = child[i] /\ launched'[i] = launched[i]
  BY <1>0 DEF NoEffect, Quiet
<1>2. i \in DOMAIN runs /\ RowInv(i) /\ task[i] = "failing" /\ task'[i] = "done"
  BY TaskOfRow DEF Fail
<1>3. CASE Transition(i, "failed", FALSE, clock) /\ UNCHANGED spent
  <2>1. pruned' = pruned
    BY <1>0, <1>3, TransitionRow
  <2>2. CASE ~ IsOpen(i)
    <3>1. Same(i) /\ runs[i].status \notin {"reserved", "prechecking"}
      BY <1>0, <1>3, <2>2, TransitionRow DEF Same, IsOpen, OpenStatus
    <3> QED
      BY <1>1, <1>2, <1>3, <2>1, <3>1, TaskMoves DEF BeforeLaunch
  <2>3. CASE IsOpen(i)
    <3>1. /\ i \in DOMAIN runs' /\ runs'[i].status = "failed"
          /\ runs'[i].bound = (runs[i].bound \/ FALSE)
      BY <1>0, <1>2, <1>3, <2>3, TransitionRow
    <3>2. WorkIsBound(i)' /\ Tended(i)'
      BY <3>1 DEF WorkIsBound, Working, Tended
    <3>3. TaskFits(i)'
      BY <1>1, <1>2, <3>1 DEF RowInv, TaskFits, BeforeLaunch, NeverLaunched, Refusals
    <3>4. ChildOwned(i)'
      BY <1>1, <1>2, <1>3, <3>1 DEF RowInv, ChildOwned
    <3> QED
      BY <3>1, <3>2, <3>3, <3>4 DEF RowInv
  <2> QED
    BY <2>2, <2>3
<1>4. CASE /\ UNCHANGED ledger
           /\ GivesUp(i) \/ spent' = [spent EXCEPT !.abandoned = @ \cup {i}]
  <2>1. Same(i) /\ pruned' = pruned
    BY <1>4 DEF ledger, Same
  <2>2. spent.orphans' = spent.orphans /\ spent.abandoned' = spent.abandoned \cup {i}
    BY <1>0, <1>4, SpentGrows
  <2> QED
    BY <1>1, <1>2, <2>1, <2>2, TaskMoves DEF BeforeLaunch
<1> QED
  BY <1>3, <1>4 DEF Fail

LEMMA DispatchRow ==
  ASSUME RtInv, NEW i \in Ids, Dispatch(i)
  PROVE  RowInv(i)'
BY ClaimRow, CheckRow, PrecheckRow, LaunchRow, BindRow, StopRow, FailRow DEF Dispatch

-----------------------------------------------------------------------------
(* The loop, the recovery and time. *)

\* The monitor's transition: a run it lets go on had its agent bound.
LEMMA ApplyRow ==
  ASSUME LedgerAssumption, RtInv, Apply, NEW i \in Ids
  PROVE  RowInv(i)'
<1> DEFINE k   == First
           now == Latest(loop.now, loop.view[k].updated)
<1>0. /\ TypeOK /\ Shape /\ ViewBehind /\ RowInv(i)
      /\ UNCHANGED <<up, task, child, launched>>
  BY DEF RtInv, LedgerInv, Apply
<1>1. k \in Viewed /\ k \in DOMAIN runs
  <2>1. Viewed # {} /\ Viewed \subseteq DOMAIN runs /\ DOMAIN runs \subseteq Ids /\ loop \in Loop
    BY <1>0, RowsAreIds DEF RtInv, Shape, ViewBehind, Apply
  <2> QED
    BY <2>1, FirstIsViewed
<1>2. loop.next \in Verdicts
  BY <1>0 DEF Shape, ViewBehind, Apply, Loop
<1>3. spent.orphans \subseteq spent.orphans' /\ spent.abandoned \subseteq spent.abandoned'
  BY <1>0, SpentGrows DEF Apply
<1>4. CASE UNCHANGED ledger
  <2>1. Same(i) /\ Aside(i)
    BY <1>0, <1>3, <1>4 DEF ledger, Same, Aside
  <2> QED
    BY <1>0, <2>1, RowKept
<1>5. CASE Transition(k, loop.next, FALSE, now)
  <2> HIDE DEF k, now
  <2>1. pruned' = pruned /\ Aside(i)
    BY <1>0, <1>3, <1>5, TransitionRow DEF Aside
  <2>0. /\ DOMAIN runs' = DOMAIN runs
        /\ \A j \in DOMAIN runs : j # k => runs'[j] = runs[j]
        /\ ~ IsOpen(k) => runs' = runs
    BY <1>0, <1>5, TransitionRow
  <2>2. CASE i # k \/ ~ IsOpen(k)
    <3>1. Same(i)
      BY <2>0, <2>2 DEF Same
    <3> QED
      BY <1>0, <2>1, <3>1, RowKept
  <2>3. CASE i = k /\ IsOpen(k)
    <3>1. /\ i \in DOMAIN runs /\ i \in DOMAIN runs' /\ runs'[i].status = loop.next
          /\ runs'[i].bound = (runs[i].bound \/ FALSE)
      BY <1>0, <1>1, <1>5, <2>3, TransitionRow
    <3>2. CASE loop.next \notin Working
      <4>1. loop.next \in Status \ (OpenStatus \cup NeverLaunched)
        BY <1>2, <3>2, StatusKinds
      <4> QED
        BY <1>0, <1>3, <3>1, <4>1, RowEnds
    <3>3. CASE loop.next \in Working
      <4>1. runs[i].status \in Working
        <5>1. runs[k].status \notin {"reserved", "prechecking"}
          BY <1>0, <1>1, <3>3 DEF ViewBehind, Apply, k
        <5> QED
          BY <2>3, <5>1, StatusKinds DEF IsOpen
      <4>2. runs[i].bound /\ launched[i] = 1
        BY <1>0, <3>1, <4>1 DEF RowInv, WorkIsBound
      <4>3. WorkIsBound(i)'
        BY <1>0, <3>1, <4>2 DEF WorkIsBound
      <4>4. runs'[i].status \notin NeverLaunched \cup {"reserved", "prechecking"}
        BY <3>1, <3>3 DEF Working, NeverLaunched, Refusals
      <4>5. TaskFits(i)'
        BY <1>0, <3>1, <4>2, <4>4 DEF RowInv, TaskFits, BeforeLaunch
      <4>6. ChildOwned(i)' /\ Tended(i)'
        BY <3>1, <4>2, <4>4 DEF ChildOwned, Tended
      <4> QED
        BY <3>1, <4>3, <4>5, <4>6 DEF RowInv
    <3> QED
      BY <3>2, <3>3
  <2> QED
    BY <2>2, <2>3
<1> QED
  BY <1>4, <1>5 DEF Apply

\* The rows and the tasks of an admission.
LEMMA AdmissionRow ==
  ASSUME RtInv, NEW i \in Ids, AdmissionRows, pruned' = pruned,
         UNCHANGED <<up, child, launched>>,
         spent.orphans \subseteq spent.orphans', spent.abandoned \subseteq spent.abandoned',
         NEW state \in {"admitted", "queued"},
         NEW later \in {task[i], Released(task[i])},
         task'[i] = IF Reserved(i) THEN state ELSE later
  PROVE  RowInv(i)'
<1>0. RowInv(i)
  BY DEF RtInv
<1>1. CASE i \in DOMAIN runs \/ i \notin DOMAIN runs'
  <2>1. ~ Reserved(i)
    BY <1>1 DEF Reserved
  <2>2. Same(i)
    BY <1>1 DEF AdmissionRows, Same
  <2>3. Aside(i)
    BY <2>1 DEF Aside, Released
  <2> QED
    BY <1>0, <2>2, <2>3, RowKept
<1>2. CASE i \in DOMAIN runs' \ DOMAIN runs
  <2>1. task[i] = "none" /\ Released(task[i]) = task[i]
    BY <1>0, <1>2 DEF RowInv, Released
  <2>2. runs'[i].status = "reserved" \/ runs'[i].status \in NeverLaunched
    BY <1>2 DEF AdmissionRows, Added
  <2>3. "reserved" \notin NeverLaunched
    BY DEF NeverLaunched, Refusals
  <2> QED
    BY <1>0, <1>2, <2>1, <2>2, <2>3, RowEnters DEF Reserved
<1> QED
  BY <1>1, <1>2

LEMMA RestartRow ==
  ASSUME RtInv, NEW i \in Ids, Restart
  PROVE  RowInv(i)'
<1>0. /\ TypeOK /\ RowInv(i) /\ UNCHANGED <<task, child, launched, spent, pruned>>
      /\ InterruptOpen
  BY DEF RtInv, LedgerInv, Restart, InterruptOpen
<1>1. DOMAIN runs' = DOMAIN runs
  BY <1>0 DEF InterruptOpen
<1>2. CASE i \notin DOMAIN runs
  BY <1>0, <1>1, <1>2 DEF RowInv
<1>3. CASE i \in OpenRows
  <2>1. i \in DOMAIN runs /\ runs[i] \in Run
    BY <1>0, <1>3 DEF OpenRows, Rows, TypeOK
  <2>2. runs'[i] = Transitioned(runs[i], "interrupted", FALSE, Latest(clock, runs[i].updated))
    BY <1>0, <1>3, <2>1 DEF InterruptOpen
  <2>3. runs'[i].status = "interrupted" /\ runs'[i].bound = (runs[i].bound \/ FALSE)
    BY <2>1, <2>2 DEF Transitioned, Run
  <2>4. "interrupted" \in Status \ (OpenStatus \cup NeverLaunched)
    BY DEF Status, FinalStatus, OpenStatus, NeverLaunched, Refusals
  <2> QED
    BY <1>0, <1>1, <2>1, <2>3, <2>4, RowEnds
<1>4. CASE i \in DOMAIN runs /\ i \notin OpenRows
  <2>1. runs[i] \in Run
    BY <1>0, <1>4 DEF TypeOK
  <2>2. \/ runs'[i] = runs[i]
        \/ runs'[i] = [runs[i] EXCEPT !.outcome.decision = "publication_unknown",
                                      !.updated = Stamp(Latest(clock, @))]
    BY <1>0, <1>4 DEF InterruptOpen
  <2>3. runs'[i].status = runs[i].status /\ runs'[i].bound = runs[i].bound
    BY <2>1, <2>2 DEF Run
  <2>4. i \in pruned \/ runs[i].status \notin {"reserved", "prechecking"}
    BY <1>4 DEF OpenRows, Rows, IsOpen, OpenStatus
  <2>5. WorkIsBound(i)' /\ TaskFits(i)' /\ ChildOwned(i)'
    BY <1>0, <1>4, <2>3 DEF RowInv, WorkIsBound, TaskFits, ChildOwned
  <2>6. Tended(i)'
    BY <1>0, <2>3, <2>4 DEF Tended
  <2> QED
    BY <1>1, <1>4, <2>5, <2>6 DEF RowInv
<1> QED
  BY <1>2, <1>3, <1>4

LEMMA CrashRow ==
  ASSUME RtInv, NEW i \in Ids, Crash
  PROVE  RowInv(i)'
<1>0. /\ Shape /\ RowInv(i) /\ UNCHANGED <<runs, pruned, launched>> /\ up' = FALSE
      /\ task'[i] = "none" /\ child'[i] \notin Live
      /\ child'[i] = IF child[i] \in Live THEN "gone" ELSE child[i]
  BY DEF RtInv, Crash, vars, ledger, Live
<1>1. CASE i \notin DOMAIN runs
  BY <1>0, <1>1 DEF RowInv, Live
<1>2. CASE i \in DOMAIN runs
  <2>1. WorkIsBound(i)' /\ TaskFits(i)'
    BY <1>0, <1>2 DEF RowInv, WorkIsBound, TaskFits, BeforeLaunch
  <2>2. ChildOwned(i)' /\ Tended(i)'
    BY <1>0 DEF ChildOwned, Tended
  <2> QED
    BY <1>0, <1>2, <2>1, <2>2 DEF RowInv
<1> QED
  BY <1>1, <1>2

LEMMA RowStep ==
  ASSUME LedgerAssumption, RuntimeAssumption, RtInv, [RtNext]_rtVars, NEW i \in Ids
  PROVE  RowInv(i)'
<1>0. TypeOK /\ Shape /\ RowInv(i) /\ ViewBehind /\ DOMAIN runs \subseteq Ids
  BY RowsAreIds DEF RtInv, LedgerInv
<1>1. UNCHANGED runs => Same(i)
  BY DEF Same
<1>2. ASSUME UNCHANGED <<runs, pruned, task, launched, up>>,
             child'[i] = child[i] \/ (i \in DOMAIN runs /\ (child'[i] \in Live => child[i] \in Live)),
             UNCHANGED spent \/ Fault
      PROVE  RowInv(i)'
  <2>1. Aside(i)
    <3>1. spent.orphans' = spent.orphans /\ spent.abandoned' = spent.abandoned
      BY <1>0, <1>2, SpentGrows
    <3> QED
      BY <1>2, <3>1 DEF Aside
  <2> QED
    BY <1>0, <1>1, <1>2, <2>1, RowKept
<1>3. CASE Wake(TRUE) \/ Wake(FALSE) \/ EndReconcile \/ Time \/ UNCHANGED rtVars
  BY <1>2, <1>3 DEF Wake, EndReconcile, Time, Tick, StepBack, rtVars, vars, ledger
<1>4. CASE Observe
  <2>1. First \in DOMAIN runs /\ First \in Ids
    <3>1. First \in Viewed
      BY <1>0, <1>4, FirstIsViewed DEF Observe, Shape
    <3> QED
      BY <1>0, <3>1 DEF ViewBehind
  <2>2. UNCHANGED child \/ child' = [child EXCEPT ![First] = "stopped"]
    BY <1>4 DEF Observe
  <2>3. child'[i] = child[i] \/ (i \in DOMAIN runs /\ (child'[i] \in Live => child[i] \in Live))
    BY <1>0, <2>1, <2>2 DEF Shape, Live
  <2>4. UNCHANGED <<runs, pruned, task, launched, up>> /\ (UNCHANGED spent \/ Fault)
    BY <1>4 DEF Observe, vars, ledger
  <2> QED
    BY <1>2, <2>3, <2>4
<1>5. CASE Apply
  BY <1>5, ApplyRow
<1>6. CASE EndIntake
  <2>1. /\ UNCHANGED <<runs, pruned, child, launched, up, spent>>
        /\ task'[i] = task[i] \/ task'[i] = Released(task[i])
    BY <1>6 DEF EndIntake, vars, ledger
  <2>2. Aside(i)
    BY <2>1 DEF Aside, Released
  <2> QED
    BY <1>0, <1>1, <2>1, <2>2, RowKept
<1>7. CASE PruneStep
  <2>1. UNCHANGED <<runs, task, child, launched, up, spent>> /\ pruned \subseteq pruned'
    BY <1>7 DEF PruneStep, Prune
  <2>2. Aside(i)
    BY <2>1 DEF Aside
  <2> QED
    BY <1>0, <1>1, <2>1, <2>2, RowKept
<1>8. CASE TickStep
  <2> DEFINE D   == {d \in Defs : config[d].present /\ config[d].enabled /\ Due(d) # {}}
             due == [d \in D |-> Max(Due(d))]
             all == [d \in Defs |-> Loaded(d)]
  <2>1. /\ UNCHANGED <<up, child, launched>>
        /\ task'[i] = IF Reserved(i) THEN "queued" ELSE Released(task[i])
    BY <1>8 DEF TickStep
  <2>2. spent.orphans \subseteq spent.orphans' /\ spent.abandoned \subseteq spent.abandoned'
    <3>1. UNCHANGED spent \/ Fault
      BY <1>8 DEF TickStep
    <3> QED
      BY <1>0, <3>1, SpentGrows
  <2>3. AdmissionRows /\ pruned' = pruned
    <3>1. CASE UNCHANGED ledger
      BY <3>1 DEF ledger, AdmissionRows, Same, Added
    <3>2. CASE AdmitBatch(all, due)
      <4>1. all \in [Defs -> Definition]
        BY <1>0, LoadedType
      <4>2. due \in [D -> 0..clock]
        BY <1>0, DueIsPast
      <4>3. D \in SUBSET Defs
        OBVIOUS
      <4> HIDE DEF D, due, all
      <4>4. AdmissionRows
        BY <1>0, <3>2, <4>1, <4>2, <4>3, BatchRows
      <4>5. pruned' = pruned
        BY <3>2 DEF AdmitBatch
      <4> QED
        BY <4>4, <4>5
    <3> QED
      BY <1>8, <3>1, <3>2 DEF TickStep
  <2> QED
    BY <2>1, <2>2, <2>3, AdmissionRow
<1>9. ASSUME NEW state \in {"admitted", "queued"}, Enter(state), AdmissionRows, pruned' = pruned,
             UNCHANGED <<up, child, launched, spent>>
      PROVE  RowInv(i)'
  <2>1. task'[i] = IF Reserved(i) THEN state ELSE task[i]
    BY <1>9 DEF Enter
  <2> QED
    BY <1>9, <2>1, AdmissionRow
<1>10. CASE Intake
  <2>1. PICK issue \in Issues :
          LET trigger == [kind |-> "event", key |-> issue] IN
          \/ AdmitEvent(Loaded(IntakeDef), trigger)
          \/ \E reason \in FilterReasons : RecordEventRefusal(Loaded(IntakeDef), trigger, reason)
    BY <1>10 DEF Intake
  <2>2. AdmissionRows
    BY <1>0, <2>1, EventRows
  <2>3. pruned' = pruned
    BY <2>1 DEF AdmitEvent, RecordEventRefusal
  <2> QED
    BY <1>9, <1>10, <2>2, <2>3 DEF Intake
<1>11. ASSUME NEW d \in Defs, RunNow(d) PROVE RowInv(i)'
  <2>1. AdmissionRows /\ pruned' = pruned
    BY <1>0, <1>11, ManualRows DEF RunNow, AdmitManual
  <2> QED
    BY <1>9, <1>11, <2>1 DEF RunNow
<1>12. ASSUME NEW d \in Defs, Edit(d) PROVE RowInv(i)'
  <2>1. /\ UNCHANGED <<runs, pruned, task, child, launched, up>>
        /\ spent.orphans' = spent.orphans /\ spent.abandoned' = spent.abandoned
    BY <1>0, <1>12 DEF Edit, vars, ledger, Shape, Spent
  <2>2. Aside(i)
    BY <2>1 DEF Aside
  <2> QED
    BY <1>0, <1>1, <2>1, <2>2, RowKept
<1>13. ASSUME NEW j \in Ids, Dispatch(j) PROVE RowInv(i)'
  BY <1>0, <1>13, DispatchRow, DispatchElsewhere, RowKept
<1>14. ASSUME NEW j \in Ids, Agent(j) PROVE RowInv(i)'
  <2>1. child[j] \in Live /\ RowInv(j)
    BY <1>14 DEF Agent, RtInv
  <2>2. j \in DOMAIN runs
    BY <2>1 DEF RowInv, Live
  <2>3. PICK next : child' = [child EXCEPT ![j] = next]
    BY <1>14 DEF Agent
  <2>4. child'[i] = child[i] \/ (i \in DOMAIN runs /\ (child'[i] \in Live => child[i] \in Live))
    BY <1>0, <2>1, <2>2, <2>3 DEF Shape
  <2> QED
    BY <1>2, <1>14, <2>4 DEF Agent, vars, ledger
<1>15. CASE Crash
  BY <1>15, CrashRow
<1>16. CASE Restart
  BY <1>16, RestartRow
<1> QED
  BY <1>3, <1>4, <1>5, <1>6, <1>7, <1>8, <1>10, <1>11, <1>12, <1>13, <1>14, <1>15, <1>16
     DEF RtNext, LoopStep

-----------------------------------------------------------------------------
(* The invariant, and the theorems. *)

LEMMA RtInvInit ==
  ASSUME LedgerAssumption, RuntimeAssumption, RtInit
  PROVE  RtInv
<1>1. LedgerInv /\ runs = <<>>
  BY InvInit DEF RtInit, Init
<1>2. Bounded
  BY <1>1 DEF Bounded, LedgerAssumption
<1>3. Shape
  <2>1. (CHOOSE r \in Revs : TRUE) \in Revs
    BY DEF RuntimeAssumption
  <2>2. config \in Config
    BY <2>1 DEF RtInit, Config
  <2>3. spent \in Spent
    BY DEF RtInit, Spent
  <2>4. /\ task \in [Ids -> TaskState] /\ child \in [Ids -> ChildState]
        /\ deadline \in [Ids -> Nat] /\ launched \in [Ids -> Nat]
    BY DEF RtInit, TaskState, ChildState
  <2> QED
    BY <2>2, <2>3, <2>4, IdleLoop DEF Shape, RtInit
<1>4. ViewBehind
  <2>1. loop = Idle
    BY DEF RtInit
  <2>2. Viewed = {} /\ loop.pc = "select"
    BY <2>1, IdleLoop DEF Viewed
  <2> QED
    BY <2>2 DEF ViewBehind
<1>5. \A i \in Ids : RowInv(i)
  BY <1>1 DEF RowInv, RtInit
<1> QED
  BY <1>1, <1>2, <1>3, <1>4, <1>5 DEF RtInv

LEMMA RtInvStep ==
  ASSUME LedgerAssumption, RuntimeAssumption, RtInv, [RtNext]_rtVars
  PROVE  RtInv' /\ [Next]_vars
<1>1. [Next]_vars
  BY StepImplements
<1>2. LedgerInv' /\ Bounded'
  BY <1>1, InvStep, BoundedStep DEF RtInv, LedgerInv
<1>3. Shape' /\ ViewBehind'
  BY ShapeStep, ViewStep
<1>4. \A i \in Ids : RowInv(i)'
  BY RowStep
<1> QED
  BY <1>1, <1>2, <1>3, <1>4 DEF RtInv

LEMMA RtInvCorrect == RtSpec => []RtInv
<1>1. LedgerAssumption /\ RuntimeAssumption
  BY LedgerAssumption, RuntimeAssumption
<1>2. RtInit => RtInv
  BY <1>1, RtInvInit
<1>3. RtInv /\ [RtNext]_rtVars => RtInv'
  BY <1>1, RtInvStep
<1> QED
  BY <1>2, <1>3, PTL DEF RtSpec

\* The runtime, its monitor with stale copies, its tasks and its recoveries never do
\* to the ledger what its specification does not allow (runtime.rs, completion.rs,
\* dispatcher.rs calling store.rs).
THEOREM RuntimeImplementsLedger == RtSpec => Spec
<1>1. LedgerAssumption /\ RuntimeAssumption
  BY LedgerAssumption, RuntimeAssumption
<1>2. RtInit => Init
  BY DEF RtInit
<1>3. RtInv /\ [RtNext]_rtVars => [Next]_vars
  BY <1>1, RtInvStep
<1> QED
  BY <1>2, <1>3, RtInvCorrect, PTL DEF RtSpec, Spec

\* What is proved of the ledger under any caller holds of the program's own callers.
THEOREM RuntimeIsSafe ==
  RtSpec => /\ [](OneOpenRunPerDefinition /\ OpenWithinCapacity)
            /\ [](OccurrenceOnce /\ EventOnce /\ RefusalsCoalesce)
            /\ StatusMovesForward /\ AuthorityKept
BY RuntimeImplementsLedger, NoOverlap, CapacityHolds, OccurrencesDecidedOnce, EventsStartOnce,
   RefusalsKeptOnce, FinalStatusStays, AuthorityIsKept, PTL

\* The state of the loop, the tasks, the agents and the deadlines keeps its shape.
THEOREM RuntimeTypes == RtSpec => []TypeRT
<1>1. RtInv => TypeRT
  <2> SUFFICES ASSUME RtInv PROVE TypeRT
    OBVIOUS
  <2>1. Shape /\ Viewed \subseteq DOMAIN runs
    BY DEF RtInv, ViewBehind
  <2>2. /\ loop.pc \in LoopState /\ loop.timer \in BOOLEAN /\ loop.next \in Verdicts \cup {"none"}
        /\ spent.orphans \subseteq Ids /\ spent.abandoned \subseteq Ids
    BY <2>1 DEF Shape, Loop, Spent
  <2>3. loop.next \in Status \cup {"none"}
    BY <2>2, StatusKinds
  <2> QED
    BY <2>1, <2>2, <2>3 DEF TypeRT, Shape, Config
<1> QED
  BY <1>1, RtInvCorrect, PTL

\* No run launches twice, and one that was refused, missed or skipped never does
\* (claim_dispatch, dispatch_claimed), over any crashes and failed writes.
THEOREM LaunchesOnce == RtSpec => []LaunchDiscipline
<1>1. LedgerAssumption
  BY LedgerAssumption
<1>2. RtInv => LaunchDiscipline
  <2> SUFFICES ASSUME RtInv, NEW i \in DOMAIN runs
               PROVE  /\ launched[i] <= 1
                      /\ runs[i].status \in Refusals \cup {"skipped_missed", "skipped_precheck"}
                           => launched[i] = 0
    BY DEF LaunchDiscipline
  <2>1. i \in Ids /\ launched[i] \in Nat
    BY <1>1, RowsAreIds DEF RtInv, LedgerInv, Shape
  <2>2. TaskFits(i)
    BY <2>1 DEF RtInv, RowInv
  <2> QED
    BY <2>1, <2>2 DEF TaskFits, NeverLaunched
<1> QED
  BY <1>2, RtInvCorrect, PTL

\* An agent that its row does not know is stopped by the task that launched it,
\* unless that stop failed (dispatch_claimed, effects.stop).
THEOREM NoAgentIsForgotten == RtSpec => []NoUnboundSurvivor
<1>1. LedgerAssumption
  BY LedgerAssumption
<1>2. RtInv => NoUnboundSurvivor
  <2> SUFFICES ASSUME RtInv, NEW i \in DOMAIN runs, child[i] \in Live, ~ runs[i].bound
               PROVE  task[i] \in {"launched", "unbound"} \/ i \in spent.orphans
    BY DEF NoUnboundSurvivor
  <2>1. ChildOwned(i)
    BY <1>1, RowsAreIds DEF RtInv, RowInv, LedgerInv
  <2> QED
    BY <2>1 DEF ChildOwned
<1> QED
  BY <1>2, RtInvCorrect, PTL

\* While the process runs, every open run has its task or its bound agent, or the
\* write that would have ended it failed (dispatch, interrupt_open).
THEOREM OpenRunsAreTended == RtSpec => []OpenRunIsTended
<1>1. LedgerAssumption
  BY LedgerAssumption
<1>2. RtInv => OpenRunIsTended
  <2> SUFFICES ASSUME RtInv, up, NEW i \in OpenRows
               PROVE  IF runs[i].status \in {"running", "needs_you"}
                      THEN runs[i].bound /\ launched[i] = 1
                      ELSE Active(i) \/ i \in spent.abandoned
    BY DEF OpenRunIsTended
  <2>1. i \in DOMAIN runs /\ i \notin pruned /\ runs[i].status \in OpenStatus
    BY DEF OpenRows, Rows, IsOpen
  <2>2. WorkIsBound(i) /\ Tended(i)
    BY <1>1, <2>1, RowsAreIds DEF RtInv, RowInv, LedgerInv
  <2> QED
    BY <2>1, <2>2, StatusKinds DEF WorkIsBound, Tended, Working
<1> QED
  BY <1>2, RtInvCorrect, PTL
=============================================================================
