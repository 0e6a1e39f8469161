--------------------------- MODULE PublicationProofs ---------------------------
(***************************************************************************)
(* The safety theorems of EventPublication: over any number of crashes and  *)
(* recoveries the effects at GitHub implement ClaimOnce, what the history   *)
(* calls published exists, and a review is claimed for the newest head      *)
(* only.  The invariant PubInv says what the properties leave unsaid: which *)
(* row a task works on and what it has claimed, at every point where the    *)
(* task can be (TaskInv), and which outcomes a row can have (WholeRow).     *)
(***************************************************************************)
EXTENDS EventPublication, RunLedgerProofs

USE DEF vars, ledger, pubVars, Publication, Local

\* A row and its outcome: an intent belongs to a completed run and is there while
\* the publication is pending, and a refusal is never taken for an admission.
WholeRow(run) ==
  /\ HasEventKey(run.trigger) /\ Confined(run)
  /\ run.outcome.decision # "none"
  /\ run.outcome.decision = "publication_pending" => run.outcome.intent
  /\ run.outcome.decision = "admitted" => ~ run.outcome.intent
  /\ run.status \in Refusals => run.outcome.decision \notin {"admitted", "publication_pending"}
RowsWhole   == \A i \in DOMAIN runs : WholeRow(runs[i])
RowsBounded == DOMAIN runs \subseteq Ids /\ pruned = {}

\* A task works on an admitted row.
OwnsRow(i) == pc[i] \notin {"none", "done"} => i \in DOMAIN runs /\ ~ Refused(i)

\* Wherever a request may leave or an answer be settled, the claim was won before.
ClaimsFirst(i) ==
  /\ pc[i] \in {"lookup", "post", "waiting", "relook", "send", "answer"}
       => runs[i].outcome.intent
  /\ pc[i] \in {"prepare", "validate"} /\ seen[i].recovering => runs[i].outcome.intent

\* Nothing left before the claim, nor before the only place that sends.
SendsOnce(i) ==
  /\ i \notin DOMAIN runs \/ ~ runs[i].outcome.intent => sent[Publication(i)] = 0
  /\ pc[i] = "lookup" /\ ~ seen[i].recovering => sent[Publication(i)] = 0
  /\ pc[i] \in {"post", "send"} => sent[Publication(i)] = 0

\* The same for the two notices of a triage decision.
NoticesFirst(i) ==
  /\ pc[i] \in TriageState => Slots # {}
  /\ \A slot \in Slots : deliveries[<<i, slot>>] = "none" => sent[<<i, slot>>] = 0
  /\ pc[i] \in {"commenting", "commented"} => deliveries[<<i, "triage-comment">>] = "attempted"
  /\ pc[i] \in {"labelling", "labelled"} => deliveries[<<i, "triage-label">>] = "attempted"
  /\ pc[i] = "commenting" => sent[<<i, "triage-comment">>] = 0
  /\ pc[i] = "labelling" => sent[<<i, "triage-label">>] = 0

\* A rejection gets no label before its comment is confirmed.
Explained(i) ==
  (/\ i \in DOMAIN runs /\ runs[i].triage = "rejected" /\ Slots # {}
   /\ pc[i] \in {"label", "labelling"} \/ sent[<<i, "triage-label">>] > 0)
  => deliveries[<<i, "triage-comment">>] = "confirmed"

\* What is called published or confirmed was seen at GitHub.
Exists(i) ==
  /\ i \in DOMAIN runs /\ runs[i].outcome.decision \in Confirmed => Publication(i) \in made
  /\ \A slot \in Slots : deliveries[<<i, slot>>] = "confirmed" => <<i, slot>> \in made

TaskInv(i) ==
  OwnsRow(i) /\ ClaimsFirst(i) /\ SendsOnce(i) /\ NoticesFirst(i) /\ Explained(i) /\ Exists(i)

PubInv ==
  /\ TypeOK /\ TypePub /\ RowsBounded /\ RowsWhole /\ RefusalRows
  /\ \A i \in Ids : TaskInv(i)

-----------------------------------------------------------------------------
(* What happens to one row, and to the item that stands for it. *)

RowPhase(run) ==
  IF run.outcome.intent THEN "claimed"
  ELSE IF run.outcome.decision = "admitted" THEN "free" ELSE "denied"
RowVerdict(run) ==
  IF run.outcome.decision \in {"admitted", "publication_pending"} THEN "open"
  ELSE IF run.outcome.url THEN "confirmed" ELSE "unconfirmed"

\* The moves that ClaimOnce allows: none, Claim, Deny and Settle.
Allowed(phase, verdict, nextPhase, nextVerdict) ==
  \/ nextPhase = phase /\ nextVerdict = verdict
  \/ phase = "free" /\ nextPhase = "claimed" /\ nextVerdict = verdict
  \/ phase = "free" /\ nextPhase = "denied" /\ nextVerdict = "unconfirmed"
  \/ /\ phase = "claimed" /\ verdict # "confirmed"
     /\ nextPhase = phase /\ nextVerdict \in {"confirmed", "unconfirmed"}

\* What no step takes from a row, and what every step makes of it.
Kept(run, next) ==
  /\ next.trigger = run.trigger
  /\ run.outcome.intent => next.outcome.intent
  /\ next.status \in Refusals <=> run.status \in Refusals
  /\ next.triage = "rejected" => run.triage = "rejected"
Grows(run, next) ==
  /\ WholeRow(next) /\ Kept(run, next)
  /\ Allowed(RowPhase(run), RowVerdict(run), RowPhase(next), RowVerdict(next))

\* The outcome of a run that is not over has no intent and no URL.
LEMMA RowFields ==
  ASSUME NEW run \in Run
  PROVE  /\ run.outcome \in Outcome /\ run.status \in Status /\ run.triage \in TriageOutcome
         /\ run.outcome.intent \in BOOLEAN /\ run.outcome.url \in BOOLEAN
         /\ run.trigger \in Trigger
BY DEF Run, Outcome

LEMMA GrowsSame ==
  ASSUME NEW run, WholeRow(run)
  PROVE  Grows(run, run)
BY DEF Grows, Kept, Allowed

\* A row whose outcome is left alone.
LEMMA GrowsQuietly ==
  ASSUME NEW run, NEW next, WholeRow(run),
         next.trigger = run.trigger, next.outcome = run.outcome,
         run.outcome.intent => next.status = "completed",
         next.status \in Refusals <=> run.status \in Refusals,
         next.triage = "rejected" => run.triage = "rejected"
  PROVE  Grows(run, next)
BY DEF Grows, Kept, Allowed, WholeRow, Confined, RowPhase, RowVerdict

\* A row that ends without a claim, or whose claim is settled.
LEMMA GrowsSettled ==
  ASSUME NEW run \in Run, NEW next, WholeRow(run), ~ run.outcome.url,
         NEW decision \in Decision \ {"none", "admitted", "publication_pending"},
         decision \in Confirmed => run.outcome.intent,
         next.trigger = run.trigger,
         next.outcome = [decision |-> decision, intent |-> run.outcome.intent,
                         url |-> decision \in Confirmed],
         run.outcome.intent => next.status = "completed",
         next.status \in Refusals <=> run.status \in Refusals,
         next.triage = "rejected" => run.triage = "rejected"
  PROVE  Grows(run, next)
<1>1. run.outcome.intent \in BOOLEAN
  BY RowFields
<1>2. /\ next.outcome.decision = decision /\ next.outcome.intent = run.outcome.intent
      /\ next.outcome.url = (decision \in Confirmed)
  OBVIOUS
<1>3. WholeRow(next)
  BY <1>2 DEF WholeRow, Confined
<1>4. Kept(run, next)
  BY <1>2 DEF Kept
<1>5. RowPhase(run) \in {"claimed", "free", "denied"}
  BY DEF RowPhase
<1>6. CASE run.outcome.intent
  <2>1. RowPhase(run) = "claimed" /\ RowPhase(next) = "claimed"
    BY <1>2, <1>6 DEF RowPhase
  <2>2. RowVerdict(run) # "confirmed" /\ RowVerdict(next) \in {"confirmed", "unconfirmed"}
    BY <1>2 DEF RowVerdict
  <2> QED
    BY <1>3, <1>4, <2>1, <2>2 DEF Grows, Allowed
<1>7. CASE ~ run.outcome.intent
  <2>1. RowPhase(next) = "denied" /\ RowVerdict(next) = "unconfirmed"
    BY <1>2, <1>7 DEF RowPhase, RowVerdict
  <2>2. \/ RowPhase(run) = "free"
        \/ RowPhase(run) = "denied" /\ RowVerdict(run) = "unconfirmed"
    BY <1>7 DEF RowPhase, RowVerdict, WholeRow
  <2> QED
    BY <1>3, <1>4, <2>1, <2>2 DEF Grows, Allowed
<1> QED
  BY <1>6, <1>7

LEMMA GrowsClaimed ==
  ASSUME NEW run, NEW next, WholeRow(run), run.status = "completed",
         ~ run.outcome.intent, run.outcome.decision \in {"none", "admitted"},
         next.trigger = run.trigger, next.status = run.status, next.triage = run.triage,
         next.outcome = [decision |-> "publication_pending", intent |-> TRUE, url |-> FALSE]
  PROVE  Grows(run, next)
<1>1. run.outcome.decision = "admitted"
  BY DEF WholeRow
<1>2. /\ next.outcome.decision = "publication_pending"
      /\ next.outcome.intent /\ ~ next.outcome.url
  OBVIOUS
<1> QED
  BY <1>1, <1>2 DEF Grows, Kept, Allowed, WholeRow, Confined, RowPhase, RowVerdict, Refusals

\* transition: the open run holds no claim, and only a failure takes the chance of one.
LEMMA GrowsTransition ==
  ASSUME NEW run \in Run, WholeRow(run), run.status \in OpenStatus,
         NEW next \in Status \ Refusals, NEW now
  PROVE  Grows(run, Transitioned(run, next, FALSE, now))
<1> DEFINE new == Transitioned(run, next, FALSE, now)
<1>1. ~ run.outcome.intent /\ ~ run.outcome.url
  BY DEF WholeRow, Confined, OpenStatus
<1>2. /\ new.trigger = run.trigger /\ new.status = next
      /\ \/ new.outcome = run.outcome
         \/ next \notin OpenStatus /\ new.outcome = OutcomeOf(next)
      /\ new.triage = run.triage \/ new.triage = MissingTriageDecision(run)
  BY DEF Transitioned, Run
<1>3. run.status \notin Refusals
  BY DEF OpenStatus, Refusals
<1>4. new.triage = "rejected" => run.triage = "rejected"
  BY <1>2 DEF MissingTriageDecision
<1> HIDE DEF new
<1>5. CASE new.outcome = run.outcome
  BY <1>1, <1>2, <1>3, <1>4, <1>5, GrowsQuietly DEF new
<1>6. CASE next \notin OpenStatus /\ new.outcome = OutcomeOf(next)
  <2>1. next \in Decision \ {"none", "admitted", "publication_pending"} /\ next \notin Confirmed
    BY <1>6 DEF Decision, Status, FinalStatus, Refusals, OpenStatus, Confirmed
  <2>2. new.outcome = [decision |-> next, intent |-> run.outcome.intent,
                       url |-> next \in Confirmed]
    <3>1. run.outcome.intent = FALSE /\ (next \in Confirmed) = FALSE
      BY <1>1, <2>1, RowFields
    <3> QED
      BY <1>6, <3>1 DEF OutcomeOf
  <2> QED
    BY <1>1, <1>2, <1>3, <1>4, <2>1, <2>2, GrowsSettled DEF new
<1> QED
  BY <1>2, <1>5, <1>6

-----------------------------------------------------------------------------
(* What a task step may write, whatever the task: one of the ledger's        *)
(* mutators for its own run, or one request for an effect that is claimed.    *)

Settles(i) ==
  \E decision \in Settled :
    /\ decision \in Confirmed => runs[i].outcome.intent /\ Publication(i) \in made
    /\ SettleOutcome(i, decision, decision \in Confirmed)
Notes(i) ==
  \E slot \in Slots :
    \/ ClaimNotification(i, slot)
    \/ SettleNotification(i, slot, "unknown")
    \/ SettleNotification(i, slot, "confirmed") /\ <<i, slot>> \in made
Advances(i) ==
  \/ ClaimDispatch(i)
  \/ \E status \in {"running", "completed", "failed"} : Transition(i, status, FALSE, clock)
Claims(i) == ClaimPublication(i) \/ SupersedePublication(i)
Sends(i) ==
  \E x \in Items :
    /\ x[1] = i /\ i \in DOMAIN runs /\ PhaseOf(x) = "claimed" /\ sent[x] = 0
    /\ x[2] = "triage-label" /\ runs[i].triage = "rejected"
         => deliveries[<<i, "triage-comment">>] = "confirmed"
    /\ wire' = wire \cup {x} /\ sent' = [sent EXCEPT ![x] = @ + 1]
    /\ UNCHANGED <<ledger, made>>

Writes(i) ==
  \/ UNCHANGED ledger /\ Local
  \/ (Settles(i) \/ Notes(i) \/ Advances(i) \/ Claims(i)) /\ Local
  \/ Sends(i)

LEMMA SettleWrites ==
  ASSUME NEW i, NEW from, NEW decision \in Settled, NEW otherwise, Local,
         Settle(i, from, decision, otherwise),
         decision \in Confirmed => runs[i].outcome.intent /\ Publication(i) \in made
  PROVE  Writes(i)
BY DEF Settle, Writes, Settles

LEMMA ReportWrites ==
  ASSUME NEW i, NEW from, NEW decision \in Settled, Report(i, from, decision),
         decision \in Confirmed => runs[i].outcome.intent /\ Publication(i) \in made
  PROVE  Writes(i)
BY SettleWrites DEF Report

LEMMA ConcludeWrites ==
  ASSUME NEW i, NEW from, NEW decision \in Settled, NEW to, Conclude(i, from, decision, to),
         decision \in Confirmed => runs[i].outcome.intent /\ Publication(i) \in made
  PROVE  Writes(i)
BY DEF Conclude, Writes, Settles

LEMMA MoveWrites ==
  ASSUME NEW i, NEW from, NEW to, NEW status \in {"running", "completed", "failed"},
         Move(i, from, to, status)
  PROVE  Writes(i)
BY DEF Move, Writes, Advances

\* A request for the publication: the claim is there, nothing was sent.
LEMMA PublicationSends ==
  ASSUME PublicationAssumption, PubInv, NEW i \in Ids, NEW from \in {"post", "send"}, NEW to,
         SendRequest(i, Publication(i), from, to)
  PROVE  Writes(i)
<1>1. pc[i] = from /\ TaskInv(i)
  BY DEF SendRequest, Step, PubInv
<1>2. i \in DOMAIN runs /\ runs[i].outcome.intent /\ sent[Publication(i)] = 0
  BY <1>1 DEF TaskInv, OwnsRow, ClaimsFirst, SendsOnce
<1>3. Publication(i) \in Items /\ Publication(i)[1] = i /\ Publication(i)[2] = "publication"
  BY DEF Publication, Items
<1>4. PhaseOf(Publication(i)) = "claimed"
  BY <1>2, <1>3 DEF PhaseOf
<1>5. /\ wire' = wire \cup {Publication(i)}
      /\ sent' = [sent EXCEPT ![Publication(i)] = @ + 1] /\ UNCHANGED <<ledger, made>>
  BY DEF SendRequest
<1> QED
  BY <1>2, <1>3, <1>4, <1>5 DEF Writes, Sends

LEMMA DraftWrites ==
  ASSUME PublicationAssumption, PubInv, NEW i \in Ids, DraftPr(i)
  PROVE  Writes(i)
<1> DEFINE x == Publication(i)
<1>1. ClaimsFirst(i)
  BY DEF PubInv, TaskInv
<1>2. {"published", "publication_unknown", "publication_failed", "publication_refused"}
        \subseteq Settled
      /\ "publication_unknown" \notin Confirmed /\ "publication_failed" \notin Confirmed
      /\ "publication_refused" \notin Confirmed
  BY DEF Settled, Confirmed
<1>3. CASE Start(i)
  BY <1>2, <1>3, SettleWrites DEF Start, Writes
<1>4. CASE Prepare(i)
  BY <1>4 DEF Prepare, Writes
<1>5. CASE Refuse(i)
  BY <1>2, <1>5, ReportWrites DEF Refuse
<1>6. CASE Validate(i)
  BY <1>6 DEF Validate, Writes, Claims
<1>7. CASE Lookup(i)
  <2>1. runs[i].outcome.intent
    BY <1>1, <1>7 DEF Lookup, Report, Settle, Step, ClaimsFirst
  <2> QED
    BY <1>2, <1>7, <2>1, ReportWrites DEF Lookup, Found, Writes
<1>8. CASE Post(i)
  BY <1>8, PublicationSends DEF Post, Writes
<1>9. CASE Wait(i)
  <2>1. runs[i].outcome.intent
    BY <1>1, <1>9 DEF Wait, Report, Settle, Step, ClaimsFirst
  <2> QED
    BY <1>2, <1>9, <2>1, ReportWrites DEF Wait, Answered, Writes
<1>10. CASE Relook(i)
  <2>1. runs[i].outcome.intent
    BY <1>1, <1>10 DEF Relook, Report, Settle, Step, ClaimsFirst
  <2> QED
    BY <1>2, <1>10, <2>1, ReportWrites DEF Relook, Found
<1>11. CASE Error(i)
  <2>1. \/ SettleOutcome(i, "publication_failed", "publication_failed" \in Confirmed)
        \/ UNCHANGED ledger
    <3>1. ("publication_failed" \in Confirmed) = FALSE
      BY DEF Confirmed
    <3> QED
      BY <1>11, <3>1 DEF Error
  <2> QED
    BY <1>2, <1>11, <2>1 DEF Error, Writes, Settles
<1> QED
  BY <1>3, <1>4, <1>5, <1>6, <1>7, <1>8, <1>9, <1>10, <1>11 DEF DraftPr

LEMMA ReviewWrites ==
  ASSUME PublicationAssumption, PubInv, NEW i \in Ids, Review(i)
  PROVE  Writes(i)
<1>1. ClaimsFirst(i)
  BY DEF PubInv, TaskInv
<1>2. {"superseded", "review_published", "publication_unknown"} \subseteq Settled
      /\ "superseded" \notin Confirmed /\ "publication_unknown" \notin Confirmed
  BY DEF Settled, Confirmed
<1>3. CASE TakeReview(i)
  BY <1>3 DEF TakeReview, Writes, Advances
<1>4. CASE RunReview(i) \/ Finish(i) \/ Complete(i) \/ FailReview(i)
  BY <1>4, MoveWrites DEF RunReview, Finish, Complete, FailReview
<1>5. CASE Fetch(i) \/ ReviewDiff(i) \/ Recheck(i)
  <2>1. \/ Conclude(i, "fetch", "superseded", "finish")
        \/ Conclude(i, "recheck", "superseded", "finish")
        \/ UNCHANGED ledger /\ Local
    BY <1>5 DEF Fetch, ReviewDiff, Recheck, Pure
  <2> QED
    BY <1>2, <2>1, ConcludeWrites DEF Writes
<1>6. CASE ClaimReview(i)
  BY <1>6 DEF ClaimReview, Writes, Claims
<1>7. CASE SendReview(i)
  BY <1>7, PublicationSends DEF SendReview, Pure, Writes
<1>8. CASE Answer(i)
  <2>1. runs[i].outcome.intent
    BY <1>1, <1>8 DEF Answer, Conclude, Step, ClaimsFirst
  <2> QED
    BY <1>2, <1>8, <2>1, ConcludeWrites DEF Answer, Answered
<1> QED
  BY <1>3, <1>4, <1>5, <1>6, <1>7, <1>8 DEF Review

LEMMA NoticeSends ==
  ASSUME PublicationAssumption, PubInv, NEW i \in Ids, NEW slot \in Slots, NEW from, NEW to,
         SendRequest(i, <<i, slot>>, from, to),
         \/ slot = "triage-comment" /\ from = "commenting"
         \/ slot = "triage-label" /\ from = "labelling"
  PROVE  Writes(i)
<1>1. pc[i] = from /\ TaskInv(i)
  BY DEF SendRequest, Step, PubInv
<1>2. /\ i \in DOMAIN runs /\ deliveries[<<i, slot>>] = "attempted" /\ sent[<<i, slot>>] = 0
      /\ slot = "triage-label" /\ runs[i].triage = "rejected"
           => deliveries[<<i, "triage-comment">>] = "confirmed"
  BY <1>1 DEF TaskInv, OwnsRow, NoticesFirst, Explained
<1>3. <<i, slot>> \in Items /\ slot # "publication"
  BY DEF Items, PublicationAssumption
<1>4. PhaseOf(<<i, slot>>) = "claimed"
  BY <1>2, <1>3 DEF PhaseOf
<1>5. /\ wire' = wire \cup {<<i, slot>>} /\ sent' = [sent EXCEPT ![<<i, slot>>] = @ + 1]
      /\ UNCHANGED <<ledger, made>>
  BY DEF SendRequest
<1> QED
  BY <1>2, <1>3, <1>4, <1>5 DEF Writes, Sends

LEMMA TriageWrites ==
  ASSUME PublicationAssumption, PubInv, NEW i \in Ids, Triaged(i)
  PROVE  Writes(i)
<1>1. "triage-comment" \in Slots /\ "triage-label" \in Slots
  BY DEF Triaged, PublicationAssumption
<1>2. CASE TakeDecision(i)
  BY <1>2 DEF TakeDecision, Pure, Writes
<1>3. ASSUME NEW slot \in Slots, NEW from, NEW to, NEW known, ClaimNotice(i, slot, from, to, known)
      PROVE  Writes(i)
  BY <1>3 DEF ClaimNotice, Writes, Notes
<1>4. ASSUME NEW slot \in Slots, NEW from, NEW to, SettleNotice(i, slot, from, to)
      PROVE  Writes(i)
  BY <1>4 DEF SettleNotice, Answered, Writes, Notes
<1>5. CASE Comments(i)
  BY <1>1, <1>3, <1>4, <1>5, NoticeSends DEF Comments, SendNotice, Pure, Writes
<1>6. CASE Labels(i)
  BY <1>1, <1>3, <1>4, <1>6, NoticeSends DEF Labels, SendNotice, Pure, Writes
<1> QED
  BY <1>2, <1>5, <1>6 DEF Triaged

-----------------------------------------------------------------------------
(* What the writes of a task leave in the ledger. *)

\* One row is written, the others and the other tables are as they were.
RowWritten(i) ==
  /\ i \in DOMAIN runs /\ DOMAIN runs' = DOMAIN runs /\ TypeOK'
  /\ \A j \in DOMAIN runs : j # i => runs'[j] = runs[j]
  /\ Grows(runs[i], runs'[i])
  /\ runs'[i].outcome.decision \in Confirmed => Publication(i) \in made
  /\ UNCHANGED <<pruned, cursors, heads, keys, decisions, deliveries>>

\* One delivery is claimed, or a claimed one is settled.
NoticeWritten(i) ==
  /\ i \in DOMAIN runs /\ TypeOK'
  /\ \E slot \in Slots :
       LET was == deliveries[<<i, slot>>]
           is  == deliveries'[<<i, slot>>]
       IN  /\ \/ is = was
              \/ was = "none" /\ is = "attempted"
              \/ was = "attempted" /\ is = "unknown"
              \/ was = "attempted" /\ is = "confirmed" /\ <<i, slot>> \in made
           /\ \A x \in Ids \X Slots : x # <<i, slot>> => deliveries'[x] = deliveries[x]
  /\ UNCHANGED <<runs, pruned, cursors, heads, keys, decisions>>

LEMMA RowFacts ==
  ASSUME PubInv, NEW i \in Rows
  PROVE  /\ i \in DOMAIN runs /\ runs[i] \in Run /\ WholeRow(runs[i])
         /\ runs \in Seq(Run)
         /\ runs[i].outcome.decision \in Confirmed => Publication(i) \in made
<1>1. i \in DOMAIN runs /\ runs \in Seq(Run) /\ runs[i] \in Run
  BY DEF PubInv, TypeOK, Rows
<1>2. i \in Ids
  BY <1>1 DEF PubInv, RowsBounded
<1> QED
  BY <1>1, <1>2 DEF PubInv, RowsWhole, TaskInv, Exists

\* One row rewritten in place by a row that grows from it.
LEMMA RewriteGrows ==
  ASSUME PubInv, TypeOK', NEW i \in Rows, NEW row, runs' = [runs EXCEPT ![i] = row],
         Grows(runs[i], row), row.outcome.decision \in Confirmed => Publication(i) \in made,
         UNCHANGED <<pruned, cursors, heads, keys, decisions, deliveries>>
  PROVE  RowWritten(i)
BY RowFacts DEF RowWritten

LEMMA SettleRow ==
  ASSUME LedgerAssumption, PubInv, NEW i, Settles(i), UNCHANGED clock
  PROVE  RowWritten(i)
<1>1. PICK decision \in Settled :
        /\ decision \in Confirmed => runs[i].outcome.intent /\ Publication(i) \in made
        /\ SettleOutcome(i, decision, decision \in Confirmed)
  BY DEF Settles
<1>2. i \in Rows
  BY <1>1 DEF SettleOutcome
<1>3. /\ i \in DOMAIN runs /\ runs[i] \in Run /\ WholeRow(runs[i]) /\ runs \in Seq(Run)
      /\ runs[i].outcome.decision \in Confirmed => Publication(i) \in made
  BY <1>2, RowFacts
<1>4. decision \in Decision \ {"none", "admitted", "publication_pending"}
  BY DEF Settled, Decision
<1>5. TypeOK'
  <2>1. (decision \in Confirmed) \in BOOLEAN
    OBVIOUS
  <2> QED
    BY <1>1, <1>4, <2>1, TypePublication DEF PubInv
<1>6. UNCHANGED <<pruned, cursors, heads, keys, decisions, deliveries>>
  BY <1>1 DEF SettleOutcome
<1>7. CASE runs[i].outcome.url
  <2>1. runs' = runs
    BY <1>1, <1>7 DEF SettleOutcome
  <2> QED
    BY <1>3, <1>5, <1>6, <2>1, GrowsSame DEF RowWritten
<1>8. CASE ~ runs[i].outcome.url
  <2> DEFINE row == [runs[i] EXCEPT !.outcome.decision = decision,
                                    !.outcome.url = (decision \in Confirmed),
                                    !.updated = Stamp(Latest(clock, @))]
  <2>1. runs' = [runs EXCEPT ![i] = row]
    <3>1. runs' = [runs EXCEPT ![i].outcome.decision = decision,
                               ![i].outcome.url = (decision \in Confirmed),
                               ![i].updated = Stamp(Latest(clock, @))]
      BY <1>1, <1>8 DEF SettleOutcome
    <3> QED
      BY <1>3, <3>1
  <2>2. /\ row.trigger = runs[i].trigger /\ row.status = runs[i].status
        /\ row.triage = runs[i].triage
        /\ row.outcome = [decision |-> decision, intent |-> runs[i].outcome.intent,
                          url |-> decision \in Confirmed]
    BY <1>3 DEF Run, Outcome
  <2>3. runs[i].outcome.intent => runs[i].status = "completed"
    BY <1>3 DEF WholeRow, Confined
  <2> HIDE DEF row
  <2>4. Grows(runs[i], row)
    BY <1>1, <1>3, <1>4, <1>8, <2>2, <2>3, GrowsSettled
  <2>5. row.outcome.decision = decision
    BY <2>2
  <2> QED
    BY <1>1, <1>2, <1>5, <1>6, <2>1, <2>4, <2>5, RewriteGrows
<1> QED
  BY <1>7, <1>8

LEMMA ClaimRow ==
  ASSUME LedgerAssumption, PubInv, NEW i, Claims(i), UNCHANGED clock
  PROVE  RowWritten(i)
<1>1. i \in Rows /\ runs[i].status = "completed" /\ Unclaimed(i)
  BY DEF Claims, ClaimPublication, SupersedePublication, MayPublish
<1>2. i \in DOMAIN runs /\ runs[i] \in Run /\ WholeRow(runs[i])
  BY <1>1, RowFacts
<1>3. TypeOK'
  BY TypePublication DEF PubInv, Claims
<1>4. ~ runs[i].outcome.intent /\ ~ runs[i].outcome.url
      /\ runs[i].outcome.decision \in {"none", "admitted"}
  BY <1>1, <1>2 DEF Unclaimed, WholeRow, Confined
<1>5. UNCHANGED <<pruned, cursors, heads, keys, decisions, deliveries>>
  BY DEF Claims, ClaimPublication, SupersedePublication
<1>6. CASE ClaimPublication(i)
  <2> DEFINE row == [runs[i] EXCEPT !.outcome = [decision |-> "publication_pending",
                                                 intent |-> TRUE, url |-> FALSE],
                                    !.updated = Stamp(Latest(clock, @))]
  <2>1. runs' = [runs EXCEPT ![i] = row]
    BY <1>2, <1>6 DEF ClaimPublication
  <2>2. /\ row.trigger = runs[i].trigger /\ row.status = runs[i].status
        /\ row.triage = runs[i].triage
        /\ row.outcome = [decision |-> "publication_pending", intent |-> TRUE, url |-> FALSE]
    BY <1>2 DEF Run
  <2> HIDE DEF row
  <2>3. Grows(runs[i], row)
    BY <1>1, <1>2, <1>4, <2>2, GrowsClaimed
  <2>4. row.outcome.decision \notin Confirmed
    BY <2>2 DEF Confirmed
  <2> QED
    BY <1>1, <1>3, <1>5, <2>1, <2>3, <2>4, RewriteGrows
<1>7. CASE SupersedePublication(i)
  <2> DEFINE row == [runs[i] EXCEPT !.outcome = OutcomeOf("superseded")]
  <2>1. runs' = [runs EXCEPT ![i] = row]
    BY <1>2, <1>7 DEF SupersedePublication
  <2>2. /\ row.trigger = runs[i].trigger /\ row.status = runs[i].status
        /\ row.triage = runs[i].triage /\ row.outcome = OutcomeOf("superseded")
    BY <1>2 DEF Run
  <2> HIDE DEF row
  <2>3. /\ "superseded" \in Decision \ {"none", "admitted", "publication_pending"}
        /\ "superseded" \notin Confirmed
    BY DEF Decision, Settled, Confirmed
  <2>4. row.outcome = [decision |-> "superseded", intent |-> runs[i].outcome.intent,
                       url |-> "superseded" \in Confirmed]
    <3>1. runs[i].outcome.intent = FALSE /\ ("superseded" \in Confirmed) = FALSE
      BY <1>2, <1>4, <2>3, RowFields
    <3> QED
      BY <2>2, <3>1 DEF OutcomeOf
  <2>5. Grows(runs[i], row)
    BY <1>2, <1>4, <2>2, <2>3, <2>4, GrowsSettled
  <2>6. row.outcome.decision \notin Confirmed
    BY <2>3, <2>4
  <2> QED
    BY <1>1, <1>3, <1>5, <2>1, <2>5, <2>6, RewriteGrows
<1> QED
  BY <1>6, <1>7 DEF Claims

LEMMA AdvanceRow ==
  ASSUME LedgerAssumption, PublicationAssumption, PubInv, NEW i, Advances(i), UNCHANGED clock
  PROVE  RowWritten(i)
<1>1. i \in Rows
  BY DEF Advances, ClaimDispatch, Claimable, Transition, TransitionError
<1>2. /\ i \in DOMAIN runs /\ runs[i] \in Run /\ WholeRow(runs[i])
      /\ runs[i].outcome.decision \in Confirmed => Publication(i) \in made
  BY <1>1, RowFacts
<1>3. CASE ClaimDispatch(i)
  <2> DEFINE row == [runs[i] EXCEPT !.status = "prechecking",
                                    !.updated = Stamp(Latest(clock, @))]
  <2>1. /\ TypeOK' /\ runs[i].status = "reserved" /\ runs' = [runs EXCEPT ![i] = row]
        /\ UNCHANGED <<pruned, cursors, heads, keys, decisions, deliveries>>
    BY <1>2, <1>3, TypeClaim DEF PubInv, ClaimDispatch, Claimable
  <2>2. /\ row.trigger = runs[i].trigger /\ row.status = "prechecking"
        /\ row.triage = runs[i].triage /\ row.outcome = runs[i].outcome
    BY <1>2 DEF Run
  <2> HIDE DEF row
  <2>3. Grows(runs[i], row)
    BY <1>2, <2>1, <2>2, GrowsQuietly DEF WholeRow, Confined, Refusals
  <2> QED
    BY <1>1, <1>2, <2>1, <2>2, <2>3, RewriteGrows
<1>4. ASSUME NEW status \in {"running", "completed", "failed"},
             Transition(i, status, FALSE, clock)
      PROVE  RowWritten(i)
  <2> DEFINE row == Transitioned(runs[i], status, FALSE, clock)
  <2>1. clock \in Readings /\ status \in Targets
    BY DEF Readings, PubInv, TypeOK, PublicationAssumption
  <2>2. TypeOK' /\ UNCHANGED <<pruned, cursors, heads, keys, decisions, deliveries>>
    BY <1>4, <2>1, TypeTransition DEF PubInv, Transition
  <2>3. CASE IsOpen(i)
    <3>1. runs' = [runs EXCEPT ![i] = row] /\ status \in Status \ Refusals
      BY <1>2, <1>4, <2>3 DEF Transition, Status, OpenStatus, FinalStatus, Refusals
    <3>2. Grows(runs[i], row)
      BY <1>2, <2>3, <3>1, GrowsTransition DEF IsOpen
    <3>3. row.outcome = runs[i].outcome \/ row.outcome = OutcomeOf(status)
      BY <1>2 DEF Transitioned, Run
    <3> HIDE DEF row
    <3>4. row.outcome.decision \in Confirmed => Publication(i) \in made
      BY <1>2, <3>3 DEF OutcomeOf, Confirmed
    <3> QED
      BY <1>1, <2>2, <3>1, <3>2, <3>4, RewriteGrows
  <2>4. CASE ~ IsOpen(i)
    <3>1. runs' = runs
      BY <1>4, <2>4 DEF Transition
    <3> QED
      BY <1>2, <2>2, <3>1, GrowsSame DEF RowWritten
  <2> QED
    BY <2>3, <2>4
<1> QED
  BY <1>3, <1>4 DEF Advances

LEMMA NoticeRow ==
  ASSUME PubInv, NEW i \in Ids, Notes(i), UNCHANGED clock
  PROVE  NoticeWritten(i)
<1>1. PICK slot \in Slots :
        \/ ClaimNotification(i, slot)
        \/ SettleNotification(i, slot, "unknown")
        \/ SettleNotification(i, slot, "confirmed") /\ <<i, slot>> \in made
  BY DEF Notes
<1>2. TypeOK'
  BY <1>1, TypeNotification DEF PubInv
<1>3. i \in DOMAIN runs /\ UNCHANGED <<runs, pruned, cursors, heads, keys, decisions>>
  BY <1>1 DEF ClaimNotification, NotificationClaimable, SettleNotification, Rows
<1>4. deliveries \in [Ids \X Slots -> DeliveryStatus] /\ <<i, slot>> \in Ids \X Slots
  BY DEF PubInv, TypeOK
<1>5. \/ /\ deliveries[<<i, slot>>] = "none"
         /\ deliveries' = [deliveries EXCEPT ![<<i, slot>>] = "attempted"]
      \/ deliveries' = [deliveries EXCEPT ![<<i, slot>>] = IF @ = "attempted" THEN "unknown" ELSE @]
      \/ /\ deliveries' = [deliveries EXCEPT ![<<i, slot>>] = IF @ = "attempted" THEN "confirmed" ELSE @]
         /\ <<i, slot>> \in made
  BY <1>1 DEF ClaimNotification, NotificationClaimable, SettleNotification
<1>6. /\ \A x \in Ids \X Slots : x # <<i, slot>> => deliveries'[x] = deliveries[x]
      /\ \/ deliveries'[<<i, slot>>] = deliveries[<<i, slot>>]
         \/ deliveries[<<i, slot>>] = "none" /\ deliveries'[<<i, slot>>] = "attempted"
         \/ /\ deliveries[<<i, slot>>] = "attempted"
            /\ \/ deliveries'[<<i, slot>>] = "unknown"
               \/ deliveries'[<<i, slot>>] = "confirmed" /\ <<i, slot>> \in made
  BY <1>4, <1>5
<1> QED
  BY <1>2, <1>3, <1>6 DEF NoticeWritten

-----------------------------------------------------------------------------
(* What a task step keeps, whatever it writes. *)

Orderly(i) ==
  /\ TypeOK' /\ UNCHANGED <<pruned, heads, decisions, made>>
  /\ DOMAIN runs' = DOMAIN runs
  /\ \A j \in DOMAIN runs :
       /\ WholeRow(runs'[j]) /\ Kept(runs[j], runs'[j])
       /\ j # i => runs'[j] = runs[j]
  /\ \A j \in Ids, slot \in Slots : j # i => deliveries'[<<j, slot>>] = deliveries[<<j, slot>>]
  /\ \A x \in Items : x[1] # i => sent'[x] = sent[x]
  /\ Exists(i)'
  /\ i \notin DOMAIN runs \/ ~ runs'[i].outcome.intent => sent'[Publication(i)] = 0
  /\ sent' \in [Items -> Nat] /\ wire' \subseteq Items
  /\ \A x \in wire' : x[1] \in DOMAIN runs

LEMMA InRuns ==
  ASSUME PubInv
  PROVE  /\ DOMAIN runs \subseteq Ids /\ Rows = DOMAIN runs
         /\ \A j \in DOMAIN runs : runs[j] \in Run /\ WholeRow(runs[j])
<1>1. \A j \in DOMAIN runs : runs[j] \in Run
  BY DEF PubInv, TypeOK
<1> QED
  BY <1>1 DEF Rows, PubInv, RowsBounded, RowsWhole

LEMMA WritesOrderly ==
  ASSUME LedgerAssumption, PublicationAssumption, PubInv, NEW i \in Ids, Writes(i),
         UNCHANGED clock
  PROVE  Orderly(i)
<1>1. /\ DOMAIN runs \subseteq Ids
      /\ \A j \in DOMAIN runs : WholeRow(runs[j]) /\ Kept(runs[j], runs[j])
  BY InRuns DEF Kept
<1>2. /\ sent \in [Items -> Nat] /\ wire \subseteq Items /\ \A x \in wire : x[1] \in DOMAIN runs
      /\ Exists(i) /\ SendsOnce(i) /\ Publication(i) \in Items
  BY DEF PubInv, TypePub, TaskInv, Publication, Items
<1>3. CASE UNCHANGED ledger /\ Local
  <2>1. TypeOK' /\ Exists(i)'
    BY <1>2, <1>3 DEF PubInv, TypeOK, Exists
  <2> QED
    BY <1>1, <1>2, <1>3, <2>1 DEF Orderly, SendsOnce
<1>4. CASE RowWritten(i) /\ Local
  <2>1. Exists(i)'
    BY <1>2, <1>4 DEF Exists, RowWritten
  <2>2. Kept(runs[i], runs'[i]) /\ WholeRow(runs'[i])
    BY <1>4 DEF RowWritten, Grows
  <2>3. ~ runs'[i].outcome.intent => sent'[Publication(i)] = 0
    BY <1>2, <1>4, <2>2 DEF Kept, SendsOnce
  <2> QED
    BY <1>1, <1>2, <1>4, <2>1, <2>2, <2>3 DEF Orderly, RowWritten
<1>5. CASE NoticeWritten(i) /\ Local
  <2>1. Exists(i)'
    <3>1. ASSUME NEW slot \in Slots, deliveries'[<<i, slot>>] = "confirmed"
          PROVE  <<i, slot>> \in made
      BY <1>2, <1>5, <3>1 DEF Exists, NoticeWritten
    <3> QED
      BY <1>2, <1>5, <3>1 DEF Exists, NoticeWritten
  <2>2. \A j \in Ids, slot \in Slots :
          j # i => deliveries'[<<j, slot>>] = deliveries[<<j, slot>>]
    BY <1>5 DEF NoticeWritten
  <2> QED
    BY <1>1, <1>2, <1>5, <2>1, <2>2 DEF Orderly, NoticeWritten, SendsOnce
<1>6. CASE Sends(i)
  <2>1. PICK x \in Items :
          /\ x[1] = i /\ i \in DOMAIN runs /\ PhaseOf(x) = "claimed"
          /\ wire' = wire \cup {x} /\ sent' = [sent EXCEPT ![x] = @ + 1]
          /\ UNCHANGED <<ledger, made>>
    BY <1>6 DEF Sends
  <2>2. TypeOK' /\ Exists(i)'
    BY <1>2, <2>1 DEF PubInv, TypeOK, Exists
  <2>3. ~ runs'[i].outcome.intent => sent'[Publication(i)] = 0
    <3>1. CASE x = Publication(i)
      <4>1. x[2] = "publication"
        BY <3>1 DEF Publication
      <4>2. runs[i].outcome.intent
        BY <2>1, <4>1 DEF PhaseOf
      <4> QED
        BY <2>1, <4>2
    <3>2. CASE x # Publication(i)
      BY <1>2, <2>1, <3>2 DEF SendsOnce
    <3> QED
      BY <3>1, <3>2
  <2>4. /\ sent' \in [Items -> Nat] /\ \A y \in Items : y[1] # i => sent'[y] = sent[y]
        /\ wire' \subseteq Items /\ \A y \in wire' : y[1] \in DOMAIN runs
    BY <1>2, <2>1
  <2> QED
    BY <1>1, <2>1, <2>2, <2>3, <2>4 DEF Orderly
<1>7. Settles(i) \/ Advances(i) \/ Claims(i) => RowWritten(i)
  BY SettleRow, AdvanceRow, ClaimRow
<1>8. Notes(i) => NoticeWritten(i)
  BY NoticeRow
<1> QED
  BY <1>3, <1>4, <1>5, <1>6, <1>7, <1>8 DEF Writes

\* The places of a task, and which run the place belongs to.
Place(i) ==
  /\ pc[i] \in {"none", "done"} \cup DraftState \cup ReviewState \cup TriageState
  /\ i \in DOMAIN runs =>
       /\ pc[i] \in DraftState => runs[i].trigger.kind = "event"
       /\ pc[i] \in ReviewState => runs[i].trigger.kind = "pr_review"
       /\ pc[i] \in TriageState => runs[i].trigger.kind = "triage"

LEMMA OthersKept ==
  ASSUME LedgerAssumption, PubInv, NEW i \in Ids, Orderly(i), NEW j \in Ids, j # i,
         pc'[j] = pc[j], seen'[j] = seen[j], Place(j)
  PROVE  TaskInv(j)' /\ Place(j)'
<1>1. /\ TaskInv(j) /\ made' = made /\ DOMAIN runs' = DOMAIN runs
      /\ j \in DOMAIN runs => runs'[j] = runs[j]
  BY DEF PubInv, Orderly
<1>2. \A slot \in Slots : /\ deliveries'[<<j, slot>>] = deliveries[<<j, slot>>]
                          /\ sent'[<<j, slot>>] = sent[<<j, slot>>]
  BY DEF Orderly, Items
<1>3. sent'[Publication(j)] = sent[Publication(j)]
  BY DEF Orderly, Items
<1>4. OwnsRow(j)' /\ ClaimsFirst(j)' /\ SendsOnce(j)'
  BY <1>1, <1>3 DEF TaskInv, OwnsRow, ClaimsFirst, SendsOnce, Refused
<1>5. NoticesFirst(j)' /\ Explained(j)'
  <2>1. Slots # {} => "triage-comment" \in Slots /\ "triage-label" \in Slots
    BY PublicationAssumption DEF PublicationAssumption
  <2> QED
    BY <1>1, <1>2, <2>1 DEF TaskInv, NoticesFirst, Explained, TriageState
<1>6. Exists(j)'
  BY <1>1, <1>2 DEF TaskInv, Exists
<1>7. Place(j)'
  BY <1>1 DEF Place
<1> QED
  BY <1>4, <1>5, <1>6, <1>7 DEF TaskInv

\* A task of a publication or review stays at its run and touches no notice.
LEMMA EffectTask ==
  ASSUME LedgerAssumption, PublicationAssumption, PubInv, NEW i \in Ids, Orderly(i),
         deliveries' = deliveries,
         \A slot \in Slots : sent'[<<i, slot>>] = sent[<<i, slot>>],
         pc'[i] \notin TriageState,
         pc[i] \notin {"none", "done"} \/ pc'[i] \in {"none", "done"}
  PROVE  OwnsRow(i)' /\ NoticesFirst(i)' /\ Explained(i)'
<1>1. /\ TaskInv(i) /\ DOMAIN runs' = DOMAIN runs
      /\ i \in DOMAIN runs => Kept(runs[i], runs'[i])
  BY DEF PubInv, Orderly
<1>2. OwnsRow(i)'
  BY <1>1 DEF TaskInv, OwnsRow, Refused, Kept
<1>3. pc'[i] \notin {"commenting", "commented", "labelling", "labelled", "label"}
  BY DEF TriageState
<1>4. NoticesFirst(i)'
  BY <1>1, <1>3 DEF TaskInv, NoticesFirst
<1>5. Slots # {} => "triage-label" \in Slots
  BY DEF PublicationAssumption
<1>6. Explained(i)'
  BY <1>1, <1>3, <1>5 DEF TaskInv, Explained, Kept
<1> QED
  BY <1>2, <1>4, <1>6

\* The task of a publication or review arrives where its claim allows it to be.
LEMMA Arrives ==
  ASSUME LedgerAssumption, PublicationAssumption, PubInv, NEW i \in Ids, Orderly(i), NEW to,
         \/ pc[i] \in DraftState /\ to \in DraftState \cup {"done"}
         \/ pc[i] \in ReviewState /\ to \in ReviewState \cup {"done"},
         pc' = [pc EXCEPT ![i] = to], deliveries' = deliveries,
         \A x \in Items : x # Publication(i) => sent'[x] = sent[x],
         to \in {"lookup", "post", "waiting", "relook", "send", "answer"}
           => runs'[i].outcome.intent,
         to \in {"prepare", "validate"} /\ seen'[i].recovering => runs'[i].outcome.intent,
         to \in {"post", "send"} \/ (to = "lookup" /\ ~ seen'[i].recovering)
           => sent'[Publication(i)] = 0
  PROVE  TaskInv(i)' /\ Place(i)'
<1>1. pc'[i] = to /\ pc[i] \notin {"none", "done"} /\ to \notin TriageState
  BY DEF PubInv, TypePub, DraftState, ReviewState, TriageState
<1>2. /\ i \in DOMAIN runs /\ DOMAIN runs' = DOMAIN runs
      /\ runs'[i].trigger = runs[i].trigger
  BY <1>1 DEF PubInv, TaskInv, OwnsRow, Orderly, Kept
<1>3. OwnsRow(i)' /\ NoticesFirst(i)' /\ Explained(i)'
  <2>1. \A slot \in Slots : sent'[<<i, slot>>] = sent[<<i, slot>>]
    BY DEF PublicationAssumption, Items
  <2> QED
    BY <1>1, <2>1, EffectTask
<1>4. ClaimsFirst(i)'
  BY <1>1 DEF ClaimsFirst
<1>5. SendsOnce(i)'
  BY <1>1 DEF SendsOnce, Orderly
<1>6. Exists(i)'
  BY DEF Orderly
<1>7. Place(i)'
  <2>1. /\ pc[i] \in DraftState => runs[i].trigger.kind = "event"
        /\ pc[i] \in ReviewState => runs[i].trigger.kind = "pr_review"
    BY <1>2 DEF PubInv, TypePub
  <2> QED
    BY <1>1, <1>2, <2>1 DEF Place, DraftState, ReviewState
<1> QED
  BY <1>3, <1>4, <1>5, <1>6, <1>7 DEF TaskInv

LEMMA DraftTask ==
  ASSUME LedgerAssumption, PublicationAssumption, PubInv, NEW i \in Ids, Orderly(i),
         DraftPr(i)
  PROVE  TaskInv(i)' /\ Place(i)'
<1>1. /\ OwnsRow(i) /\ ClaimsFirst(i) /\ SendsOnce(i)
      /\ pc \in [Ids -> {"none", "done"} \cup DraftState \cup ReviewState \cup TriageState]
      /\ seen \in [Ids -> [worktree : BOOLEAN, recovering : BOOLEAN, allowed : BOOLEAN]]
      /\ sent \in [Items -> Nat]
      /\ runs[i].outcome.intent /\ i \in DOMAIN runs => runs'[i].outcome.intent
  BY DEF PubInv, TypePub, TaskInv, Orderly, Kept
<1>2. pc[i] \in DraftState /\ i \in DOMAIN runs
  <2>1. pc[i] \in DraftState
    BY DEF DraftPr, Start, Prepare, Refuse, Validate, Lookup, Post, Wait, Relook, Error,
           Report, Settle, SendRequest, Step, DraftState
  <2> QED
    BY <1>1, <2>1 DEF OwnsRow, DraftState
<1>3. deliveries' = deliveries
  BY DEF DraftPr, Start, Prepare, Refuse, Validate, Lookup, Post, Wait, Relook, Error,
         Report, Settle, SendRequest, SettleOutcome, ClaimPublication
<1>4. \A x \in Items : x # Publication(i) => sent'[x] = sent[x]
  BY <1>1 DEF DraftPr, Start, Prepare, Refuse, Validate, Lookup, Post, Wait, Relook, Error,
              Report, SendRequest
<1>5. ASSUME NEW to \in {"error", "done"}, pc' = [pc EXCEPT ![i] = to]
      PROVE  TaskInv(i)' /\ Place(i)'
  BY <1>2, <1>3, <1>4, <1>5, Arrives DEF DraftState
<1>6. ASSUME NEW from, NEW decision, Report(i, from, decision) PROVE TaskInv(i)' /\ Place(i)'
  BY <1>5, <1>6 DEF Report, Settle, Step
<1>7. CASE Start(i)
  <2>1. CASE pc' = [pc EXCEPT ![i] = "prepare"] /\ UNCHANGED ledger
             /\ seen' = [seen EXCEPT ![i].recovering = runs[i].outcome.intent]
    <3>1. seen'[i].recovering = runs'[i].outcome.intent
      BY <1>1, <2>1
    <3> QED
      BY <1>2, <1>3, <1>4, <2>1, <3>1, Arrives DEF DraftState
  <2> QED
    BY <1>5, <1>7, <2>1 DEF Start, Settle, Step
<1>8. CASE Prepare(i)
  <2>1. CASE pc[i] = "prepare" /\ pc' = [pc EXCEPT ![i] = "validate"]
             /\ seen' = [seen EXCEPT ![i].allowed = allow]
    <3>1. seen'[i].recovering = seen[i].recovering
      BY <1>1, <2>1
    <3>2. seen'[i].recovering => runs'[i].outcome.intent
      BY <1>1, <1>2, <2>1, <3>1 DEF ClaimsFirst
    <3> QED
      BY <1>2, <1>3, <1>4, <2>1, <3>2, Arrives DEF DraftState
  <2> QED
    BY <1>5, <1>8, <2>1 DEF Prepare, Step
<1>9. CASE Refuse(i)
  BY <1>6, <1>9 DEF Refuse
<1>10. CASE Validate(i)
  <2>1. CASE pc[i] = "validate" /\ pc' = [pc EXCEPT ![i] = "lookup"] /\ seen' = seen /\ Local
             /\ (seen[i].recovering \/ ClaimPublication(i))
    <3>1. runs'[i].outcome.intent
      <4>1. CASE seen[i].recovering
        BY <1>1, <1>2, <2>1, <4>1 DEF ClaimsFirst
      <4>2. CASE ClaimPublication(i)
        BY <1>2, <4>2, InRuns DEF ClaimPublication, Run
      <4> QED
        BY <2>1, <4>1, <4>2
    <3>2. ~ seen'[i].recovering => sent'[Publication(i)] = 0
      BY <1>1, <2>1 DEF ClaimPublication, Unclaimed, SendsOnce
    <3> QED
      BY <1>2, <1>3, <1>4, <2>1, <3>1, <3>2, Arrives DEF DraftState
  <2> QED
    BY <1>5, <1>10, <2>1 DEF Validate, Step
<1>11. CASE Lookup(i)
  <2>1. CASE pc[i] = "lookup" /\ pc' = [pc EXCEPT ![i] = "post"] /\ Local
             /\ ~ seen[i].recovering
    <3>1. runs'[i].outcome.intent /\ sent'[Publication(i)] = 0
      BY <1>1, <1>2, <2>1 DEF ClaimsFirst, SendsOnce
    <3> QED
      BY <1>2, <1>3, <1>4, <2>1, <3>1, Arrives DEF DraftState
  <2> QED
    BY <1>6, <1>11, <2>1 DEF Lookup, Step
<1>12. CASE Post(i) \/ Wait(i)
  <2>1. CASE pc[i] \in {"post", "waiting"} /\ (\/ pc' = [pc EXCEPT ![i] = "waiting"]
                                               \/ pc' = [pc EXCEPT ![i] = "relook"])
    <3>1. runs'[i].outcome.intent
      BY <1>1, <1>2, <2>1 DEF ClaimsFirst
    <3> QED
      BY <1>2, <1>3, <1>4, <2>1, <3>1, Arrives DEF DraftState
  <2> QED
    BY <1>6, <1>12, <2>1 DEF Post, Wait, SendRequest, Step
<1>13. CASE Relook(i)
  BY <1>6, <1>13 DEF Relook
<1>14. CASE Error(i)
  BY <1>5, <1>14 DEF Error, Step
<1> QED
  BY <1>7, <1>8, <1>9, <1>10, <1>11, <1>12, <1>13, <1>14 DEF DraftPr

LEMMA ReviewTask ==
  ASSUME LedgerAssumption, PublicationAssumption, PubInv, NEW i \in Ids, Orderly(i),
         Review(i)
  PROVE  TaskInv(i)' /\ Place(i)'
<1>1. /\ OwnsRow(i) /\ ClaimsFirst(i) /\ SendsOnce(i)
      /\ pc \in [Ids -> {"none", "done"} \cup DraftState \cup ReviewState \cup TriageState]
      /\ sent \in [Items -> Nat]
      /\ runs[i].outcome.intent /\ i \in DOMAIN runs => runs'[i].outcome.intent
  BY DEF PubInv, TypePub, TaskInv, Orderly, Kept
<1>2. pc[i] \in ReviewState /\ i \in DOMAIN runs
  <2>1. pc[i] \in ReviewState
    BY DEF Review, TakeReview, RunReview, Fetch, ReviewDiff, Recheck, Finish, Complete,
           ClaimReview, SendReview, Answer, FailReview, Move, Conclude, Pure, SendRequest,
           Step, ReviewState
  <2> QED
    BY <1>1, <2>1 DEF OwnsRow, ReviewState
<1>3. deliveries' = deliveries
  BY DEF Review, TakeReview, RunReview, Fetch, ReviewDiff, Recheck, Finish, Complete,
         ClaimReview, SendReview, Answer, FailReview, Move, Conclude, Pure, SendRequest,
         ClaimDispatch, Transition, SettleOutcome, ClaimPublication, SupersedePublication
<1>4. \A x \in Items : x # Publication(i) => sent'[x] = sent[x]
  BY <1>1 DEF Review, TakeReview, RunReview, Fetch, ReviewDiff, Recheck, Finish, Complete,
              ClaimReview, SendReview, Answer, FailReview, Move, Conclude, Pure, SendRequest
<1>5. ASSUME NEW to \in (ReviewState \cup {"done"}) \ {"send", "answer"},
             pc' = [pc EXCEPT ![i] = to]
      PROVE  TaskInv(i)' /\ Place(i)'
  BY <1>2, <1>3, <1>4, <1>5, Arrives DEF ReviewState
<1>6. ASSUME NEW from \in ReviewState, NEW to \in (ReviewState \cup {"done"}) \ {"send", "answer"},
             \/ Pure(i, from, to)
             \/ \E decision : Conclude(i, from, decision, to)
             \/ \E status : Move(i, from, to, status)
      PROVE  TaskInv(i)' /\ Place(i)'
  <2>1. pc' = [pc EXCEPT ![i] = to] \/ pc' = [pc EXCEPT ![i] = "fail"]
        \/ pc' = [pc EXCEPT ![i] = "done"]
    BY <1>6 DEF Pure, Conclude, Move, Step
  <2> QED
    BY <1>5, <2>1 DEF ReviewState
<1>7. CASE TakeReview(i) \/ RunReview(i)
  BY <1>5, <1>6, <1>7 DEF TakeReview, RunReview, Step, ReviewState
<1>8. CASE Fetch(i) \/ ReviewDiff(i) \/ Recheck(i)
  BY <1>6, <1>8 DEF Fetch, ReviewDiff, Recheck, ReviewState
<1>9. CASE Finish(i) \/ Complete(i) \/ FailReview(i)
  BY <1>6, <1>9 DEF Finish, Complete, FailReview, ReviewState
<1>10. CASE ClaimReview(i)
  <2>1. CASE pc' = [pc EXCEPT ![i] = "send"] /\ ClaimPublication(i) /\ Local
    <3>1. runs'[i].outcome.intent
      BY <1>2, <2>1, InRuns DEF ClaimPublication, Run
    <3>2. sent'[Publication(i)] = 0
      BY <1>1, <2>1 DEF ClaimPublication, Unclaimed, SendsOnce
    <3> QED
      BY <1>2, <1>3, <1>4, <2>1, <3>1, <3>2, Arrives DEF ReviewState
  <2> QED
    BY <1>5, <1>10, <2>1 DEF ClaimReview, Step, ReviewState
<1>11. CASE SendReview(i)
  <2>1. pc[i] = "send" /\ pc' = [pc EXCEPT ![i] = "answer"]
    BY <1>11 DEF SendReview, Pure, SendRequest, Step
  <2>2. runs'[i].outcome.intent
    BY <1>1, <1>2, <2>1 DEF ClaimsFirst
  <2> QED
    BY <1>2, <1>3, <1>4, <2>1, <2>2, Arrives DEF ReviewState
<1>12. CASE Answer(i)
  BY <1>6, <1>12 DEF Answer, ReviewState
<1> QED
  BY <1>7, <1>8, <1>9, <1>10, <1>11, <1>12 DEF Review

\* The task of a triage decision arrives where its notices allow it to be.
LEMMA TriageTask ==
  ASSUME LedgerAssumption, PublicationAssumption, PubInv, NEW i \in Ids, Orderly(i),
         Triaged(i)
  PROVE  TaskInv(i)' /\ Place(i)'
<1> DEFINE comment == <<i, "triage-comment">>
           label   == <<i, "triage-label">>
<1>1. /\ Slots = {"triage-comment", "triage-label"}
      /\ comment \in Items /\ label \in Items
      /\ comment \in Ids \X Slots /\ label \in Ids \X Slots
  BY DEF Triaged, PublicationAssumption, Items
<1>2. /\ OwnsRow(i) /\ NoticesFirst(i) /\ Explained(i) /\ SendsOnce(i)
      /\ pc \in [Ids -> {"none", "done"} \cup DraftState \cup ReviewState \cup TriageState]
      /\ deliveries \in [Ids \X Slots -> DeliveryStatus] /\ sent \in [Items -> Nat]
      /\ DOMAIN runs' = DOMAIN runs /\ DOMAIN runs \subseteq Ids
  BY InRuns DEF PubInv, TypePub, TypeOK, TaskInv, Orderly
<1>3. runs' = runs /\ sent'[Publication(i)] = sent[Publication(i)]
  <2>1. runs' = runs
    BY DEF Triaged, TakeDecision, Comments, Labels, ClaimNotice, SendNotice, SettleNotice,
           SendRequest, Pure, ClaimNotification, SettleNotification
  <2>2. \/ sent' = sent
        \/ sent' = [sent EXCEPT ![comment] = @ + 1]
        \/ sent' = [sent EXCEPT ![label] = @ + 1]
    BY DEF Triaged, TakeDecision, Comments, Labels, ClaimNotice, SendNotice, SettleNotice,
           SendRequest, Pure
  <2>3. Publication(i) \in Items /\ Publication(i) # comment /\ Publication(i) # label
    BY DEF Items
  <2> QED
    BY <1>2, <2>1, <2>2, <2>3
<1>4. /\ i \in DOMAIN runs /\ ~ Refused(i) /\ runs[i].trigger.kind = "triage"
      /\ pc'[i] \in {"none"} \cup TriageState
  <2>1. pc'[i] \in {"none"} \cup TriageState
    BY <1>2 DEF Triaged, TakeDecision, Comments, Labels, ClaimNotice, SendNotice,
                SettleNotice, SendRequest, Pure, Step, TriageState
  <2>2. CASE TakeDecision(i)
    BY <2>1, <2>2 DEF TakeDecision, PendingTriage, Rows, Refused, Refusals
  <2>3. CASE Comments(i) \/ Labels(i)
    <3>1. pc[i] \in TriageState
      BY <2>3 DEF Comments, Labels, ClaimNotice, SendNotice, SettleNotice, SendRequest, Pure,
                  Step, TriageState
    <3> QED
      BY <1>2, <2>1, <3>1 DEF OwnsRow, TriageState, PubInv, TypePub
  <2> QED
    BY <2>2, <2>3 DEF Triaged
<1>5. OwnsRow(i)' /\ ClaimsFirst(i)' /\ SendsOnce(i)'
  BY <1>2, <1>3, <1>4 DEF OwnsRow, ClaimsFirst, SendsOnce, Refused, TriageState
<1>6. Exists(i)'
  BY DEF Orderly
<1>7. Place(i)'
  BY <1>3, <1>4 DEF Place, DraftState, ReviewState, TriageState
<1>8. NoticesFirst(i)' /\ Explained(i)'
  <2>1. CASE TakeDecision(i)
    BY <1>1, <1>2, <1>3, <2>1
    DEF TakeDecision, Pure, Step, NoticesFirst, Explained
  <2>2. CASE Comments(i)
    <3>1. CASE UNCHANGED <<deliveries, sent>> /\ (\/ pc'[i] = "none"
                                                  \/ /\ pc'[i] = "label"
                                                     /\ deliveries[comment] = "confirmed")
      BY <1>1, <1>2, <1>3, <3>1 DEF NoticesFirst, Explained
    <3>2. CASE /\ ClaimNotification(i, "triage-comment") /\ sent' = sent
               /\ pc'[i] = "commenting"
      <4>1. /\ deliveries[comment] = "none" /\ deliveries'[comment] = "attempted"
            /\ deliveries'[label] = deliveries[label]
        BY <1>1, <1>2, <3>2 DEF ClaimNotification, NotificationClaimable
      <4> QED
        BY <1>1, <1>2, <1>3, <3>2, <4>1 DEF NoticesFirst, Explained
    <3>3. CASE /\ pc[i] = "commenting" /\ pc'[i] = "commented" /\ UNCHANGED deliveries
               /\ \/ sent' = sent
                  \/ sent' = [sent EXCEPT ![comment] = @ + 1]
      BY <1>1, <1>2, <1>3, <3>3 DEF NoticesFirst, Explained
    <3>4. CASE /\ pc[i] = "commented" /\ sent' = sent
               /\ \/ pc'[i] = "label" /\ SettleNotification(i, "triage-comment", "confirmed")
                  \/ pc'[i] = "none" /\ SettleNotification(i, "triage-comment", "unknown")
      <4>1. /\ deliveries[comment] = "attempted" /\ deliveries'[label] = deliveries[label]
            /\ \/ pc'[i] = "label" /\ deliveries'[comment] = "confirmed"
               \/ pc'[i] = "none" /\ deliveries'[comment] = "unknown"
        BY <1>1, <1>2, <3>4 DEF SettleNotification, NoticesFirst
      <4> QED
        BY <1>1, <1>2, <1>3, <3>4, <4>1 DEF NoticesFirst, Explained
    <3> QED
      BY <1>2, <2>2, <3>1, <3>2, <3>3, <3>4
      DEF Comments, ClaimNotice, SendNotice, SettleNotice, SendRequest, Pure, Step
  <2>3. CASE Labels(i)
    <3>1. CASE UNCHANGED <<deliveries, sent>> /\ pc'[i] = "none"
      BY <1>1, <1>2, <1>3, <3>1 DEF NoticesFirst, Explained
    <3>2. CASE /\ pc[i] = "label" /\ ClaimNotification(i, "triage-label") /\ sent' = sent
               /\ pc'[i] = "labelling"
      <4>1. /\ deliveries[label] = "none" /\ deliveries'[label] = "attempted"
            /\ deliveries'[comment] = deliveries[comment]
        BY <1>1, <1>2, <3>2 DEF ClaimNotification, NotificationClaimable
      <4> QED
        BY <1>1, <1>2, <1>3, <3>2, <4>1 DEF NoticesFirst, Explained
    <3>3. CASE /\ pc[i] = "labelling" /\ pc'[i] = "labelled" /\ UNCHANGED deliveries
               /\ \/ sent' = sent
                  \/ sent' = [sent EXCEPT ![label] = @ + 1]
      BY <1>1, <1>2, <1>3, <3>3 DEF NoticesFirst, Explained
    <3>4. CASE /\ pc[i] = "labelled" /\ sent' = sent /\ pc'[i] = "none"
               /\ \/ SettleNotification(i, "triage-label", "confirmed")
                  \/ SettleNotification(i, "triage-label", "unknown")
      <4>1. /\ deliveries[label] = "attempted" /\ deliveries'[label] # "none"
            /\ deliveries'[comment] = deliveries[comment]
        BY <1>1, <1>2, <3>4 DEF SettleNotification, NoticesFirst
      <4> QED
        BY <1>1, <1>2, <1>3, <3>4, <4>1 DEF NoticesFirst, Explained
    <3> QED
      BY <1>2, <2>3, <3>1, <3>2, <3>3, <3>4
      DEF Labels, ClaimNotice, SendNotice, SettleNotice, SendRequest, Pure, Step
  <2> QED
    BY <2>1, <2>2, <2>3 DEF Triaged
<1> QED
  BY <1>5, <1>6, <1>7, <1>8 DEF TaskInv

\* A task step moves its own task only, and what it cannot do it leaves alone.
LEMMA TaskMoves ==
  ASSUME PubInv, NEW i \in Ids, DraftPr(i) \/ Review(i) \/ Triaged(i)
  PROVE  /\ Quiet
         /\ \E to : pc' = [pc EXCEPT ![i] = to]
         /\ seen' \in [Ids -> [worktree : BOOLEAN, recovering : BOOLEAN, allowed : BOOLEAN]]
         /\ \A j \in Ids : j # i => seen'[j] = seen[j]
<1>1. /\ seen \in [Ids -> [worktree : BOOLEAN, recovering : BOOLEAN, allowed : BOOLEAN]]
      /\ allow \in BOOLEAN /\ OwnsRow(i)
  BY DEF PubInv, TypePub, TaskInv
<1>2. Quiet /\ \E to : pc' = [pc EXCEPT ![i] = to]
  BY DEF DraftPr, Start, Prepare, Refuse, Validate, Lookup, Post, Wait, Relook, Error, Report,
         Settle, Review, TakeReview, RunReview, Fetch, ReviewDiff, Recheck, Finish, Complete,
         ClaimReview, SendReview, Answer, FailReview, Move, Conclude, Pure, SendRequest,
         Triaged, TakeDecision, Comments, Labels, ClaimNotice, SendNotice, SettleNotice, Step
<1>3. \/ seen' = seen
      \/ pc[i] = "start" /\ seen' = [seen EXCEPT ![i].recovering = runs[i].outcome.intent]
      \/ seen' = [seen EXCEPT ![i].allowed = allow]
  BY DEF DraftPr, Start, Prepare, Refuse, Validate, Lookup, Post, Wait, Relook, Error, Report,
         Settle, Review, TakeReview, RunReview, Fetch, ReviewDiff, Recheck, Finish, Complete,
         ClaimReview, SendReview, Answer, FailReview, Move, Conclude, Pure, SendRequest,
         Triaged, TakeDecision, Comments, Labels, ClaimNotice, SendNotice, SettleNotice, Step
<1>4. pc[i] = "start" => runs[i].outcome.intent \in BOOLEAN
  <2>1. pc[i] = "start" => i \in DOMAIN runs
    BY <1>1 DEF OwnsRow
  <2> QED
    BY <2>1, InRuns, RowFields
<1>5. seen' \in [Ids -> [worktree : BOOLEAN, recovering : BOOLEAN, allowed : BOOLEAN]]
  BY <1>1, <1>3, <1>4
<1>6. \A j \in Ids : j # i => seen'[j] = seen[j]
  BY <1>1, <1>3
<1> QED
  BY <1>2, <1>5, <1>6

LEMMA TaskStep ==
  ASSUME LedgerAssumption, PublicationAssumption, PubInv,
         NEW i \in Ids, DraftPr(i) \/ Review(i) \/ Triaged(i)
  PROVE  PubInv'
<1>1. /\ Quiet /\ seen' \in [Ids -> [worktree : BOOLEAN, recovering : BOOLEAN, allowed : BOOLEAN]]
      /\ \A j \in Ids : j # i => seen'[j] = seen[j]
  BY TaskMoves
<1>2. Orderly(i)
  BY <1>1, DraftWrites, ReviewWrites, TriageWrites, WritesOrderly DEF Quiet
<1>3. TaskInv(i)' /\ Place(i)'
  BY <1>2, DraftTask, ReviewTask, TriageTask
<1>4. PICK to : pc' = [pc EXCEPT ![i] = to]
  BY TaskMoves
<1>5. pc \in [Ids -> {"none", "done"} \cup DraftState \cup ReviewState \cup TriageState]
      /\ \A j \in Ids : Place(j)
  BY DEF PubInv, TypePub, Place
<1>6. \A j \in Ids : TaskInv(j)' /\ Place(j)'
  <2>1. \A j \in Ids : j # i => pc'[j] = pc[j]
    BY <1>4, <1>5
  <2> QED
    BY <1>1, <1>2, <1>3, <1>5, <2>1, OthersKept
<1>7. DOMAIN runs' = DOMAIN runs /\ DOMAIN runs \subseteq Ids /\ pruned = {}
  BY <1>2 DEF Orderly, PubInv, RowsBounded
<1>8. TypePub'
  <2>1. pc' \in [Ids -> {"none", "done"} \cup DraftState \cup ReviewState \cup TriageState]
    <3>1. pc'[i] = to
      BY <1>4, <1>5
    <3> QED
      BY <1>3, <1>4, <1>5, <3>1 DEF Place, DraftState, ReviewState, TriageState
  <2>2. \A j \in DOMAIN runs' :
          /\ pc'[j] \in DraftState => runs'[j].trigger.kind = "event"
          /\ pc'[j] \in ReviewState => runs'[j].trigger.kind = "pr_review"
          /\ pc'[j] \in TriageState => runs'[j].trigger.kind = "triage"
    BY <1>6, <1>7 DEF Place, DraftState, ReviewState, TriageState
  <2>3. /\ up \in BOOLEAN /\ allow \in BOOLEAN /\ made \subseteq Items
        /\ \A x \in made : x[1] \in DOMAIN runs
        /\ head \in [Prs -> Shas \cup {NoSha}] /\ polled \in [Prs -> Shas \cup {NoSha}]
    BY DEF PubInv, TypePub
  <2>4. /\ wire' \subseteq Items /\ \A x \in wire' : x[1] \in DOMAIN runs
        /\ sent' \in [Items -> Nat] /\ made' = made
    BY <1>2 DEF Orderly
  <2> QED
    BY <1>1, <1>7, <2>1, <2>2, <2>3, <2>4
    DEF TypePub, Quiet, DraftState, ReviewState, TriageState, Items
<1>9. RowsWhole' /\ RowsBounded' /\ TypeOK'
  BY <1>2, <1>7 DEF RowsWhole, RowsBounded, Orderly, Ids
<1>10. RefusalRows'
  BY <1>2 DEF PubInv, RefusalRows, Refused, Orderly, Kept
<1> QED
  BY <1>6, <1>8, <1>9, <1>10 DEF PubInv, Ids

-----------------------------------------------------------------------------
(* Admission of a review, recovery, and the steps of the world around. *)

\* What admit_event leaves: a new row, or a refusal written once more.
RowAppended ==
  \E row \in Run :
    /\ runs' = Append(runs, row) /\ Len(runs) < MaxRuns
    /\ WholeRow(row) /\ ~ row.outcome.intent /\ row.triage = "none"
    /\ row.trigger \in PrReview /\ heads'[row.trigger.pr] = row.trigger.sha
    /\ row.status \in {"reserved"} \cup Refusals
    /\ row.outcome.decision \notin Confirmed
    /\ \A x \in decisions' : x \in decisions \/ (x.id = Len(runs) + 1 /\ row.status \in Refusals)
RefusalRewritten ==
  \E k \in DOMAIN runs :
    /\ Refused(k) /\ DOMAIN runs' = DOMAIN runs /\ decisions' = decisions
    /\ \A j \in DOMAIN runs : j # k => runs'[j] = runs[j]
    /\ Grows(runs[k], runs'[k]) /\ runs'[k].triage = runs[k].triage
    /\ runs'[k].outcome.decision \notin Confirmed
    /\ ~ runs[k].outcome.intent /\ ~ runs'[k].outcome.intent

LEMMA RefusalEffect ==
  ASSUME LedgerAssumption, PublicationAssumption, PubInv, NEW definition \in Definition,
         NEW trigger \in PrReview, NEW status \in Refusals, NEW reason,
         heads'[trigger.pr] = trigger.sha,
         RecordRefusal(definition, trigger, status, reason)
  PROVE  RowAppended \/ RefusalRewritten
<1> DEFINE same == {x \in decisions : x.def = definition.id /\ x.trigger = trigger
                                        /\ x.reason = reason}
<1>1. /\ TypeOK /\ clock \in 0..MaxTime /\ clock \in Nat /\ RefusalRows
      /\ trigger \in EventTrigger /\ trigger \in Trigger /\ HasEventKey(trigger)
  BY TriggerKinds DEF PubInv, TypeOK, LedgerAssumption, EventTrigger, HasEventKey, PrReview
<1>2. /\ OutcomeOf(status) \in Outcome /\ ~ OutcomeOf(status).intent
      /\ ~ OutcomeOf(status).url /\ OutcomeOf(status).decision = status
      /\ status \in Decision \ {"none", "admitted", "publication_pending"}
      /\ status \notin Confirmed
  BY DEF OutcomeOf, Outcome, Decision, FinalStatus, Refusals, Confirmed
<1>3. CASE same # {}
  <2>1. PICK x \in decisions : /\ runs' = [runs EXCEPT ![x.id].outcome = OutcomeOf(status),
                                                      ![x.id].updated = Stamp(Latest(clock, @))]
                               /\ UNCHANGED decisions
    BY <1>3 DEF RecordRefusal
  <2> DEFINE k   == x.id
             row == [runs[k] EXCEPT !.outcome = OutcomeOf(status),
                                    !.updated = Stamp(Latest(clock, @))]
  <2>2. k \in DOMAIN runs /\ Refused(k)
    BY <1>1 DEF RefusalRows
  <2> HIDE DEF k
  <2>3. runs' = [runs EXCEPT ![k] = row]
    BY <2>1 DEF k
  <2>4. runs[k] \in Run /\ WholeRow(runs[k])
    BY <2>2, InRuns
  <2>5. /\ row.trigger = runs[k].trigger /\ row.status = runs[k].status
        /\ row.triage = runs[k].triage /\ row.outcome = OutcomeOf(status)
    BY <2>4 DEF Run
  <2> HIDE DEF row
  <2>6. ~ runs[k].outcome.intent /\ ~ runs[k].outcome.url
    BY <2>2, <2>4 DEF WholeRow, Confined, Refused, Refusals
  <2>7. row.outcome = [decision |-> status, intent |-> runs[k].outcome.intent,
                       url |-> status \in Confirmed]
    <3>1. runs[k].outcome.intent = FALSE /\ (status \in Confirmed) = FALSE
      BY <1>2, <2>4, <2>6, RowFields
    <3> QED
      BY <2>5, <3>1 DEF OutcomeOf
  <2>8. Grows(runs[k], row)
    BY <1>2, <2>4, <2>5, <2>6, <2>7, GrowsSettled
  <2>9. DOMAIN runs' = DOMAIN runs /\ runs'[k] = row
        /\ \A j \in DOMAIN runs : j # k => runs'[j] = runs[j]
    BY <2>2, <2>3
  <2> QED
    BY <1>2, <2>1, <2>2, <2>5, <2>6, <2>8, <2>9 DEF RefusalRewritten
<1>4. CASE same = {}
  <2> DEFINE new == NewRun(definition, trigger, status)
             row == [new EXCEPT !.outcome = OutcomeOf(status)]
  <2>1. /\ Len(runs) < MaxRuns /\ runs' = Append(runs, row)
        /\ decisions' = decisions \cup {[def |-> definition.id, trigger |-> trigger,
                                          reason |-> reason, id |-> Len(runs) + 1]}
    BY <1>4 DEF RecordRefusal
  <2>2. new \in Run /\ new.trigger = trigger /\ new.status = status /\ new.triage = "none"
    BY <1>1, NewRunType DEF Status, FinalStatus, NewRun
  <2>3. /\ row \in Run /\ row.status = status /\ row.trigger = trigger
        /\ row.outcome = OutcomeOf(status) /\ row.triage = "none"
    BY <1>2, <2>2 DEF Run
  <2>4. WholeRow(row)
    BY <1>1, <1>2, <2>3 DEF WholeRow, Confined
  <2> HIDE DEF row, new
  <2> QED
    BY <1>2, <2>1, <2>3, <2>4 DEF RowAppended
<1> QED
  BY <1>3, <1>4

LEMMA AdmitEffect ==
  ASSUME LedgerAssumption, PublicationAssumption, PubInv, NEW pr \in Prs, AdmitReview(pr)
  PROVE  /\ TypeOK' /\ pruned' = pruned /\ deliveries' = deliveries
         /\ RowAppended \/ RefusalRewritten
         /\ polled[pr] \in Shas /\ heads' = [heads EXCEPT ![pr] = polled[pr]]
<1> DEFINE trigger == [kind |-> "pr_review", pr |-> pr, sha |-> polled[pr]]
           answer  == EventAnswer(Reviewer, trigger)
<1>1. polled[pr] \in Shas
  BY DEF AdmitReview, PubInv, TypePub
<1>2. trigger \in PrReview /\ trigger \in EventTrigger /\ trigger \in Trigger
      /\ HasEventKey(trigger)
  BY <1>1, TriggerKinds DEF PrReview, EventTrigger, HasEventKey
<1>3. Reviewer \in Definition
  BY DEF Reviewer, Definition, PublicationAssumption
<1>4. AdmitEvent(Reviewer, trigger) /\ clock' = clock
  BY DEF AdmitReview
<1>5. TypeOK'
  BY <1>2, <1>3, <1>4, TypeEvent DEF PubInv
<1>6. /\ pruned' = pruned /\ deliveries' = deliveries
      /\ heads' = [heads EXCEPT ![pr] = polled[pr]]
  BY <1>4 DEF AdmitEvent
<1>7. heads'[trigger.pr] = trigger.sha
  BY <1>6 DEF PubInv, TypeOK
<1>8. CASE answer = "reserved"
  <2> DEFINE row == NewRun(Reviewer, trigger, "reserved")
  <2>1. /\ Len(runs) < MaxRuns /\ runs' = Append(runs, row) /\ decisions' = decisions
    BY <1>4, <1>8 DEF AdmitEvent
  <2>2. row \in Run
    BY <1>2, <1>3, NewRunType DEF PubInv, TypeOK, Status, OpenStatus
  <2>3. /\ row.trigger = trigger /\ row.status = "reserved" /\ row.triage = "none"
        /\ row.outcome = OutcomeOf("admitted")
    BY <1>2 DEF NewRun
  <2>4. /\ ~ OutcomeOf("admitted").intent /\ ~ OutcomeOf("admitted").url
        /\ OutcomeOf("admitted").decision = "admitted" /\ "admitted" \notin Confirmed
        /\ "reserved" \notin Refusals
    BY DEF OutcomeOf, Confirmed, Refusals
  <2> HIDE DEF row
  <2>5. WholeRow(row)
    BY <1>2, <2>3, <2>4 DEF WholeRow, Confined
  <2> QED
    BY <1>1, <1>2, <1>5, <1>6, <1>7, <2>1, <2>2, <2>3, <2>4, <2>5 DEF RowAppended
<1>9. CASE answer # "reserved"
  <2>1. RecordRefusal(Reviewer, trigger, answer, answer)
    BY <1>4, <1>9 DEF AdmitEvent
  <2>2. answer \in Refusals
    BY <1>9, CapacityStatusType DEF EventAnswer, Refusals
  <2> QED
    BY <1>1, <1>2, <1>3, <1>5, <1>6, <1>7, <2>1, <2>2, RefusalEffect
<1> QED
  BY <1>8, <1>9

\* A step of the world leaves every task where it was, over the same rows.
LEMMA WorldStep ==
  ASSUME LedgerAssumption, PubInv, UNCHANGED <<vars, sent>>,
         pc' \in [Ids -> {"none", "done"} \cup DraftState \cup ReviewState \cup TriageState],
         \A i \in Ids : pc'[i] = pc[i] \/ pc'[i] = "none",
         seen' = seen, up' \in BOOLEAN, allow' \in BOOLEAN,
         head' \in [Prs -> Shas \cup {NoSha}], polled' \in [Prs -> Shas \cup {NoSha}],
         wire' \subseteq wire, made \subseteq made', made' \subseteq made \cup wire
  PROVE  PubInv'
<1>1. TypeOK' /\ RowsBounded' /\ RowsWhole' /\ RefusalRows'
  <2>1. UNCHANGED <<runs, pruned, cursors, heads, keys, decisions, deliveries, clock>>
    OBVIOUS
  <2> QED
    BY <2>1 DEF PubInv, TypeOK, RowsBounded, RowsWhole, RefusalRows, Refused, Ids
<1>2. TypePub'
  <2>1. UNCHANGED <<runs, sent>>
    OBVIOUS
  <2>2. \A i \in DOMAIN runs :
          /\ pc'[i] \in DraftState => runs[i].trigger.kind = "event"
          /\ pc'[i] \in ReviewState => runs[i].trigger.kind = "pr_review"
          /\ pc'[i] \in TriageState => runs[i].trigger.kind = "triage"
    BY InRuns DEF PubInv, TypePub, DraftState, ReviewState, TriageState
  <2> QED
    BY <2>1, <2>2 DEF PubInv, TypePub, DraftState, ReviewState, TriageState, Items
<1>3. ASSUME NEW i \in Ids PROVE TaskInv(i)'
  <2>1. UNCHANGED <<runs, deliveries, sent, seen>> /\ TaskInv(i)
        /\ (pc'[i] = pc[i] \/ pc'[i] = "none") /\ made \subseteq made'
    BY DEF PubInv
  <2> QED
    BY <2>1 DEF TaskInv, OwnsRow, ClaimsFirst, SendsOnce, NoticesFirst, Explained, Exists,
                Refused, TriageState
<1> QED
  BY <1>1, <1>2, <1>3 DEF PubInv, Ids

LEMMA WorldSteps ==
  ASSUME LedgerAssumption, PublicationAssumption, PubInv,
         \/ \E x \in Items : Serve(x)
         \/ \E pr \in Prs : Push(pr) \/ Poll(pr)
         \/ EditAllowlist \/ Crash \/ UNCHANGED pubVars
  PROVE  PubInv'
<1>1. /\ pc \in [Ids -> {"none", "done"} \cup DraftState \cup ReviewState \cup TriageState]
      /\ up \in BOOLEAN /\ allow \in BOOLEAN
      /\ head \in [Prs -> Shas \cup {NoSha}] /\ polled \in [Prs -> Shas \cup {NoSha}]
  BY DEF PubInv, TypePub
<1>2. ASSUME NEW x \in Items, Serve(x) PROVE PubInv'
  BY <1>1, <1>2, WorldStep DEF Serve, Outside
<1>3. ASSUME NEW pr \in Prs, Push(pr) PROVE PubInv'
  <2>1. head' \in [Prs -> Shas \cup {NoSha}]
    BY <1>1, <1>3 DEF Push, PublicationAssumption
  <2> QED
    BY <1>1, <1>3, <2>1, WorldStep DEF Push, Outside
<1>4. ASSUME NEW pr \in Prs, Poll(pr) PROVE PubInv'
  BY <1>1, <1>4, WorldStep DEF Poll, Outside
<1>5. CASE EditAllowlist
  BY <1>1, <1>5, WorldStep DEF EditAllowlist, Outside
<1>6. CASE Crash
  BY <1>1, <1>6, WorldStep DEF Crash
<1>7. CASE UNCHANGED pubVars
  BY <1>1, <1>7, WorldStep
<1> QED
  BY <1>2, <1>3, <1>4, <1>5, <1>6, <1>7

\* A row appended or rewritten by an admission: the rows there were are kept.
LEMMA AdmitKeeps ==
  ASSUME PubInv, TypeOK', RowAppended \/ RefusalRewritten
  PROVE  /\ RowsWhole' /\ DOMAIN runs' \subseteq Ids /\ DOMAIN runs \subseteq DOMAIN runs'
         /\ \A i \in DOMAIN runs :
              /\ Kept(runs[i], runs'[i])
              /\ runs'[i].outcome.decision \in Confirmed => runs[i].outcome.decision \in Confirmed
         /\ \A i \in DOMAIN runs' \ DOMAIN runs :
              /\ ~ runs'[i].outcome.intent /\ runs'[i].outcome.decision \notin Confirmed
              /\ runs'[i].trigger.kind = "pr_review" /\ runs'[i].triage = "none"
  <1>1. \A i \in DOMAIN runs : Kept(runs[i], runs[i]) /\ runs[i] \in Run /\ WholeRow(runs[i])
    BY InRuns DEF Kept
  <1>2. DOMAIN runs \subseteq Ids /\ runs \in Seq(Run)
    BY DEF PubInv, RowsBounded, TypeOK
  <1>3. CASE RowAppended
    <2>1. PICK row \in Run :
            /\ runs' = Append(runs, row) /\ Len(runs) < MaxRuns
            /\ WholeRow(row) /\ ~ row.outcome.intent /\ row.triage = "none"
            /\ row.trigger \in PrReview /\ row.outcome.decision \notin Confirmed
      BY <1>3 DEF RowAppended
    <2>2. /\ DOMAIN runs' = DOMAIN runs \cup {Len(runs) + 1} /\ runs'[Len(runs) + 1] = row
          /\ \A i \in DOMAIN runs : runs'[i] = runs[i]
      BY <1>2, <2>1
    <2>3. Len(runs) + 1 \in Ids
      BY <1>2, <2>1, LedgerAssumption DEF Ids, LedgerAssumption
    <2>4. row.trigger.kind = "pr_review"
      BY <2>1 DEF PrReview
    <2> QED
      BY <1>1, <1>2, <2>1, <2>2, <2>3, <2>4 DEF RowsWhole
  <1>4. CASE RefusalRewritten
    BY <1>1, <1>2, <1>4 DEF RefusalRewritten, Grows, RowsWhole
  <1> QED
    BY <1>3, <1>4

LEMMA AdmitStep ==
  ASSUME LedgerAssumption, PublicationAssumption, PubInv, NEW pr \in Prs, AdmitReview(pr)
  PROVE  PubInv'
<1>1. /\ TypeOK' /\ pruned' = pruned /\ deliveries' = deliveries
      /\ RowAppended \/ RefusalRewritten
  BY AdmitEffect
<1>2. /\ RowsWhole' /\ DOMAIN runs' \subseteq Ids /\ DOMAIN runs \subseteq DOMAIN runs'
      /\ \A i \in DOMAIN runs :
           /\ Kept(runs[i], runs'[i])
           /\ runs'[i].outcome.decision \in Confirmed => runs[i].outcome.decision \in Confirmed
      /\ \A i \in DOMAIN runs' \ DOMAIN runs :
           /\ ~ runs'[i].outcome.intent /\ runs'[i].outcome.decision \notin Confirmed
           /\ runs'[i].trigger.kind = "pr_review" /\ runs'[i].triage = "none"
  BY <1>1, AdmitKeeps
<1>3. /\ pc' = [i \in Ids |-> IF i \in (DOMAIN runs') \ (DOMAIN runs)
                                  /\ runs'[i].status = "reserved" THEN "queued" ELSE pc[i]]
      /\ UNCHANGED <<clock, up, seen, allow, head, polled, wire, made, sent>>
  BY DEF AdmitReview
<1>4. RowsBounded'
  BY <1>1, <1>2 DEF RowsBounded, PubInv, Ids
<1>5. RefusalRows'
  <2>1. CASE RowAppended
    <3>1. PICK row \in Run :
            /\ runs' = Append(runs, row)
            /\ \A x \in decisions' :
                 x \in decisions \/ (x.id = Len(runs) + 1 /\ row.status \in Refusals)
      BY <2>1 DEF RowAppended
    <3>2. /\ DOMAIN runs' = DOMAIN runs \cup {Len(runs) + 1} /\ runs'[Len(runs) + 1] = row
      BY <3>1 DEF PubInv, TypeOK
    <3> QED
      BY <1>2, <3>1, <3>2 DEF PubInv, RefusalRows, Refused, Kept
  <2>2. CASE RefusalRewritten
    BY <1>2, <2>2 DEF RefusalRewritten, PubInv, RefusalRows, Refused, Kept
  <2> QED
    BY <1>1, <2>1, <2>2
<1>6. TypePub'
  <2>1. pc' \in [Ids -> {"none", "done"} \cup DraftState \cup ReviewState \cup TriageState]
    BY <1>3 DEF PubInv, TypePub, ReviewState
  <2>2. \A i \in DOMAIN runs' :
          /\ pc'[i] \in DraftState => runs'[i].trigger.kind = "event"
          /\ pc'[i] \in ReviewState => runs'[i].trigger.kind = "pr_review"
          /\ pc'[i] \in TriageState => runs'[i].trigger.kind = "triage"
    <3> SUFFICES ASSUME NEW i \in DOMAIN runs'
                 PROVE  /\ pc'[i] \in DraftState => runs'[i].trigger.kind = "event"
                        /\ pc'[i] \in ReviewState => runs'[i].trigger.kind = "pr_review"
                        /\ pc'[i] \in TriageState => runs'[i].trigger.kind = "triage"
      OBVIOUS
    <3>1. CASE i \in DOMAIN runs
      BY <1>2, <1>3, <3>1 DEF PubInv, TypePub, Kept
    <3>2. CASE i \notin DOMAIN runs
      <4>1. pc[i] \in {"none", "done"}
        BY <1>2, <3>2 DEF PubInv, TaskInv, OwnsRow
      <4>2. pc'[i] \in {"none", "done", "queued"}
        BY <1>2, <1>3, <4>1
      <4> QED
        BY <1>2, <3>2, <4>2 DEF DraftState, ReviewState, TriageState
    <3> QED
      BY <3>1, <3>2
  <2> QED
    BY <1>2, <1>3, <2>1, <2>2 DEF PubInv, TypePub, DraftState, ReviewState, TriageState, Items
<1>7. ASSUME NEW i \in Ids PROVE TaskInv(i)'
  <2>1. TaskInv(i)
    BY DEF PubInv
  <2>2. CASE i \in DOMAIN runs
    <3>1. /\ pc'[i] = pc[i] /\ i \in DOMAIN runs' /\ Kept(runs[i], runs'[i])
      BY <1>2, <1>3, <2>2
    <3>2. OwnsRow(i)' /\ ClaimsFirst(i)' /\ SendsOnce(i)'
      BY <1>3, <2>1, <2>2, <3>1
      DEF TaskInv, OwnsRow, ClaimsFirst, SendsOnce, Refused, Kept
    <3>3. NoticesFirst(i)' /\ Explained(i)'
      BY <1>1, <1>3, <2>1, <2>2, <3>1 DEF TaskInv, NoticesFirst, Explained, Kept, TriageState
    <3>4. Exists(i)'
      BY <1>1, <1>2, <1>3, <2>1, <2>2 DEF TaskInv, Exists
    <3> QED
      BY <3>2, <3>3, <3>4 DEF TaskInv
  <2>3. CASE i \notin DOMAIN runs
    <3>1. pc[i] \in {"none", "done"} /\ sent[Publication(i)] = 0
      BY <2>1, <2>3 DEF TaskInv, OwnsRow, SendsOnce
    <3>2. /\ pc'[i] \in {"none", "done", "queued"}
          /\ pc'[i] = "queued" => i \in DOMAIN runs' /\ runs'[i].status = "reserved"
      BY <1>3, <3>1
    <3>3. OwnsRow(i)' /\ ClaimsFirst(i)' /\ SendsOnce(i)'
      BY <1>3, <3>1, <3>2 DEF OwnsRow, ClaimsFirst, SendsOnce, Refused, Refusals
    <3>4. NoticesFirst(i)'
      BY <1>1, <1>3, <2>1, <3>2 DEF TaskInv, NoticesFirst, TriageState
    <3>5. Explained(i)' /\ Exists(i)'
      BY <1>1, <1>2, <1>3, <2>1, <2>3 DEF TaskInv, Explained, Exists
    <3> QED
      BY <3>3, <3>4, <3>5 DEF TaskInv
  <2> QED
    BY <2>2, <2>3
<1> QED
  BY <1>1, <1>2, <1>4, <1>5, <1>6, <1>7 DEF PubInv, Ids


-----------------------------------------------------------------------------
(* Recovery. *)

\* What ClaimOnce allows a recovery to make of an item.
Recovers(phase, verdict, nextPhase, nextVerdict) ==
  \/ nextPhase = phase /\ nextVerdict = verdict
  \/ /\ phase # "denied" /\ verdict # "confirmed" /\ nextVerdict = "unconfirmed"
     /\ nextPhase = IF phase = "free" THEN "denied" ELSE phase

Recovered(run, next) ==
  /\ Grows(run, next)
  /\ Recovers(RowPhase(run), RowVerdict(run), RowPhase(next), RowVerdict(next))
  /\ next.outcome.decision \in Confirmed => run.outcome.decision \in Confirmed

\* interrupt_open: every row and every delivery there was, recovered.
LEMMA InterruptEffect ==
  ASSUME LedgerAssumption, PubInv, InterruptOpen, UNCHANGED clock
  PROVE  /\ TypeOK' /\ DOMAIN runs' = DOMAIN runs
         /\ UNCHANGED <<pruned, cursors, heads, keys, decisions>>
         /\ \A i \in DOMAIN runs : Recovered(runs[i], runs'[i])
         /\ \A x \in Ids \X Slots :
              \/ deliveries'[x] = deliveries[x] /\ deliveries[x] # "attempted"
              \/ deliveries[x] = "attempted" /\ deliveries'[x] = "unknown"
<1> DEFINE interrupted(run) == Transitioned(run, "interrupted", FALSE, Latest(clock, run.updated))
           uncertain(run)   == [run EXCEPT !.outcome.decision = "publication_unknown",
                                           !.updated = Stamp(Latest(clock, @))]
<1>1. ASSUME NEW run \in Run, WholeRow(run), run.status \in OpenStatus
      PROVE  Recovered(run, interrupted(run))
  <2> DEFINE next == interrupted(run)
  <2>1. "interrupted" \in Status \ Refusals
    BY DEF Status, FinalStatus, Refusals
  <2>2. Grows(run, next)
    BY <1>1, <2>1, GrowsTransition
  <2>3. next.outcome = OutcomeOf("interrupted")
    BY <1>1 DEF Transitioned, Run, WholeRow, OpenStatus
  <2> HIDE DEF next
  <2>4. RowPhase(next) = "denied" /\ RowVerdict(next) = "unconfirmed"
        /\ next.outcome.decision \notin Confirmed
    BY <2>3 DEF RowPhase, RowVerdict, OutcomeOf, Confirmed
  <2>5. ~ run.outcome.intent /\ ~ run.outcome.url
        /\ run.outcome.decision # "publication_pending"
    BY <1>1 DEF WholeRow, Confined, OpenStatus
  <2>6. \/ RowPhase(run) = "free" /\ RowVerdict(run) = "open"
        \/ RowPhase(run) = "denied" /\ RowVerdict(run) = "unconfirmed"
    BY <2>5 DEF RowPhase, RowVerdict
  <2>7. Recovered(run, next)
    BY <2>2, <2>4, <2>6 DEF Recovered, Recovers
  <2> QED
    BY <2>7 DEF next
<1>2. ASSUME NEW run \in Run, WholeRow(run), run.outcome.decision = "publication_pending"
      PROVE  Recovered(run, uncertain(run))
  <2> DEFINE next == uncertain(run)
  <2>1. run.outcome.intent /\ ~ run.outcome.url /\ run.status = "completed"
    BY <1>2 DEF WholeRow, Confined, Confirmed
  <2>2. /\ "publication_unknown" \in Decision \ {"none", "admitted", "publication_pending"}
        /\ "publication_unknown" \notin Confirmed
    BY DEF Decision, Settled, Confirmed
  <2>3. /\ next.trigger = run.trigger /\ next.status = run.status /\ next.triage = run.triage
        /\ next.outcome = [run.outcome EXCEPT !.decision = "publication_unknown"]
    BY DEF Run
  <2> HIDE DEF next
  <2>4. next.outcome = [decision |-> "publication_unknown", intent |-> run.outcome.intent,
                        url |-> "publication_unknown" \in Confirmed]
    <3>1. run.outcome.url = FALSE /\ ("publication_unknown" \in Confirmed) = FALSE
      BY <2>1, <2>2, RowFields
    <3>2. run.outcome \in Outcome
      BY RowFields
    <3> QED
      BY <2>3, <3>1, <3>2 DEF Outcome
  <2>5. Grows(run, next)
    BY <1>2, <2>1, <2>2, <2>3, <2>4, GrowsSettled
  <2>6. RowPhase(run) = "claimed" /\ RowVerdict(run) = "open"
    BY <1>2, <2>1 DEF RowPhase, RowVerdict
  <2>7. RowPhase(next) = "claimed" /\ RowVerdict(next) = "unconfirmed"
        /\ next.outcome.decision \notin Confirmed
    <3>1. next.outcome.decision = "publication_unknown"
          /\ next.outcome.intent = run.outcome.intent
          /\ next.outcome.url = ("publication_unknown" \in Confirmed)
      BY <2>4
    <3>2. next.outcome.intent /\ ~ next.outcome.url
      BY <2>1, <2>2, <3>1, Zenon
    <3> QED
      BY <2>2, <3>1, <3>2 DEF RowPhase, RowVerdict
  <2>8. Recovered(run, next)
    BY <2>5, <2>6, <2>7 DEF Recovered, Recovers
  <2> QED
    BY <2>8 DEF next
<1>3. ASSUME NEW run, WholeRow(run) PROVE Recovered(run, run)
  BY <1>3, GrowsSame DEF Recovered, Recovers
<1> HIDE DEF interrupted, uncertain
<1>4. \A i \in DOMAIN runs :
        \/ runs'[i] = runs[i]
        \/ runs[i].status \in OpenStatus /\ runs'[i] = interrupted(runs[i])
        \/ /\ runs[i].outcome.decision = "publication_pending"
           /\ runs'[i] = uncertain(runs[i])
  BY DEF InterruptOpen, OpenRows, IsOpen, interrupted, uncertain
<1>5. \A i \in DOMAIN runs : Recovered(runs[i], runs'[i])
  BY <1>1, <1>2, <1>3, <1>4, InRuns
<1>6. TypeOK' /\ DOMAIN runs' = DOMAIN runs
      /\ UNCHANGED <<pruned, cursors, heads, keys, decisions>>
  BY TypeInterrupt DEF PubInv, InterruptOpen
<1>7. deliveries \in [Ids \X Slots -> DeliveryStatus]
  BY DEF PubInv, TypeOK
<1>8. \A x \in Ids \X Slots :
        \/ deliveries'[x] = deliveries[x] /\ deliveries[x] # "attempted"
        \/ deliveries[x] = "attempted" /\ deliveries'[x] = "unknown"
  BY <1>7 DEF InterruptOpen
<1> QED
  BY <1>5, <1>6, <1>8

\* The recovery of a draft pull request starts over at its row, and finds its intent there.
LEMMA RestartStep ==
  ASSUME LedgerAssumption, PublicationAssumption, PubInv, Restart
  PROVE  PubInv'
<1>1. /\ InterruptOpen /\ up' = TRUE
      /\ pc' = [i \in Ids |-> IF i \in Rows /\ Unsettled(runs'[i]) THEN "start" ELSE "none"]
      /\ UNCHANGED <<clock, seen, allow, head, polled, wire, made, sent>>
  BY DEF Restart
<1>2. /\ TypeOK' /\ DOMAIN runs' = DOMAIN runs
      /\ UNCHANGED <<pruned, cursors, heads, keys, decisions>>
      /\ \A i \in DOMAIN runs : Recovered(runs[i], runs'[i])
      /\ \A x \in Ids \X Slots :
           \/ deliveries'[x] = deliveries[x] /\ deliveries[x] # "attempted"
           \/ deliveries[x] = "attempted" /\ deliveries'[x] = "unknown"
  BY <1>1, InterruptEffect
<1>3. /\ DOMAIN runs \subseteq Ids /\ Rows = DOMAIN runs
      /\ \A i \in DOMAIN runs : /\ WholeRow(runs'[i]) /\ Kept(runs[i], runs'[i])
                                /\ runs'[i].outcome.decision \in Confirmed
                                     => runs[i].outcome.decision \in Confirmed
  BY <1>2, InRuns DEF Recovered, Grows
<1>4. \A i \in Ids :
        \/ pc'[i] = "none"
        \/ pc'[i] = "start" /\ i \in DOMAIN runs' /\ ~ Refused(i)'
           /\ runs'[i].trigger.kind = "event"
  <2>1. ASSUME NEW i \in DOMAIN runs, Unsettled(runs'[i])
        PROVE  ~ Refused(i)' /\ runs'[i].trigger.kind = "event"
    BY <2>1 DEF Unsettled, Refused, Refusals
  <2> QED
    BY <1>1, <1>2, <1>3, <2>1
<1>5. RowsBounded' /\ RowsWhole' /\ RefusalRows'
  BY <1>2, <1>3 DEF PubInv, RowsBounded, RowsWhole, RefusalRows, Refused, Kept, Ids
<1>6. TypePub'
  <2>1. pc' \in [Ids -> {"none", "done"} \cup DraftState \cup ReviewState \cup TriageState]
    BY <1>1 DEF DraftState
  <2>2. \A i \in DOMAIN runs' :
          /\ pc'[i] \in DraftState => runs'[i].trigger.kind = "event"
          /\ pc'[i] \in ReviewState => runs'[i].trigger.kind = "pr_review"
          /\ pc'[i] \in TriageState => runs'[i].trigger.kind = "triage"
    BY <1>2, <1>3, <1>4 DEF DraftState, ReviewState, TriageState
  <2> QED
    BY <1>1, <1>2, <2>1, <2>2 DEF PubInv, TypePub, DraftState, ReviewState, TriageState, Items
<1>7. ASSUME NEW i \in Ids PROVE TaskInv(i)'
  <2>1. TaskInv(i)
    BY DEF PubInv
  <2>2. OwnsRow(i)' /\ ClaimsFirst(i)'
    BY <1>4 DEF OwnsRow, ClaimsFirst
  <2>3. SendsOnce(i)'
    BY <1>1, <1>2, <1>3, <1>4, <2>1 DEF TaskInv, SendsOnce, Kept
  <2>4. NoticesFirst(i)'
    <3>1. ASSUME NEW slot \in Slots, deliveries'[<<i, slot>>] = "none"
          PROVE  sent'[<<i, slot>>] = 0
      <4>1. deliveries[<<i, slot>>] = "none"
        BY <1>2, <3>1
      <4> QED
        BY <1>1, <2>1, <4>1 DEF TaskInv, NoticesFirst
    <3> QED
      BY <1>4, <3>1 DEF NoticesFirst, TriageState
  <2>5. Explained(i)'
    <3> SUFFICES ASSUME i \in DOMAIN runs', runs'[i].triage = "rejected", Slots # {},
                        sent'[<<i, "triage-label">>] > 0
                 PROVE  deliveries'[<<i, "triage-comment">>] = "confirmed"
      BY <1>4 DEF Explained
    <3>1. /\ i \in DOMAIN runs /\ runs[i].triage = "rejected"
          /\ sent[<<i, "triage-label">>] > 0
      BY <1>1, <1>2, <1>3 DEF Kept
    <3>2. deliveries[<<i, "triage-comment">>] = "confirmed"
      BY <2>1, <3>1 DEF TaskInv, Explained
    <3>3. <<i, "triage-comment">> \in Ids \X Slots
      BY DEF PublicationAssumption
    <3> QED
      BY <1>2, <3>2, <3>3
  <2>6. Exists(i)'
    <3>1. ASSUME NEW slot \in Slots, deliveries'[<<i, slot>>] = "confirmed"
          PROVE  <<i, slot>> \in made'
      <4>1. deliveries[<<i, slot>>] = "confirmed"
        BY <1>2, <3>1
      <4> QED
        BY <1>1, <2>1, <4>1 DEF TaskInv, Exists
    <3>2. i \in DOMAIN runs' /\ runs'[i].outcome.decision \in Confirmed
            => Publication(i) \in made'
      BY <1>1, <1>2, <1>3, <2>1 DEF TaskInv, Exists
    <3> QED
      BY <3>1, <3>2 DEF Exists
  <2> QED
    BY <2>2, <2>3, <2>4, <2>5, <2>6 DEF TaskInv
<1> QED
  BY <1>2, <1>5, <1>6, <1>7 DEF PubInv, Ids

-----------------------------------------------------------------------------
(* The invariant. *)

LEMMA CompletedType ==
  ASSUME NEW run \in Run, NEW finished \in Int
  PROVE  [run EXCEPT !.status = "completed", !.finished = finished, !.bound = TRUE] \in Run
<1>1. "completed" \in Status
  BY DEF Status, FinalStatus
<1> QED
  BY <1>1 DEF Run

\* The rows a model starts from: completed, admitted, nothing claimed.
LEMMA FirstRow ==
  ASSUME LedgerAssumption, PublicationAssumption, clock \in 0..MaxTime, NEW issue \in Issues,
         NEW row, \/ row = CompletedRun(issue)
                  \/ \E o \in {"accepted", "rejected"} : row = TriagedRun(issue, o)
  PROVE  /\ row \in Run /\ WholeRow(row) /\ row.status = "completed"
         /\ row.trigger \in EventTrigger /\ row.trigger.kind \in {"event", "triage"}
         /\ row.outcome = OutcomeOf("admitted")
         /\ row.definition.id \in Defs
<1> DEFINE definition == [id |-> CHOOSE d \in Defs : TRUE, enabled |-> TRUE,
                          rev |-> CHOOSE r \in Revs : TRUE]
           trigger == [kind |-> "event", key |-> issue]
           new     == NewRun(definition, trigger, "reserved")
<1>1. definition \in Definition /\ definition.id \in Defs
  BY DEF Definition, PublicationAssumption
<1>2. /\ trigger \in EventTrigger /\ trigger \in Trigger /\ HasEventKey(trigger)
      /\ clock \in 0..MaxTime /\ clock \in Int /\ "reserved" \in Status
  BY DEF EventTrigger, Trigger, Event, HasEventKey, LedgerAssumption, Status, OpenStatus
<1>3. new \in Run
  BY <1>1, <1>2, NewRunType
<1>4. /\ new.trigger = trigger /\ new.outcome = OutcomeOf("admitted")
      /\ new.definition = definition
  BY <1>2 DEF NewRun
<1> HIDE DEF new, definition
<1>5. CompletedRun(issue) = [new EXCEPT !.status = "completed", !.finished = clock, !.bound = TRUE]
  BY DEF CompletedRun, new, definition
<1>6. "completed" \in Status /\ "completed" \notin Refusals
  BY DEF Status, FinalStatus, Refusals
<1>7. /\ CompletedRun(issue) \in Run /\ CompletedRun(issue).status = "completed"
      /\ CompletedRun(issue).trigger = trigger
      /\ CompletedRun(issue).outcome = OutcomeOf("admitted")
      /\ CompletedRun(issue).definition = definition
  <2> HIDE DEF trigger
  <2>1. /\ CompletedRun(issue).status = "completed"
        /\ CompletedRun(issue).trigger = new.trigger
        /\ CompletedRun(issue).outcome = new.outcome
        /\ CompletedRun(issue).definition = new.definition
    BY <1>3, <1>5 DEF Run
  <2>2. CompletedRun(issue) \in Run
    <3>1. [new EXCEPT !.status = "completed", !.finished = clock, !.bound = TRUE] \in Run
      BY <1>2, <1>3, CompletedType, Zenon
    <3> QED
      BY <1>5, <3>1, Zenon
  <2> QED
    BY <1>4, <2>1, <2>2
<1>8. ASSUME NEW o \in {"accepted", "rejected"}
      PROVE  /\ TriagedRun(issue, o) \in Run /\ TriagedRun(issue, o).status = "completed"
             /\ TriagedRun(issue, o).trigger = [kind |-> "triage", key |-> issue]
             /\ TriagedRun(issue, o).outcome = OutcomeOf("admitted")
             /\ TriagedRun(issue, o).definition = definition
  <2>1. [kind |-> "triage", key |-> issue] \in Trigger /\ o \in TriageOutcome
    BY DEF Trigger, EventTrigger, Triage, TriageOutcome
  <2> QED
    BY <1>7, <2>1 DEF TriagedRun, Run
<1>9. [kind |-> "triage", key |-> issue] \in EventTrigger
      /\ HasEventKey([kind |-> "triage", key |-> issue])
  BY DEF EventTrigger, Triage, HasEventKey
<1>10. /\ row \in Run /\ row.status = "completed"
       /\ row.trigger \in {trigger, [kind |-> "triage", key |-> issue]}
       /\ row.outcome = OutcomeOf("admitted") /\ row.definition = definition
  BY <1>7, <1>8
<1>11. /\ OutcomeOf("admitted").decision = "admitted" /\ ~ OutcomeOf("admitted").intent
       /\ ~ OutcomeOf("admitted").url
  BY DEF OutcomeOf
<1>12. HasEventKey(row.trigger) /\ row.trigger \in EventTrigger
       /\ row.trigger.kind \in {"event", "triage"}
  BY <1>2, <1>9, <1>10
<1>13. WholeRow(row)
  BY <1>6, <1>10, <1>11, <1>12 DEF WholeRow, Confined
<1> QED
  BY <1>1, <1>10, <1>12, <1>13

LEMMA FirstRows ==
  ASSUME LedgerAssumption, PublicationAssumption, PubInit
  PROVE  /\ runs \in Seq(Run) /\ DOMAIN runs \subseteq Ids
         /\ \A i \in DOMAIN runs :
              /\ runs[i] \in Run /\ WholeRow(runs[i]) /\ runs[i].status = "completed"
              /\ runs[i].trigger \in EventTrigger /\ runs[i].trigger.kind \in {"event", "triage"}
              /\ runs[i].outcome = OutcomeOf("admitted")
              /\ runs[i].definition.id \in Defs
<1>1. clock \in 0..MaxTime
  BY DEF PubInit, LedgerAssumption
<1>2. CASE \E issue \in Decided, o \in {"accepted", "rejected"} : runs = <<TriagedRun(issue, o)>>
  <2>1. PICK issue \in Decided, o \in {"accepted", "rejected"} : runs = <<TriagedRun(issue, o)>>
    BY <1>2
  <2>2. issue \in Issues /\ MaxRuns > 0 /\ MaxRuns \in Nat
    BY DEF PublicationAssumption, LedgerAssumption
  <2> DEFINE row == TriagedRun(issue, o)
  <2>3. /\ row \in Run /\ WholeRow(row) /\ row.status = "completed"
        /\ row.trigger \in EventTrigger /\ row.trigger.kind \in {"event", "triage"}
        /\ row.outcome = OutcomeOf("admitted") /\ row.definition.id \in Defs
    BY <1>1, <2>2, FirstRow
  <2> HIDE DEF row
  <2>4. runs = <<row>>
    BY <2>1 DEF row
  <2>5. runs \in Seq(Run) /\ DOMAIN runs = {1} /\ runs[1] = row
    BY <2>3, <2>4
  <2> QED
    BY <2>2, <2>3, <2>5 DEF Ids
<1>3. CASE \E D \in SUBSET Drafts :
             runs \in [1..Cardinality(D) -> {CompletedRun(issue) : issue \in D}]
  <2>1. PICK D \in SUBSET Drafts :
          runs \in [1..Cardinality(D) -> {CompletedRun(issue) : issue \in D}]
    BY <1>3
  <2>2. /\ D \subseteq Issues /\ Cardinality(D) \in Nat /\ Cardinality(D) <= MaxRuns
        /\ MaxRuns \in Nat
    <3>1. IsFiniteSet(Drafts) /\ Cardinality(Drafts) <= MaxRuns /\ Drafts \subseteq Issues
          /\ MaxRuns \in Nat
      BY DEF PublicationAssumption, LedgerAssumption
    <3>2. IsFiniteSet(D) /\ Cardinality(D) <= Cardinality(Drafts)
      BY <3>1, FS_Subset
    <3>3. Cardinality(D) \in Nat /\ Cardinality(Drafts) \in Nat
      BY <3>1, <3>2, FS_CardinalityType
    <3> QED
      BY <3>1, <3>2, <3>3
  <2>3. \A i \in DOMAIN runs :
              /\ runs[i] \in Run /\ WholeRow(runs[i]) /\ runs[i].status = "completed"
              /\ runs[i].trigger \in EventTrigger /\ runs[i].trigger.kind \in {"event", "triage"}
              /\ runs[i].outcome = OutcomeOf("admitted")
              /\ runs[i].definition.id \in Defs
    <3> SUFFICES ASSUME NEW i \in DOMAIN runs
                 PROVE  /\ runs[i] \in Run /\ WholeRow(runs[i]) /\ runs[i].status = "completed"
                        /\ runs[i].trigger \in EventTrigger
                        /\ runs[i].trigger.kind \in {"event", "triage"}
                        /\ runs[i].outcome = OutcomeOf("admitted")
                        /\ runs[i].definition.id \in Defs
      OBVIOUS
    <3>1. PICK issue \in D : runs[i] = CompletedRun(issue)
      BY <2>1
    <3> QED
      BY <1>1, <2>2, <3>1, FirstRow
  <2>4. runs \in [1..Cardinality(D) -> Run]
    BY <2>1, <2>3
  <2>5. runs \in Seq(Run) /\ DOMAIN runs \subseteq Ids
    BY <2>2, <2>4, FunctionIsSeq DEF Ids
  <2> QED
    BY <2>3, <2>5
<1>4. \/ \E issue \in Decided, o \in {"accepted", "rejected"} : runs = <<TriagedRun(issue, o)>>
      \/ \E D \in SUBSET Drafts :
           runs \in [1..Cardinality(D) -> {CompletedRun(issue) : issue \in D}]
  BY SMT DEF PubInit
<1> QED
  BY <1>2, <1>3, <1>4

LEMMA FirstInv ==
  ASSUME LedgerAssumption, PublicationAssumption, PubInit
  PROVE  PubInv
<1>1. /\ runs \in Seq(Run) /\ DOMAIN runs \subseteq Ids
      /\ \A i \in DOMAIN runs :
           /\ runs[i] \in Run /\ WholeRow(runs[i]) /\ runs[i].status = "completed"
           /\ runs[i].trigger \in EventTrigger /\ runs[i].trigger.kind \in {"event", "triage"}
           /\ runs[i].outcome = OutcomeOf("admitted")
           /\ runs[i].definition.id \in Defs
  BY FirstRows
<1>2. /\ pruned = {} /\ decisions = {} /\ clock = 0
      /\ cursors = [d \in Defs |-> -1] /\ heads = [p \in Prs |-> NoSha]
      /\ deliveries = [x \in Ids \X Slots |-> "none"]
      /\ up = TRUE /\ allow = TRUE /\ wire = {} /\ sent = [x \in Items |-> 0]
      /\ head = [p \in Prs |-> FirstSha] /\ polled = [p \in Prs |-> NoSha]
  BY SMT DEF PubInit
<1>11. seen \in [Ids -> Beginning]
  BY SMT DEF PubInit
<1>8. keys = {<<Namespace(runs[i].definition.id, runs[i].trigger), runs[i].trigger>>
                : i \in DOMAIN runs}
  BY SMT DEF PubInit
<1>9. made \in SUBSET {Publication(i) : i \in {j \in DOMAIN runs : runs[j].trigger.kind = "event"}}
  BY SMT DEF PubInit
<1>10. pc = [i \in Ids |-> IF i \in DOMAIN runs /\ runs[i].trigger.kind = "event"
                           THEN "start" ELSE "none"]
  BY SMT DEF PubInit
<1>3. TypeOK
  <2>1. keys \subseteq {<<Namespace(d, t), t>> : d \in Defs, t \in EventTrigger}
    BY <1>1, <1>8
  <2>2. clock \in 0..MaxTime
    BY <1>2 DEF LedgerAssumption
  <2> QED
    BY <1>1, <1>2, <2>1, <2>2 DEF TypeOK, DeliveryStatus
<1>4. /\ RowsBounded /\ RowsWhole /\ RefusalRows
  BY <1>1, <1>2 DEF RowsBounded, RowsWhole, RefusalRows
<1>5. /\ pc \in [Ids -> {"none", "start"}]
      /\ \A i \in Ids : pc[i] = "start" => i \in DOMAIN runs /\ runs[i].trigger.kind = "event"
  BY <1>10
<1>6. TypePub
  <2>1. seen \in [Ids -> [worktree : BOOLEAN, recovering : BOOLEAN, allowed : BOOLEAN]]
    BY <1>11 DEF Beginning
  <2>2. head \in [Prs -> Shas \cup {NoSha}] /\ polled \in [Prs -> Shas \cup {NoSha}]
    BY <1>2 DEF PublicationAssumption
  <2>3. made \subseteq Items /\ \A x \in made : x[1] \in DOMAIN runs
    BY <1>1, <1>9 DEF Items
  <2>4. pc \in [Ids -> {"none", "done"} \cup DraftState \cup ReviewState \cup TriageState]
    BY <1>5 DEF DraftState
  <2> QED
    BY <1>1, <1>2, <1>5, <2>1, <2>2, <2>3, <2>4
    DEF TypePub, DraftState, ReviewState, TriageState
<1>7. ASSUME NEW i \in Ids PROVE TaskInv(i)
  <2>1. pc[i] \in {"none", "start"}
        /\ (pc[i] = "start" => i \in DOMAIN runs /\ runs[i].status = "completed")
    BY <1>1, <1>5
  <2>2. sent[Publication(i)] = 0 /\ \A slot \in Slots : sent[<<i, slot>>] = 0
    BY <1>2 DEF Items
  <2>3. OwnsRow(i) /\ ClaimsFirst(i) /\ SendsOnce(i)
    BY <2>1, <2>2 DEF OwnsRow, ClaimsFirst, SendsOnce, Refused, Refusals
  <2>4. NoticesFirst(i)
    BY <2>1, <2>2 DEF NoticesFirst, TriageState
  <2>5. Explained(i)
    <3>1. Slots # {} => "triage-label" \in Slots
      BY DEF PublicationAssumption
    <3> QED
      BY <2>1, <2>2, <3>1 DEF Explained
  <2>6. Exists(i)
    BY <1>1, <1>2 DEF Exists, OutcomeOf, Confirmed
  <2> QED
    BY <2>3, <2>4, <2>5, <2>6 DEF TaskInv
<1> QED
  BY <1>3, <1>4, <1>6, <1>7 DEF PubInv

LEMMA PubStep ==
  ASSUME LedgerAssumption, PublicationAssumption, PubInv, [PubNext]_pubVars
  PROVE  PubInv'
<1>1. ASSUME NEW i \in Ids, DraftPr(i) \/ Review(i) \/ Triaged(i) PROVE PubInv'
  BY <1>1, TaskStep
<1>2. ASSUME NEW pr \in Prs, AdmitReview(pr) PROVE PubInv'
  BY <1>2, AdmitStep
<1>3. CASE Restart
  BY <1>3, RestartStep
<1> QED
  BY <1>1, <1>2, <1>3, WorldSteps DEF PubNext

LEMMA PubCorrect == PubSpec => []PubInv
<1>1. PubInit => PubInv
  BY FirstInv, LedgerAssumption, PublicationAssumption
<1>2. PubInv /\ [PubNext]_pubVars => PubInv'
  BY PubStep, LedgerAssumption, PublicationAssumption
<1> QED
  BY <1>1, <1>2, PTL DEF PubSpec

\* The publication state keeps its shape, and a task works on a row of its own kind.
THEOREM PublicationTypes == PubSpec => []TypePub
<1>1. PubInv => TypePub
  BY DEF PubInv
<1> QED
  BY <1>1, PubCorrect, PTL

\* Nothing is called published or confirmed that is not at GitHub, and a rejection is
\* labelled only where its comment is there.
THEOREM PublishedIsThere == PubSpec => []PublishedExists
<1>1. ASSUME PubInv PROVE PublishedExists
  <2>1. /\ DOMAIN runs \subseteq Ids /\ \A i \in Ids : Exists(i) /\ Explained(i)
        /\ deliveries \in [Ids \X Slots -> DeliveryStatus]
    BY <1>1 DEF PubInv, RowsBounded, TaskInv, TypeOK
  <2>2. \A x \in DOMAIN deliveries : deliveries[x] = "confirmed" => x \in made
    <3> SUFFICES ASSUME NEW i \in Ids, NEW slot \in Slots, deliveries[<<i, slot>>] = "confirmed"
                 PROVE  <<i, slot>> \in made
      BY <2>1
    <3> QED
      BY <2>1 DEF Exists
  <2>3. ASSUME NEW i \in DOMAIN runs, runs[i].triage = "rejected", Slots # {},
               sent[<<i, "triage-label">>] > 0
        PROVE  <<i, "triage-comment">> \in made
    <3>1. "triage-comment" \in Slots
      BY <2>3, PublicationAssumption DEF PublicationAssumption
    <3> QED
      BY <2>1, <2>3, <3>1 DEF Exists, Explained
  <2> QED
    BY <2>1, <2>2, <2>3 DEF PublishedExists, Exists
<1> QED
  BY <1>1, PubCorrect, PTL

-----------------------------------------------------------------------------
(* The effects implement ClaimOnce: every step of the publication is one of its *)
(* steps, or changes nothing that it sees.                                       *)

\* One item moves as ClaimOnce allows and the others stay.
LEMMA OneItem ==
  ASSUME NEW x \in Items, sent' = sent,
         \A y \in Items : y # x => PhaseOf(y)' = PhaseOf(y) /\ VerdictOf(y)' = VerdictOf(y),
         Allowed(PhaseOf(x), VerdictOf(x), PhaseOf(x)', VerdictOf(x)')
  PROVE  [Once!Next]_(Once!once)
<1> DEFINE phase   == [y \in Items |-> PhaseOf(y)]
           verdict == [y \in Items |-> VerdictOf(y)]
           p == PhaseOf(x)'
           v == VerdictOf(x)'
<1>1. /\ phase' = [phase EXCEPT ![x] = p] /\ verdict' = [verdict EXCEPT ![x] = v]
      /\ phase[x] = PhaseOf(x) /\ verdict[x] = VerdictOf(x)
  <2>1. phase' = [y \in Items |-> PhaseOf(y)'] /\ verdict' = [y \in Items |-> VerdictOf(y)']
    OBVIOUS
  <2> QED
    BY <2>1
<1>2. CASE p = PhaseOf(x) /\ v = VerdictOf(x)
  <2>1. phase' = phase /\ verdict' = verdict
    BY <1>1, <1>2
  <2> QED
    BY <2>1 DEF Once!once
<1>3. CASE PhaseOf(x) = "free" /\ p = "claimed" /\ v = VerdictOf(x)
  <2>1. verdict' = verdict
    BY <1>1, <1>3
  <2>2. Once!Claim(x)
    BY <1>1, <1>3, <2>1 DEF Once!Claim
  <2> QED
    BY <2>2 DEF Once!Next
<1>4. CASE PhaseOf(x) = "free" /\ p = "denied" /\ v = "unconfirmed"
  <2>1. Once!Deny(x)
    BY <1>1, <1>4 DEF Once!Deny
  <2> QED
    BY <2>1 DEF Once!Next
<1>5. CASE /\ PhaseOf(x) = "claimed" /\ VerdictOf(x) # "confirmed"
           /\ p = PhaseOf(x) /\ v \in {"confirmed", "unconfirmed"}
  <2>1. phase' = phase
    BY <1>1, <1>5
  <2>2. Once!Settle(x, v)
    BY <1>1, <1>5, <2>1 DEF Once!Settle
  <2> QED
    BY <1>5, <2>2 DEF Once!Next
<1> QED
  BY <1>2, <1>3, <1>4, <1>5 DEF Allowed

\* An item is the publication of a run, seen through its row, or a notice of one.
LEMMA ItemKinds ==
  ASSUME PublicationAssumption, NEW x \in Items
  PROVE  \/ /\ x[1] \in Ids /\ x = Publication(x[1]) /\ x[2] = "publication"
            /\ x[1] \in DOMAIN runs => /\ PhaseOf(x) = RowPhase(runs[x[1]])
                                       /\ VerdictOf(x) = RowVerdict(runs[x[1]])
            /\ x[1] \notin DOMAIN runs => PhaseOf(x) = "free" /\ VerdictOf(x) = "open"
         \/ x \in Ids \X Slots /\ x[2] # "publication"
BY DEF Items, PhaseOf, VerdictOf, RowPhase, RowVerdict, PublicationAssumption

\* What stays of an item whose row and delivery stay.
LEMMA ItemKept ==
  ASSUME PublicationAssumption, NEW x \in Items,
         x \in Ids \X Slots => deliveries'[x] = deliveries[x],
         x[2] = "publication" => /\ x[1] \in DOMAIN runs' <=> x[1] \in DOMAIN runs
                                 /\ x[1] \in DOMAIN runs => runs'[x[1]] = runs[x[1]]
  PROVE  PhaseOf(x)' = PhaseOf(x) /\ VerdictOf(x)' = VerdictOf(x)
<1>1. CASE x[2] = "publication"
  BY <1>1 DEF PhaseOf, VerdictOf
<1>2. CASE x[2] # "publication"
  <2>1. deliveries'[x] = deliveries[x]
    BY <1>2, ItemKinds
  <2> QED
    BY <1>2, <2>1 DEF PhaseOf, VerdictOf
<1> QED
  BY <1>1, <1>2

LEMMA RowOnce ==
  ASSUME PublicationAssumption, PubInv, NEW i \in DOMAIN runs, sent' = sent,
         DOMAIN runs' = DOMAIN runs, deliveries' = deliveries,
         \A j \in DOMAIN runs : j # i => runs'[j] = runs[j],
         Grows(runs[i], runs'[i])
  PROVE  [Once!Next]_(Once!once)
<1> DEFINE x == Publication(i)
<1>1. x \in Items /\ x[1] = i /\ x[2] = "publication"
  BY InRuns DEF Items
<1>2. ASSUME NEW y \in Items, y # x
      PROVE  PhaseOf(y)' = PhaseOf(y) /\ VerdictOf(y)' = VerdictOf(y)
  <2>1. y[2] = "publication" => y[1] # i
    BY <1>2 DEF Items
  <2> QED
    BY <1>2, <2>1, ItemKept
<1>3. /\ PhaseOf(x) = RowPhase(runs[i]) /\ VerdictOf(x) = RowVerdict(runs[i])
      /\ PhaseOf(x)' = RowPhase(runs'[i]) /\ VerdictOf(x)' = RowVerdict(runs'[i])
  BY <1>1 DEF PhaseOf, VerdictOf, RowPhase, RowVerdict
<1> HIDE DEF x
<1>4. Allowed(PhaseOf(x), VerdictOf(x), PhaseOf(x)', VerdictOf(x)')
  BY <1>3 DEF Grows
<1> QED
  BY <1>1, <1>2, <1>4, OneItem

LEMMA NoticeOnce ==
  ASSUME PublicationAssumption, PubInv, NEW i \in Ids, NoticeWritten(i), sent' = sent
  PROVE  [Once!Next]_(Once!once)
<1>1. PICK slot \in Slots :
        /\ \/ deliveries'[<<i, slot>>] = deliveries[<<i, slot>>]
           \/ deliveries[<<i, slot>>] = "none" /\ deliveries'[<<i, slot>>] = "attempted"
           \/ deliveries[<<i, slot>>] = "attempted"
                /\ deliveries'[<<i, slot>>] \in {"unknown", "confirmed"}
        /\ \A x \in Ids \X Slots : x # <<i, slot>> => deliveries'[x] = deliveries[x]
  BY DEF NoticeWritten
<1> DEFINE x == <<i, slot>>
<1>2. x \in Items /\ x[2] # "publication" /\ runs' = runs
  BY DEF Items, PublicationAssumption, NoticeWritten
<1>3. ASSUME NEW y \in Items, y # x
      PROVE  PhaseOf(y)' = PhaseOf(y) /\ VerdictOf(y)' = VerdictOf(y)
  BY <1>1, <1>2, <1>3, ItemKept
<1>4. Allowed(PhaseOf(x), VerdictOf(x), PhaseOf(x)', VerdictOf(x)')
  BY <1>1, <1>2 DEF Allowed, PhaseOf, VerdictOf
<1> HIDE DEF x
<1> QED
  BY <1>2, <1>3, <1>4, OneItem

LEMMA SendOnce ==
  ASSUME PublicationAssumption, PubInv, NEW i \in Ids, Sends(i)
  PROVE  [Once!Next]_(Once!once)
<1>1. PICK x \in Items :
        /\ PhaseOf(x) = "claimed" /\ sent[x] = 0
        /\ sent' = [sent EXCEPT ![x] = @ + 1] /\ UNCHANGED ledger
  BY DEF Sends
<1>2. \A y \in Items : PhaseOf(y)' = PhaseOf(y) /\ VerdictOf(y)' = VerdictOf(y)
  BY <1>1 DEF PhaseOf, VerdictOf
<1>3. sent' = [sent EXCEPT ![x] = 1]
  BY <1>1
<1>4. Once!Send(x)
  BY <1>1, <1>2, <1>3 DEF Once!Send
<1> QED
  BY <1>4 DEF Once!Next

LEMMA StillOnce ==
  ASSUME UNCHANGED <<runs, deliveries, sent>>
  PROVE  [Once!Next]_(Once!once)
BY DEF Once!once, PhaseOf, VerdictOf

LEMMA TaskOnce ==
  ASSUME LedgerAssumption, PublicationAssumption, PubInv,
         NEW i \in Ids, DraftPr(i) \/ Review(i) \/ Triaged(i)
  PROVE  [Once!Next]_(Once!once)
<1>1. Writes(i) /\ UNCHANGED clock
  BY DraftWrites, ReviewWrites, TriageWrites, TaskMoves DEF Quiet
<1>2. CASE UNCHANGED ledger /\ Local
  BY <1>2, StillOnce
<1>3. CASE (Settles(i) \/ Advances(i) \/ Claims(i)) /\ Local
  <2>1. RowWritten(i)
    BY <1>1, <1>3, SettleRow, AdvanceRow, ClaimRow
  <2> QED
    BY <1>3, <2>1, RowOnce DEF RowWritten
<1>4. CASE Notes(i) /\ Local
  BY <1>1, <1>4, NoticeRow, NoticeOnce
<1>5. CASE Sends(i)
  BY <1>5, SendOnce
<1> QED
  BY <1>1, <1>2, <1>3, <1>4, <1>5 DEF Writes

LEMMA AdmitOnce ==
  ASSUME LedgerAssumption, PublicationAssumption, PubInv, NEW pr \in Prs, AdmitReview(pr)
  PROVE  [Once!Next]_(Once!once)
<1>1. deliveries' = deliveries /\ sent' = sent /\ (RowAppended \/ RefusalRewritten)
      /\ DOMAIN runs' \subseteq Ids
  BY AdmitEffect, AdmitKeeps DEF AdmitReview
<1>2. CASE RefusalRewritten
  BY <1>1, <1>2, RowOnce DEF RefusalRewritten
<1>3. CASE RowAppended
  <2>1. PICK row \in Run :
          runs' = Append(runs, row) /\ WholeRow(row) /\ ~ row.outcome.intent
    BY <1>3 DEF RowAppended
  <2>9. PICK k \in Nat : k = Len(runs) + 1
    BY DEF PubInv, TypeOK
  <2> DEFINE x == Publication(k)
  <2>2. /\ DOMAIN runs' = DOMAIN runs \cup {k} /\ runs'[k] = row /\ k \notin DOMAIN runs
        /\ \A i \in DOMAIN runs : runs'[i] = runs[i]
    BY <2>1, <2>9 DEF PubInv, TypeOK
  <2>3. x \in Items /\ x[1] = k /\ x[2] = "publication"
    BY <1>1, <2>2 DEF Items
  <2>4. ASSUME NEW y \in Items, y # x
        PROVE  PhaseOf(y)' = PhaseOf(y) /\ VerdictOf(y)' = VerdictOf(y)
    <3>1. y[2] = "publication" => y[1] # k
      BY <2>4 DEF Items
    <3> QED
      BY <1>1, <2>2, <2>4, <3>1, ItemKept
  <2>5. PhaseOf(x) = "free" /\ VerdictOf(x) = "open"
    BY <2>2, <2>3 DEF PhaseOf, VerdictOf
  <2>6. PhaseOf(x)' = RowPhase(row) /\ VerdictOf(x)' = RowVerdict(row)
    BY <2>2, <2>3 DEF PhaseOf, VerdictOf, RowPhase, RowVerdict
  <2>7. \/ RowPhase(row) = "free" /\ RowVerdict(row) = "open"
        \/ RowPhase(row) = "denied" /\ RowVerdict(row) = "unconfirmed"
    BY <2>1 DEF RowPhase, RowVerdict, WholeRow, Confined
  <2> HIDE DEF x
  <2>8. Allowed(PhaseOf(x), VerdictOf(x), PhaseOf(x)', VerdictOf(x)')
    BY <2>5, <2>6, <2>7 DEF Allowed
  <2> QED
    BY <1>1, <2>3, <2>4, <2>8, OneItem
<1> QED
  BY <1>1, <1>2, <1>3

\* interrupt_open is one Recover over all the items it moves.
LEMMA RestartOnce ==
  ASSUME LedgerAssumption, PublicationAssumption, PubInv, Restart
  PROVE  [Once!Next]_(Once!once)
<1>1. /\ DOMAIN runs' = DOMAIN runs /\ sent' = sent
      /\ \A i \in DOMAIN runs : Recovered(runs[i], runs'[i])
      /\ \A x \in Ids \X Slots :
           \/ deliveries'[x] = deliveries[x] /\ deliveries[x] # "attempted"
           \/ deliveries[x] = "attempted" /\ deliveries'[x] = "unknown"
  BY InterruptEffect DEF Restart
<1>2. ASSUME NEW x \in Items
      PROVE  Recovers(PhaseOf(x), VerdictOf(x), PhaseOf(x)', VerdictOf(x)')
  <2>1. CASE x[2] = "publication"
    <3>1. CASE x[1] \in DOMAIN runs
      <4>1. Recovers(RowPhase(runs[x[1]]), RowVerdict(runs[x[1]]),
                     RowPhase(runs'[x[1]]), RowVerdict(runs'[x[1]]))
        BY <1>1, <3>1 DEF Recovered
      <4>2. /\ PhaseOf(x) = RowPhase(runs[x[1]]) /\ VerdictOf(x) = RowVerdict(runs[x[1]])
            /\ PhaseOf(x)' = RowPhase(runs'[x[1]])
            /\ VerdictOf(x)' = RowVerdict(runs'[x[1]])
        BY <1>1, <2>1, <3>1 DEF PhaseOf, VerdictOf, RowPhase, RowVerdict
      <4> QED
        BY <4>1, <4>2
    <3>2. CASE x[1] \notin DOMAIN runs
      BY <1>1, <2>1, <3>2 DEF PhaseOf, VerdictOf, Recovers
    <3> QED
      BY <3>1, <3>2
  <2>2. CASE x[2] # "publication"
    <3>1. x \in Ids \X Slots
      BY <2>2, ItemKinds
    <3> QED
      BY <1>1, <2>2, <3>1 DEF PhaseOf, VerdictOf, Recovers
  <2> QED
    BY <2>1, <2>2
<1> DEFINE phase   == [y \in Items |-> PhaseOf(y)]
           verdict == [y \in Items |-> VerdictOf(y)]
           S == {x \in Items : PhaseOf(x)' # PhaseOf(x) \/ VerdictOf(x)' # VerdictOf(x)}
<1>3. /\ \A x \in Items : phase[x] = PhaseOf(x) /\ verdict[x] = VerdictOf(x)
      /\ phase' = [x \in Items |-> PhaseOf(x)'] /\ verdict' = [x \in Items |-> VerdictOf(x)']
  OBVIOUS
<1>4. /\ \A x \in S : phase[x] # "denied" /\ verdict[x] # "confirmed"
      /\ verdict' = [x \in Items |-> IF x \in S THEN "unconfirmed" ELSE verdict[x]]
      /\ phase' = [x \in Items |-> IF x \in S /\ phase[x] = "free" THEN "denied" ELSE phase[x]]
  <2>1. ASSUME NEW x \in Items
        PROVE  /\ x \in S => PhaseOf(x) # "denied" /\ VerdictOf(x) # "confirmed"
               /\ VerdictOf(x)' = IF x \in S THEN "unconfirmed" ELSE VerdictOf(x)
               /\ PhaseOf(x)' = IF x \in S /\ PhaseOf(x) = "free" THEN "denied" ELSE PhaseOf(x)
    BY <1>2 DEF Recovers
  <2> QED
    BY <1>3, <2>1
<1>5. Once!Recover(S)
  BY <1>1, <1>4 DEF Once!Recover
<1>6. S \in SUBSET Items
  OBVIOUS
<1> HIDE DEF S
<1> QED
  BY <1>5, <1>6 DEF Once!Next

LEMMA OnceStep ==
  ASSUME LedgerAssumption, PublicationAssumption, PubInv, [PubNext]_pubVars
  PROVE  [Once!Next]_(Once!once)
<1>1. ASSUME NEW i \in Ids, DraftPr(i) \/ Review(i) \/ Triaged(i)
      PROVE  [Once!Next]_(Once!once)
  BY <1>1, TaskOnce
<1>2. ASSUME NEW pr \in Prs, AdmitReview(pr) PROVE [Once!Next]_(Once!once)
  BY <1>2, AdmitOnce
<1>3. CASE Restart
  BY <1>3, RestartOnce
<1>4. CASE \/ \E x \in Items : Serve(x)
           \/ \E pr \in Prs : Push(pr) \/ Poll(pr)
           \/ EditAllowlist \/ Crash \/ UNCHANGED pubVars
  <2>1. UNCHANGED <<runs, deliveries, sent>>
    BY <1>4 DEF Serve, Push, Poll, EditAllowlist, Crash
  <2> QED
    BY <2>1, StillOnce
<1> QED
  BY <1>1, <1>2, <1>3, <1>4 DEF PubNext

LEMMA OnceInit ==
  ASSUME LedgerAssumption, PublicationAssumption, PubInit
  PROVE  Once!Init
<1>1. \A i \in DOMAIN runs : runs[i].outcome = OutcomeOf("admitted")
  BY FirstRows
<1>3. deliveries = [x \in Ids \X Slots |-> "none"] /\ sent = [x \in Items |-> 0]
  BY SMT DEF PubInit
<1>2. ASSUME NEW x \in Items PROVE PhaseOf(x) = "free" /\ VerdictOf(x) = "open"
  <2>1. CASE x[2] = "publication"
    BY <1>1, <2>1 DEF PhaseOf, VerdictOf, OutcomeOf
  <2>2. CASE x[2] # "publication"
    <3>1. deliveries[x] = "none"
      BY <1>3, <2>2, ItemKinds
    <3> QED
      BY <2>2, <3>1 DEF PhaseOf, VerdictOf
  <2> QED
    BY <2>1, <2>2
<1> QED
  BY <1>2, <1>3 DEF Once!Init

\* One request per claim over any number of crashes and recoveries, none after a
\* refusal, and a confirmation is final: the publication implements ClaimOnce.
THEOREM EffectsAreOnce == PubSpec => EffectsOnce
<1>1. PubInit => Once!Init
  BY OnceInit, LedgerAssumption, PublicationAssumption
<1>2. PubInv /\ [PubNext]_pubVars => [Once!Next]_(Once!once)
  BY OnceStep, LedgerAssumption, PublicationAssumption
<1> QED
  BY <1>1, <1>2, PubCorrect, PTL DEF PubSpec, EffectsOnce, Once!Spec

-----------------------------------------------------------------------------
(* A review is claimed for the newest head only, provided that no push brings an *)
(* earlier head back (Advancing): the ledger, the poller and the rows only ever   *)
(* move towards newer heads.                                                       *)

NotNewer(age, s, t) == s # NoSha => t # NoSha /\ age[s] <= age[t]

HeadsInOrder(age) ==
  /\ \A pr \in Prs : /\ NotNewer(age, polled[pr], head[pr])
                     /\ NotNewer(age, heads[pr], head[pr])
                     /\ polled[pr] # NoSha => NotNewer(age, heads[pr], polled[pr])
  /\ \A i \in DOMAIN runs :
       runs[i].trigger.kind = "pr_review" => NotNewer(age, ShaOf(i), heads[PrOf(i)])

LEMMA ReviewTrigger ==
  ASSUME LedgerAssumption, NEW run \in Run, run.trigger.kind = "pr_review"
  PROVE  /\ run.trigger.pr \in Prs /\ run.trigger.sha \in Shas /\ run.trigger.sha # NoSha
<1>1. run.trigger \in PrReview
  BY DEF Run, Trigger, EventTrigger, Scheduled, Manual, Event, Triage, PrReview
<1> QED
  BY <1>1 DEF PrReview, LedgerAssumption

\* Only claim_publication grants an intent, and not to a run whose head was overtaken.
LEMMA IntentWon ==
  ASSUME LedgerAssumption, PublicationAssumption, PubInv, [PubNext]_pubVars,
         NEW i \in DOMAIN runs, ~ runs[i].outcome.intent, runs'[i].outcome.intent
  PROVE  ~ Superseded(i)
<1>1. runs[i] \in Run /\ WholeRow(runs[i])
  BY InRuns
<1>2. runs' # runs
  OBVIOUS
<1>3. ASSUME NEW k \in Ids, DraftPr(k) \/ Review(k) \/ Triaged(k) PROVE ~ Superseded(i)
  <2>1. Writes(k) /\ UNCHANGED clock
    BY <1>3, DraftWrites, ReviewWrites, TriageWrites, TaskMoves DEF Quiet
  <2>2. ~ Settles(k)
    <3> SUFFICES ASSUME NEW decision, NEW url, SettleOutcome(k, decision, url) PROVE FALSE
      BY DEF Settles
    <3>1. runs[i].outcome \in Outcome
      BY <1>1, RowFields
    <3> QED
      BY <1>1, <1>2, <3>1 DEF SettleOutcome, Run, Outcome
  <2>3. ~ Notes(k) /\ ~ Sends(k)
    BY <1>2 DEF Notes, Sends, ClaimNotification, SettleNotification
  <2>4. ~ Advances(k)
    <3>1. ClaimDispatch(k) => runs'[i].outcome = runs[i].outcome
      BY <1>1 DEF ClaimDispatch, Run
    <3>2. ASSUME NEW status, Transition(k, status, FALSE, clock)
          PROVE  ~ runs'[i].outcome.intent
      <4>1. runs'[i] = runs[i] \/ runs'[i] = Transitioned(runs[i], status, FALSE, clock)
        BY <1>2, <3>2 DEF Transition
      <4>2. \/ Transitioned(runs[i], status, FALSE, clock).outcome = runs[i].outcome
            \/ Transitioned(runs[i], status, FALSE, clock).outcome = OutcomeOf(status)
        BY <1>1 DEF Transitioned, Run
      <4>3. ~ OutcomeOf(status).intent
        BY DEF OutcomeOf
      <4>4. runs'[i].outcome \in {runs[i].outcome, OutcomeOf(status)}
        BY <4>1, <4>2
      <4> QED
        BY <4>3, <4>4
    <3> QED
      BY <3>1, <3>2 DEF Advances
  <2>5. ~ SupersedePublication(k)
    BY <1>1, <1>2 DEF SupersedePublication, OutcomeOf, Run
  <2>6. ClaimPublication(k)
    BY <1>2, <2>1, <2>2, <2>3, <2>4, <2>5 DEF Writes, Claims
  <2>7. k = i
    BY <1>1, <2>6 DEF ClaimPublication
  <2> QED
    BY <2>6, <2>7 DEF ClaimPublication
<1>4. ASSUME NEW pr \in Prs, AdmitReview(pr) PROVE FALSE
  <2>1. RowAppended \/ RefusalRewritten
    BY <1>4, AdmitEffect
  <2>2. ~ RowAppended
    BY DEF RowAppended, PubInv, TypeOK
  <2> QED
    BY <2>1, <2>2 DEF RefusalRewritten
<1>5. ASSUME Restart PROVE FALSE
  <2>1. Recovered(runs[i], runs'[i])
    BY <1>5, InterruptEffect DEF Restart
  <2> QED
    BY <1>1, <2>1 DEF Recovered, Recovers, RowPhase
<1>6. CASE \/ \E x \in Items : Serve(x)
           \/ \E pr \in Prs : Push(pr) \/ Poll(pr)
           \/ EditAllowlist \/ Crash \/ UNCHANGED pubVars
  BY <1>2, <1>6 DEF Serve, Push, Poll, EditAllowlist, Crash
<1> QED
  BY <1>3, <1>4, <1>5, <1>6 DEF PubNext

LEMMA OrderInit ==
  ASSUME LedgerAssumption, PublicationAssumption, PubInit, NEW age \in [Shas -> Nat]
  PROVE  HeadsInOrder(age)
<1>1. \A i \in DOMAIN runs : runs[i].trigger.kind # "pr_review"
  BY FirstRows
<1>2. /\ heads = [p \in Prs |-> NoSha] /\ polled = [p \in Prs |-> NoSha]
  BY SMT DEF PubInit
<1> QED
  BY <1>1, <1>2 DEF HeadsInOrder, NotNewer

\* Steps that leave the heads alone and the triggers of the rows.
LEMMA OrderKept ==
  ASSUME PubInv, NEW age \in [Shas -> Nat], HeadsInOrder(age),
         UNCHANGED <<heads, head>>, DOMAIN runs' = DOMAIN runs,
         \A i \in DOMAIN runs : runs'[i].trigger = runs[i].trigger,
         \A pr \in Prs : polled'[pr] \in {polled[pr], head[pr], NoSha}
  PROVE  HeadsInOrder(age)'
<1>1. \A pr \in Prs : NotNewer(age, head[pr], head[pr])
  <2>1. \A pr \in Prs : head[pr] # NoSha => age[head[pr]] <= age[head[pr]]
    BY DEF PubInv, TypePub
  <2> QED
    BY <2>1 DEF NotNewer
<1> QED
  BY <1>1 DEF HeadsInOrder, NotNewer, PrOf, ShaOf

LEMMA OrderStep ==
  ASSUME LedgerAssumption, PublicationAssumption, PubInv, [PubNext]_pubVars,
         NEW age \in [Shas -> Nat], Advancing(age), HeadsInOrder(age)
  PROVE  HeadsInOrder(age)'
<1>1. /\ head \in [Prs -> Shas \cup {NoSha}] /\ polled \in [Prs -> Shas \cup {NoSha}]
      /\ heads \in [Prs -> Shas \cup {NoSha}]
      /\ \A i \in DOMAIN runs : runs[i] \in Run
  BY InRuns DEF PubInv, TypePub, TypeOK
<1>2. ASSUME NEW k \in Ids, DraftPr(k) \/ Review(k) \/ Triaged(k) PROVE HeadsInOrder(age)'
  <2>1. Writes(k) /\ Quiet
    BY <1>2, DraftWrites, ReviewWrites, TriageWrites, TaskMoves
  <2>2. Orderly(k)
    BY <2>1, WritesOrderly DEF Quiet
  <2> QED
    BY <2>1, <2>2, OrderKept DEF Orderly, Quiet, Kept
<1>3. CASE Restart
  <2>1. /\ heads' = heads /\ DOMAIN runs' = DOMAIN runs
        /\ \A i \in DOMAIN runs : Recovered(runs[i], runs'[i])
    BY <1>3, InterruptEffect DEF Restart
  <2> QED
    BY <1>3, <2>1, OrderKept DEF Restart, Recovered, Grows, Kept
<1>4. CASE UNCHANGED pubVars \/ EditAllowlist \/ Crash \/ \E x \in Items : Serve(x)
  BY <1>1, <1>4, OrderKept DEF EditAllowlist, Crash, Serve, Outside
<1>5. ASSUME NEW pr \in Prs, Poll(pr) PROVE HeadsInOrder(age)'
  BY <1>1, <1>5, OrderKept DEF Poll, Outside
<1>6. ASSUME NEW pr \in Prs, Push(pr) PROVE HeadsInOrder(age)'
  <2>1. PICK s \in Newer[head[pr]] : head' = [head EXCEPT ![pr] = s]
    BY <1>6 DEF Push
  <2>2. head[pr] \in Shas /\ s \in Shas /\ s # NoSha /\ age[head[pr]] < age[s]
    BY <1>1, <1>6, <2>1 DEF Push, Advancing, PublicationAssumption, LedgerAssumption
  <2>3. \A p \in Prs : head'[p] = IF p = pr THEN s ELSE head[p]
    BY <1>1, <2>1
  <2>4. \A t \in Shas : age[t] <= age[head[pr]] => age[t] <= age[s]
    BY <2>2
  <2>5. UNCHANGED <<runs, heads, polled>>
    BY <1>6 DEF Push
  <2>6. \A t \in Shas \cup {NoSha} : NotNewer(age, t, head[pr]) => NotNewer(age, t, s)
    BY <2>2, <2>4 DEF NotNewer
  <2>7. ASSUME NEW p \in Prs
        PROVE  /\ NotNewer(age, polled[p], head'[p]) /\ NotNewer(age, heads[p], head'[p])
               /\ polled[p] # NoSha => NotNewer(age, heads[p], polled[p])
    BY <1>1, <2>3, <2>6 DEF HeadsInOrder
  <2>8. \A i \in DOMAIN runs :
          runs[i].trigger.kind = "pr_review" => NotNewer(age, ShaOf(i), heads[PrOf(i)])
    BY DEF HeadsInOrder
  <2> QED
    BY <2>5, <2>7, <2>8 DEF HeadsInOrder, NotNewer, PrOf, ShaOf
<1>7. ASSUME NEW pr \in Prs, AdmitReview(pr) PROVE HeadsInOrder(age)'
  <2>1. /\ RowAppended \/ RefusalRewritten
        /\ polled[pr] \in Shas /\ heads' = [heads EXCEPT ![pr] = polled[pr]]
        /\ UNCHANGED <<head, polled>>
    BY <1>7, AdmitEffect DEF AdmitReview
  <2>2. polled[pr] # NoSha /\ \A p \in Prs : heads'[p] = IF p = pr THEN polled[pr] ELSE heads[p]
    BY <1>1, <2>1 DEF LedgerAssumption
  <2>3. age[polled[pr]] \in Nat /\ \A t \in Shas : age[t] \in Nat
    BY <2>1
  <2>4. ASSUME NEW t \in Shas, NEW p \in Prs, NotNewer(age, t, heads[p])
        PROVE  NotNewer(age, t, heads'[p])
    <3>1. t # NoSha
      BY DEF LedgerAssumption
    <3>2. heads[p] \in Shas /\ age[t] <= age[heads[p]]
      BY <1>1, <2>4, <3>1 DEF NotNewer
    <3>3. age[heads[p]] \in Nat
      BY <3>2
    <3>4. CASE p = pr
      <4>1. age[heads[p]] <= age[polled[pr]]
        BY <2>2, <3>1, <3>2, <3>4 DEF HeadsInOrder, NotNewer, LedgerAssumption
      <4> QED
        BY <2>2, <2>3, <3>2, <3>3, <3>4, <4>1 DEF NotNewer
    <3>5. CASE p # pr
      BY <2>2, <2>4, <3>5
    <3> QED
      BY <3>4, <3>5
  <2>5. \A p \in Prs : /\ NotNewer(age, polled[p], head[p]) /\ NotNewer(age, heads'[p], head[p])
                       /\ polled[p] # NoSha => NotNewer(age, heads'[p], polled[p])
    <3>1. NotNewer(age, polled[pr], polled[pr])
      BY <2>3 DEF NotNewer
    <3> QED
      BY <2>2, <3>1 DEF HeadsInOrder
  <2>6. ASSUME NEW i \in DOMAIN runs, runs[i].trigger.kind = "pr_review"
        PROVE  NotNewer(age, runs[i].trigger.sha, heads'[runs[i].trigger.pr])
    <3>1. NotNewer(age, runs[i].trigger.sha, heads[runs[i].trigger.pr])
      BY <2>6 DEF HeadsInOrder, PrOf, ShaOf
    <3> QED
      BY <1>1, <2>4, <2>6, <3>1, ReviewTrigger
  <2>7. ASSUME NEW i \in DOMAIN runs', runs'[i].trigger.kind = "pr_review"
        PROVE  NotNewer(age, runs'[i].trigger.sha, heads'[runs'[i].trigger.pr])
    <3>1. CASE RowAppended
      <4>1. PICK row \in Run :
              /\ runs' = Append(runs, row) /\ row.trigger \in PrReview
              /\ heads'[row.trigger.pr] = row.trigger.sha
        BY <3>1 DEF RowAppended
      <4>2. DOMAIN runs' = DOMAIN runs \cup {Len(runs) + 1} /\ runs'[Len(runs) + 1] = row
            /\ \A j \in DOMAIN runs : runs'[j] = runs[j]
        BY <4>1 DEF PubInv, TypeOK
      <4>3. NotNewer(age, row.trigger.sha, heads'[row.trigger.pr])
        <5>1. row.trigger.sha \in Shas
          BY <4>1 DEF PrReview
        <5> QED
          BY <2>3, <4>1, <5>1 DEF NotNewer
      <4> QED
        BY <2>6, <2>7, <4>2, <4>3
    <3>2. CASE RefusalRewritten
      <4>1. i \in DOMAIN runs /\ runs'[i].trigger = runs[i].trigger
        BY <3>2 DEF RefusalRewritten, Grows, Kept
      <4> QED
        BY <2>6, <2>7, <4>1
    <3> QED
      BY <2>1, <3>1, <3>2
  <2> QED
    BY <2>1, <2>5, <2>7 DEF HeadsInOrder, NotNewer, PrOf, ShaOf
<1> QED
  BY <1>2, <1>3, <1>4, <1>5, <1>6, <1>7 DEF PubNext

\* claim_publication never grants a review of a head that the ledger knows a newer one of.
THEOREM ReviewsNewestHead ==
  ASSUME NEW age \in [Shas -> Nat], Advancing(age)
  PROVE  PubSpec => NewestHeadClaimed
<1>1. PubInit => HeadsInOrder(age)
  BY OrderInit, LedgerAssumption, PublicationAssumption
<1>2. PubInv /\ [PubNext]_pubVars /\ HeadsInOrder(age) => HeadsInOrder(age)'
  BY OrderStep, LedgerAssumption, PublicationAssumption
<1>3. PubInv /\ [PubNext]_pubVars /\ HeadsInOrder(age) =>
        [\A i, j \in DOMAIN runs :
           (/\ runs[i].trigger.kind = "pr_review" /\ runs[j].trigger.kind = "pr_review"
            /\ PrOf(i) = PrOf(j) /\ ShaOf(j) \in Newer[ShaOf(i)])
           => runs[i].outcome.intent \/ ~ runs'[i].outcome.intent]_pubVars
  <2> SUFFICES ASSUME PubInv, [PubNext]_pubVars, HeadsInOrder(age),
                      NEW i \in DOMAIN runs, NEW j \in DOMAIN runs,
                      runs[i].trigger.kind = "pr_review", runs[j].trigger.kind = "pr_review",
                      PrOf(i) = PrOf(j), ShaOf(j) \in Newer[ShaOf(i)],
                      ~ runs[i].outcome.intent, runs'[i].outcome.intent
               PROVE  FALSE
    OBVIOUS
  <2>1. ~ Superseded(i)
    BY IntentWon, LedgerAssumption, PublicationAssumption
  <2>2. /\ PrOf(i) \in Prs /\ ShaOf(i) \in Shas /\ ShaOf(j) \in Shas /\ ShaOf(j) # NoSha
    BY InRuns, ReviewTrigger, LedgerAssumption DEF PrOf, ShaOf
  <2>3. heads[PrOf(j)] = ShaOf(i)
    BY <2>1 DEF Superseded, PrOf, ShaOf
  <2>4. age[ShaOf(j)] <= age[ShaOf(i)]
    BY <2>2, <2>3 DEF HeadsInOrder, NotNewer
  <2>5. age[ShaOf(i)] < age[ShaOf(j)]
    BY <2>2 DEF Advancing
  <2>6. age[ShaOf(i)] \in Nat /\ age[ShaOf(j)] \in Nat
    BY <2>2
  <2> QED
    BY <2>4, <2>5, <2>6
<1> QED
  BY <1>1, <1>2, <1>3, PubCorrect, PTL DEF PubSpec, NewestHeadClaimed
=============================================================================
