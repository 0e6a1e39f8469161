-------------------------- MODULE EventPublication ---------------------------
(***************************************************************************)
(* How a completed event run opens its draft pull request (completion.rs,   *)
(* publish.rs), how an incoming pull request gets its review                *)
(* (pr_reviews.rs) and how a triage decision reaches its issue (triage.rs), *)
(* against a GitHub that may answer late, lose a response or be out of      *)
(* reach, through crashes of the process and the recovery of the next one.  *)
(* The rows are those of RunLedger; an item is one effect at GitHub.        *)
(***************************************************************************)
EXTENDS RunLedger

CONSTANTS
  Drafts,     \* issue runs that may have just completed when the model starts
  Decided,    \* issues whose triage may have just been decided instead
  ReviewDef,  \* pull_request_reviews.definition_id
  FirstSha,   \* head of every pull request when the model starts
  Newer,      \* Newer[s]: heads that a push may put after s
  MaxCrashes, \* bound: crashes of the process
  MaxEdits,   \* bound: changes of the allowlist
  MaxFaults   \* bound: ledger writes that fail

ASSUME PublicationAssumption ==
  /\ Drafts \subseteq Issues /\ IsFiniteSet(Drafts) /\ Cardinality(Drafts) <= MaxRuns
  /\ Decided \subseteq Issues /\ (Decided # {} => MaxRuns > 0) /\ Revs # {}
  /\ {"running", "completed", "failed"} \subseteq Targets   \* what a review asks for
  /\ Slots = IF Decided = {} THEN {} ELSE {"triage-comment", "triage-label"}
  /\ ReviewDef \in Defs /\ FirstSha \in Shas \cup {NoSha}
  /\ Newer \in [Shas -> SUBSET Shas]
  /\ MaxCrashes \in Nat /\ MaxEdits \in Nat /\ MaxFaults \in Nat

VARIABLES
  up,     \* the process runs and owns the ledger
  pc,     \* publication or review task of each run
  seen,   \* what the task of each run works on: its copies of configuration and row
  allow,  \* the allowlist names the repository
  head,   \* head of each pull request, at GitHub
  polled, \* head of each pull request, in the poller's last snapshot
  wire,   \* items with a request on its way to GitHub
  made,   \* items that exist at GitHub
  sent,   \* history: requests sent for each item
  spent   \* history: crashes, edits, faults; runs whose last settlement failed

pubVars == <<vars, up, pc, seen, allow, head, polled, wire, made, sent, spent>>

DraftState  == {"start", "prepare", "validate", "lookup", "post", "waiting", "relook", "error"}
ReviewState == {"queued", "taken", "fetch", "reviewing", "recheck", "finish", "complete",
                "claim", "send", "answer", "fail"}
TriageState == {"comment", "commenting", "commented", "label", "labelling", "labelled"}

\* The pull request or review of a run, and what is written to its issue.
Publication(i) == <<i, "publication">>
Items == Ids \X ({"publication"} \cup Slots)

Step(i, from, to) == up /\ pc[i] = from /\ pc' = [pc EXCEPT ![i] = to]
Quiet == UNCHANGED <<clock, up, allow, head, polled>>   \* what no task step changes
Local == UNCHANGED <<wire, made, sent>>                 \* no request leaves, none arrives

Fault == spent.faults < MaxFaults /\ spent' = [spent EXCEPT !.faults = @ + 1]

\* A settlement that is lost for good: no later step of the task repeats it.
Loses(i) == spent.faults < MaxFaults
            /\ spent' = [spent EXCEPT !.faults = @ + 1, !.lost = @ \cup {i}]

\* settle_outcome, the last thing a task does; its failure is an error of the task.
Settle(i, from, decision, otherwise) ==
  \/ /\ Step(i, from, "done")
     /\ SettleOutcome(i, decision, decision \in Confirmed)
     /\ UNCHANGED spent
  \/ Step(i, from, otherwise) /\ Fault /\ UNCHANGED ledger

-----------------------------------------------------------------------------
(* Draft pull request of a completed issue run (publish_event_draft_pr).      *)

Report(i, from, decision) ==
  Settle(i, from, decision, "error") /\ UNCHANGED seen /\ Quiet /\ Local

\* A row with a saved intent is recovered; a run without a worktree is refused.
Start(i) ==
  \/ /\ seen[i].worktree /\ Step(i, "start", "prepare")
     /\ seen' = [seen EXCEPT ![i].recovering = runs[i].outcome.intent]
     /\ UNCHANGED <<ledger, spent>> /\ Quiet /\ Local
  \/ ~ seen[i].worktree /\ UNCHANGED seen
     /\ Settle(i, "start", "publication_refused", "done") /\ Quiet /\ Local

\* Configuration, branch, review receipt, account: each may be unavailable.
Prepare(i) ==
  /\ \/ Step(i, "prepare", "validate") /\ seen' = [seen EXCEPT ![i].allowed = allow]
     \/ Step(i, "prepare", "error") /\ UNCHANGED seen
  /\ UNCHANGED <<ledger, spent>> /\ Quiet /\ Local

\* publish_run: the allowlist as read before, then the claim unless recovering.
Refuse(i) == pc[i] = "validate" /\ ~ seen[i].allowed /\ Report(i, "validate", "publication_refused")
Validate(i) ==
  /\ pc[i] = "validate" /\ seen[i].allowed
  /\ \/ seen[i].recovering /\ Step(i, "validate", "lookup") /\ UNCHANGED <<ledger, spent>>
     \/ ~ seen[i].recovering /\ Step(i, "validate", "lookup") /\ ClaimPublication(i)
        /\ UNCHANGED spent
     \/ ~ seen[i].recovering /\ Step(i, "validate", "error") /\ Fault /\ UNCHANGED ledger
  /\ UNCHANGED seen /\ Quiet /\ Local

\* find_pr: an answer shows the pull request, or none yet; or there is no answer.
Found(i)     == Publication(i) \in made
\* Slip: recovery repeats the request when it finds no pull request.
LookupRetries(i) ==
  \/ Found(i) /\ Report(i, "lookup", "published")
  \/ Report(i, "lookup", "publication_unknown")
  \/ /\ ~ Found(i) /\ Step(i, "lookup", "post")
     /\ UNCHANGED <<ledger, seen, spent>> /\ Quiet /\ Local
Lookup(i) ==
  \/ Found(i) /\ Report(i, "lookup", "published")
  \/ Report(i, "lookup", "publication_unknown")              \* unavailable, or too long
  \/ ~ Found(i) /\ seen[i].recovering /\ Report(i, "lookup", "publication_unknown")
  \/ /\ ~ Found(i) /\ ~ seen[i].recovering /\ Step(i, "lookup", "post")
     /\ UNCHANGED <<ledger, seen, spent>> /\ Quiet /\ Local

\* The request leaves; or the branch moved, or GitHub is out of reach, and none does.
SendRequest(i, x, from, to) ==
  /\ Step(i, from, to)
  /\ wire' = wire \cup {x} /\ sent' = [sent EXCEPT ![x] = @ + 1]
  /\ UNCHANGED <<ledger, seen, made, spent>> /\ Quiet
Post(i) ==
  \/ SendRequest(i, Publication(i), "post", "waiting")
  \/ Step(i, "post", "relook") /\ UNCHANGED <<ledger, seen, spent>> /\ Quiet /\ Local

Answered(x) == x \in made /\ x \notin wire
Wait(i) ==
  \/ Answered(Publication(i)) /\ Report(i, "waiting", "published")
  \/ Step(i, "waiting", "relook") /\ UNCHANGED <<ledger, seen, spent>> /\ Quiet /\ Local

Relook(i) ==
  \/ Found(i) /\ Report(i, "relook", "published")
  \/ Report(i, "relook", "publication_unknown")

Error(i) ==
  /\ \/ Step(i, "error", "done") /\ SettleOutcome(i, "publication_failed", FALSE)
        /\ UNCHANGED spent
     \/ Step(i, "error", "done") /\ Loses(i) /\ UNCHANGED ledger
  /\ UNCHANGED seen /\ Quiet /\ Local

DraftPr(i) ==
  \/ Start(i) \/ Prepare(i) \/ Refuse(i) \/ Validate(i) \/ Lookup(i)
  \/ Post(i) \/ Wait(i) \/ Relook(i) \/ Error(i)

-----------------------------------------------------------------------------
(* Review of an incoming pull request (pr_reviews.rs).                        *)

Reviewer == [id |-> ReviewDef, enabled |-> TRUE, rev |-> CHOOSE r \in Revs : TRUE]
PrOf(i)  == runs[i].trigger.pr
ShaOf(i) == runs[i].trigger.sha

\* ReviewSnapshot::admit on the poller's snapshot; a reserved row gets its task.
AdmitReview(pr) ==
  /\ up /\ allow /\ polled[pr] # NoSha
  /\ AdmitEvent(Reviewer, [kind |-> "pr_review", pr |-> pr, sha |-> polled[pr]])
  /\ pc' = [i \in Ids |-> IF i \in (DOMAIN runs') \ (DOMAIN runs)
                             /\ runs'[i].status = "reserved" THEN "queued" ELSE pc[i]]
  /\ UNCHANGED <<clock, up, seen, allow, head, polled, spent>> /\ Local

Pure(i, from, to) == Step(i, from, to) /\ UNCHANGED <<ledger, seen, spent>> /\ Quiet /\ Local
Move(i, from, to, status) ==
  \/ /\ Step(i, from, to) /\ Transition(i, status, FALSE, clock)
     /\ UNCHANGED <<seen, spent>> /\ Quiet /\ Local
  \/ /\ Step(i, from, IF from = "fail" THEN "done" ELSE "fail") /\ Fault
     /\ UNCHANGED <<ledger, seen>> /\ Quiet /\ Local
Conclude(i, from, decision, to) ==
  /\ \/ Step(i, from, to) /\ SettleOutcome(i, decision, decision \in Confirmed) /\ UNCHANGED spent
     \/ Step(i, from, "fail") /\ Loses(i) /\ UNCHANGED ledger
  /\ UNCHANGED seen /\ Quiet /\ Local

\* Nobody else touches a reserved review: the monitor leaves reviews alone, and
\* an interruption comes with the end of the process.
TakeReview(i) ==
  /\ \/ Step(i, "queued", "taken") /\ ClaimDispatch(i) /\ UNCHANGED spent
     \/ Step(i, "queued", "fail") /\ Fault /\ UNCHANGED ledger
  /\ UNCHANGED seen /\ Quiet /\ Local
RunReview(i)  == Move(i, "taken", "fetch", "running")

\* Any read of GitHub or of the configuration may fail the review, and so does a
\* withdrawn allowlist; a head that moved on ends it as superseded.
Current(i)    == head[PrOf(i)] = ShaOf(i)
Fetch(i) ==
  \/ pc[i] = "fetch" /\ allow /\ Current(i) /\ Pure(i, "fetch", "reviewing")
  \/ pc[i] = "fetch" /\ allow /\ ~ Current(i) /\ Conclude(i, "fetch", "superseded", "finish")
  \/ Pure(i, "fetch", "fail")
ReviewDiff(i) == Pure(i, "reviewing", "recheck") \/ Pure(i, "reviewing", "fail")
Recheck(i) ==
  \/ pc[i] = "recheck" /\ allow /\ Current(i) /\ Pure(i, "recheck", "complete")
  \/ /\ pc[i] = "recheck" /\ ~ (allow /\ Current(i))
     /\ Conclude(i, "recheck", "superseded", "finish")
  \/ Pure(i, "recheck", "fail")
Finish(i)     == Move(i, "finish", "done", "completed")
Complete(i)   == Move(i, "complete", "claim", "completed")

ClaimReview(i) ==
  \/ /\ Step(i, "claim", "send") /\ ClaimPublication(i)
     /\ UNCHANGED <<seen, spent>> /\ Quiet /\ Local
  \/ /\ Step(i, "claim", "done") /\ SupersedePublication(i)
     /\ UNCHANGED <<seen, spent>> /\ Quiet /\ Local
  \/ Step(i, "claim", "fail") /\ Fault /\ UNCHANGED <<ledger, seen>> /\ Quiet /\ Local

SendReview(i) == SendRequest(i, Publication(i), "send", "answer") \/ Pure(i, "send", "answer")
Answer(i) ==
  \/ pc[i] = "answer" /\ Answered(Publication(i)) /\ Conclude(i, "answer", "review_published", "done")
  \/ Conclude(i, "answer", "publication_unknown", "done")
FailReview(i) == Move(i, "fail", "done", "failed")

Review(i) ==
  \/ TakeReview(i) \/ RunReview(i) \/ Fetch(i) \/ ReviewDiff(i) \/ Recheck(i) \/ Finish(i)
  \/ Complete(i) \/ ClaimReview(i) \/ SendReview(i) \/ Answer(i) \/ FailReview(i)

-----------------------------------------------------------------------------
(* Publication of a triage decision (triage.rs), by the runtime loop.         *)

\* pending_triage: nothing claimed yet, or a rejection whose comment is confirmed.
PendingTriage(i) ==
  /\ i \in Rows /\ runs[i].status = "completed" /\ runs[i].trigger.kind = "triage"
  /\ runs[i].triage \in {"accepted", "rejected"}
  /\ deliveries[<<i, "triage-label">>] = "none"
  /\ deliveries[<<i, "triage-comment">>] \in {"none", "confirmed"}

\* publish_pending, one run after the other; without its policy, its repository on the
\* allowlist or an account, a decision waits for a later wake.
TakeDecision(i) ==
  /\ up /\ allow /\ PendingTriage(i) /\ \A j \in Ids : pc[j] \notin TriageState
  /\ Pure(i, "none", IF runs[i].triage = "rejected" THEN "comment" ELSE "label")

\* send_once, the claim; a delivery that exists is not sent again.
ClaimNotice(i, slot, from, to, known) ==
  /\ \/ Step(i, from, to) /\ ClaimNotification(i, slot) /\ UNCHANGED spent
     \/ Step(i, from, known) /\ ~ NotificationClaimable(i, slot) /\ UNCHANGED <<ledger, spent>>
     \/ Step(i, from, "none") /\ Fault /\ UNCHANGED ledger
  /\ UNCHANGED seen /\ Quiet /\ Local

\* Slip: an unknown comment is followed by the label.
SettleNoticeGoesOn(i, slot, from, to) ==
  /\ Step(i, from, to)
  /\ SettleNotification(i, slot, IF Answered(<<i, slot>>) THEN "confirmed" ELSE "unknown")
  /\ UNCHANGED <<seen, spent>> /\ Quiet /\ Local

\* send_once, the settlement: any error of the request leaves it unknown.
SettleNotice(i, slot, from, to) ==
  /\ \/ /\ Answered(<<i, slot>>) /\ Step(i, from, to)
        /\ SettleNotification(i, slot, "confirmed") /\ UNCHANGED spent
     \/ Step(i, from, "none") /\ SettleNotification(i, slot, "unknown") /\ UNCHANGED spent
     \/ Step(i, from, "none") /\ Loses(i) /\ UNCHANGED ledger
  /\ UNCHANGED seen /\ Quiet /\ Local

SendNotice(i, slot, from, to) == SendRequest(i, <<i, slot>>, from, to) \/ Pure(i, from, to)

\* A rejection is explained first, and only a confirmed comment is followed by the label.
Comments(i) ==
  \/ ClaimNotice(i, "triage-comment", "comment", "commenting",
                 IF deliveries[<<i, "triage-comment">>] = "confirmed" THEN "label" ELSE "none")
  \/ SendNotice(i, "triage-comment", "commenting", "commented")
  \/ SettleNotice(i, "triage-comment", "commented", "label")

Labels(i) ==
  \/ ClaimNotice(i, "triage-label", "label", "labelling", "none")
  \/ SendNotice(i, "triage-label", "labelling", "labelled")
  \/ SettleNotice(i, "triage-label", "labelled", "none")

Triaged(i) == Slots # {} /\ (TakeDecision(i) \/ Comments(i) \/ Labels(i))

-----------------------------------------------------------------------------
(* GitHub, the poller, the configuration, crash and recovery. *)

Outside == UNCHANGED <<clock, up, pc, seen>>   \* what they all leave alone

\* A request arrives, sooner or later: it is carried out, rejected, or lost.
Serve(x) ==
  /\ x \in wire /\ wire' = wire \ {x}
  /\ \/ made' = made \cup {x}
     \/ UNCHANGED made
  /\ UNCHANGED <<ledger, allow, head, polled, sent, spent>> /\ Outside

Push(pr) ==
  /\ head[pr] # NoSha
  /\ \E s \in Newer[head[pr]] : head' = [head EXCEPT ![pr] = s]
  /\ UNCHANGED <<ledger, allow, polled, spent>> /\ Outside /\ Local

Poll(pr) ==
  /\ polled' = [polled EXCEPT ![pr] = head[pr]]
  /\ UNCHANGED <<ledger, allow, head, spent>> /\ Outside /\ Local

EditAllowlist ==
  /\ spent.edits < MaxEdits /\ spent' = [spent EXCEPT !.edits = @ + 1]
  /\ allow' = ~ allow
  /\ UNCHANGED <<ledger, head, polled>> /\ Outside /\ Local

Crash ==
  /\ up /\ spent.crashes < MaxCrashes /\ spent' = [spent EXCEPT !.crashes = @ + 1]
  /\ up' = FALSE
  /\ pc' = [i \in Ids |-> "none"] /\ polled' = [pr \in Prs |-> NoSha]
  /\ UNCHANGED <<vars, seen, allow, head>> /\ Local

\* Slip: recovery forgets the intents that were still pending.
UnsettledUnknown(row) ==
  /\ row.status = "completed" /\ row.trigger.kind = "event"
  /\ row.outcome.decision \in {"admitted", "publication_unknown"}

\* Slip: every completed event run is taken for an issue run.
UnsettledAnyKind(row) ==
  /\ row.status = "completed" /\ HasEventKey(row.trigger)
  /\ row.outcome.decision \in {"admitted", "publication_pending", "publication_unknown"}

\* unsettled_publications: completed issue runs whose publication is not over.
Unsettled(row) ==
  /\ row.status = "completed" /\ row.trigger.kind = "event"
  /\ row.outcome.decision \in {"admitted", "publication_pending", "publication_unknown"}

Restart ==
  /\ ~ up /\ up' = TRUE
  /\ InterruptOpen
  /\ pc' = [i \in Ids |-> IF i \in Rows /\ Unsettled(runs'[i]) THEN "start" ELSE "none"]
  /\ UNCHANGED <<clock, seen, allow, head, polled, spent>> /\ Local

CompletedRun(issue) ==
  [NewRun([id |-> CHOOSE d \in Defs : TRUE, enabled |-> TRUE, rev |-> CHOOSE r \in Revs : TRUE],
          [kind |-> "event", key |-> issue], "reserved")
     EXCEPT !.status = "completed", !.finished = clock, !.bound = TRUE]

TriagedRun(issue, outcome) ==
  [CompletedRun(issue) EXCEPT !.trigger = [kind |-> "triage", key |-> issue], !.triage = outcome]

\* What a task knows when it begins: only whether its run has a worktree.
Beginning == [worktree : BOOLEAN, recovering : {FALSE}, allowed : {FALSE}]

\* The monitor has just published the completion of the issue runs, or the bound session
\* its triage decision.
PubInit ==
  /\ clock = 0
  /\ \/ runs \in {<<TriagedRun(issue, o)>> : issue \in Decided, o \in {"accepted", "rejected"}}
     \/ \E D \in SUBSET Drafts :
       runs \in {r \in [1..Cardinality(D) -> {CompletedRun(issue) : issue \in D}] :
                  \A i, j \in DOMAIN r : r[i] = r[j] => i = j}
  /\ keys = {<<Namespace(runs[i].definition.id, runs[i].trigger), runs[i].trigger>>
               : i \in DOMAIN runs}
  /\ pruned = {} /\ cursors = [d \in Defs |-> -1] /\ heads = [p \in Prs |-> NoSha]
  /\ decisions = {} /\ deliveries = [x \in Ids \X Slots |-> "none"]
  /\ up = TRUE /\ pc = [i \in Ids |-> IF i \in DOMAIN runs /\ runs[i].trigger.kind = "event" THEN "start" ELSE "none"]
  /\ seen \in [Ids -> Beginning]
  /\ \A i \in Ids : seen[i].worktree \/ pc[i] = "start"
  /\ allow = TRUE
  /\ head = [p \in Prs |-> FirstSha] /\ polled = [p \in Prs |-> NoSha]
  /\ made \in SUBSET {Publication(i) : i \in {j \in DOMAIN runs : runs[j].trigger.kind = "event"}}  \* somebody opened the pull request by hand
  /\ wire = {} /\ sent = [x \in Items |-> 0]
  /\ spent = [crashes |-> 0, edits |-> 0, faults |-> 0, lost |-> {}]

PubNext ==
  \/ \E i \in Ids : DraftPr(i) \/ Review(i) \/ Triaged(i)
  \/ \E x \in Items : Serve(x)
  \/ \E pr \in Prs : AdmitReview(pr) \/ Push(pr) \/ Poll(pr)
  \/ EditAllowlist \/ Crash \/ Restart

\* Tasks keep running; requests, pushes, edits, crashes and restarts need not happen.
RunsOn(i) ==
  \/ pc[i] \in DraftState /\ DraftPr(i)
  \/ pc[i] \in ReviewState /\ Review(i)
  \/ pc[i] \in TriageState \cup {"none"} /\ Triaged(i)
PubFairness == \A i \in Ids : WF_pubVars(RunsOn(i))
PubSpec == PubInit /\ [][PubNext]_pubVars /\ PubFairness

-----------------------------------------------------------------------------
(* Properties. *)

\* The shape of the publication state: draft pull requests belong to issue runs,
\* reviews to review runs.
TypePub ==
  /\ up \in BOOLEAN /\ allow \in BOOLEAN
  /\ pc \in [Ids -> {"none", "done"} \cup DraftState \cup ReviewState \cup TriageState]
  /\ \A i \in DOMAIN runs :
       /\ pc[i] \in DraftState => runs[i].trigger.kind = "event"
       /\ pc[i] \in ReviewState => runs[i].trigger.kind = "pr_review"
       /\ pc[i] \in TriageState => runs[i].trigger.kind = "triage"
  /\ seen \in [Ids -> [worktree : BOOLEAN, recovering : BOOLEAN, allowed : BOOLEAN]]
  /\ head \in [Prs -> Shas \cup {NoSha}] /\ polled \in [Prs -> Shas \cup {NoSha}]
  /\ wire \subseteq Items /\ made \subseteq Items /\ \A x \in wire \cup made : x[1] \in DOMAIN runs
  /\ sent \in [Items -> Nat]

\* The effects implement ClaimOnce: one request per claim over any number of
\* crashes and recoveries, none after a refusal, and a confirmation is final.
PhaseOf(x) ==
  IF x[2] # "publication" THEN IF deliveries[x] = "none" THEN "free" ELSE "claimed"
  ELSE IF x[1] \notin DOMAIN runs THEN "free"
  ELSE IF runs[x[1]].outcome.intent THEN "claimed"
  ELSE IF runs[x[1]].outcome.decision = "admitted" THEN "free" ELSE "denied"
VerdictOf(x) ==
  IF x[2] # "publication"
  THEN CASE deliveries[x] = "confirmed" -> "confirmed"
         [] deliveries[x] = "unknown" -> "unconfirmed"
         [] OTHER -> "open"
  ELSE IF x[1] \notin DOMAIN runs \/ runs[x[1]].outcome.decision \in {"admitted", "publication_pending"}
  THEN "open"
  ELSE IF runs[x[1]].outcome.url THEN "confirmed" ELSE "unconfirmed"
Once == INSTANCE ClaimOnce WITH
          sends <- sent,
          phase <- [x \in Items |-> PhaseOf(x)], verdict <- [x \in Items |-> VerdictOf(x)]
EffectsOnce == Once!Spec

\* What the history calls published does exist at GitHub, and an issue is labelled as
\* rejected only where the comment with the reason exists.
PublishedExists ==
  /\ \A i \in DOMAIN runs : runs[i].outcome.decision \in Confirmed => Publication(i) \in made
  /\ \A x \in DOMAIN deliveries : deliveries[x] = "confirmed" => x \in made
  /\ \A i \in DOMAIN runs :
       runs[i].triage = "rejected" /\ Slots # {} /\ sent[<<i, "triage-label">>] > 0
         => <<i, "triage-comment">> \in made

\* No push brings an earlier head back: each is older than those a push puts after it.
Advancing(age) == \A s \in Shas : \A t \in Newer[s] : age[s] < age[t]

\* A review is claimed only for the newest head that the ledger has seen, even
\* when a push is admitted between the end of the review and its claim.
NewestHeadClaimed ==
  [][\A i, j \in DOMAIN runs :
       (/\ runs[i].trigger.kind = "pr_review" /\ runs[j].trigger.kind = "pr_review"
        /\ PrOf(i) = PrOf(j) /\ ShaOf(j) \in Newer[ShaOf(i)])
       => runs[i].outcome.intent \/ ~ runs'[i].outcome.intent]_pubVars

Pending(i) ==
  /\ i \in DOMAIN runs
  /\ \/ runs[i].outcome.decision = "publication_pending"
     \/ \E slot \in Slots : deliveries[<<i, slot>>] = "attempted"
\* A claimed publication or notice does not stay pending: its task, or the recovery after
\* a crash, settles it, unless the ledger refused the settlement itself.
PendingSettles ==
  \A i \in Ids : (up /\ Pending(i)) ~> (~ up \/ i \in spent.lost \/ ~ Pending(i))

\* "An unavailable, incomplete or empty lookup leaves publication_unknown"
\* (docs/user-guide/automations.md:344): once a request may have left, only a
\* pull request that was found changes the verdict.
UncertaintyKept ==
  \A i \in DOMAIN runs :
    runs[i].trigger.kind = "event" /\ sent[Publication(i)] > 0
      => runs[i].outcome.decision \in {"publication_pending", "publication_unknown", "published"}

=============================================================================
