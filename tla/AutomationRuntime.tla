-------------------------- MODULE AutomationRuntime --------------------------
(***************************************************************************)
(* The process that owns the ledger: the runtime loop (runtime.rs), its     *)
(* completion monitor (completion.rs), one dispatch task for each admitted  *)
(* run (dispatcher.rs), the agents the tasks launch, edits of               *)
(* automations.json, and a crash followed by the next owner's recovery.     *)
(* Ledger mutations are the actions of RunLedger, so that every step here   *)
(* is a step of that specification.                                         *)
(*                                                                          *)
(* A step ends where the code awaits, reads another store or commits a      *)
(* transaction; between two steps anything else may happen.                 *)
(***************************************************************************)
EXTENDS RunLedger, FiniteSetsExt

CONSTANTS
  Duration,   \* definition.max_duration_secs
  Schedule,   \* occurrences of each definition's schedule
  IntakeDef,  \* event_intake.definition_id
  AgentMoves, \* what a live agent does, as the session maps show it
  Troubles    \* bound: how many crashes of the owner, edits of automations.json and
              \* faults (failing stops of an agent and ledger writes) one behaviour has

\* What the monitor may ask the ledger for: classify's answers, and a deadline.
Verdicts == {"running", "needs_you", "completed", "failed", "unknown", "timed_out"}

ASSUME RuntimeAssumption ==
  /\ Duration \in Nat \ {0}
  \* bound: every occurrence finds a row, so that no tick waits for one.
  /\ Schedule \in [Defs -> SUBSET (0..MaxTime)]
  /\ Cardinality(UNION {{d} \X Schedule[d] : d \in Defs}) <= MaxRuns
  /\ IntakeDef \in Defs
  /\ AgentMoves \subseteq {"working", "awaiting", "reported", "exit_zero", "exit_nonzero", "gone"}
  /\ Troubles \subseteq [crashes : Nat, edits : Nat, faults : Nat]
  \* The monitor compares the stamps of its copies; what its callers ask for.
  /\ KeepStamps /\ Revs # {}
  /\ Verdicts \cup {"prechecking", "skipped_precheck"} \subseteq Targets

VARIABLES
  config,    \* automations.json: present, enabled, rev of each definition
  up,        \* the process runs and owns the ledger
  loop,      \* the runtime loop and its monitor
  task,      \* dispatch task of each run
  child,     \* agent launched for each run, as the session maps report it
  deadline,  \* deadline_ms of each row
  launched,  \* history: launches of each run
  spent      \* history: crashes, edits and faults so far; the runs whose task gave
             \* up because its last write failed, or could not stop its child

rtVars == <<vars, config, up, loop, task, child, deadline, launched, spent>>

TaskState  == {"none", "admitted", "queued", "claimed", "resolving", "resolved",
               "checking", "ready", "launching", "launched", "unbound", "failing", "done"}
Live       == {"working", "awaiting", "reported"}
ChildState == {"none", "exit_zero", "exit_nonzero", "gone", "stopped"} \cup Live
LoopState  == {"select", "reconcile", "apply", "prune", "tick", "intake"}

Active(i) == task[i] \notin {"none", "done"}
Idle      == [pc |-> "select", timer |-> FALSE, now |-> 0, view |-> <<>>, next |-> "none"]

\* bound: one more trouble of this kind stays within one of the Troubles.
Spare(kind) ==
  \E t \in Troubles : /\ spent.crashes <= t.crashes /\ spent.edits <= t.edits
                     /\ spent.faults <= t.faults /\ spent[kind] < t[kind]

\* A call of another component or a ledger write that returns an error.
Fault == Spare("faults") /\ spent' = [spent EXCEPT !.faults = @ + 1]

-----------------------------------------------------------------------------
(* Admission.  A reserved row gets its deadline; its task is spawned at once  *)
(* by Run Now, and at the end of the wake by the loop.  A crash between the   *)
(* commit and the spawn is the crash of an admitted task.                     *)

Reserved(i) == i \in (DOMAIN runs') \ (DOMAIN runs) /\ runs'[i].status = "reserved"
\* Slip: the duration is subtracted.
EnterEarly(state) ==
  /\ deadline' = [i \in Ids |-> IF Reserved(i) THEN clock - Duration ELSE deadline[i]]
  /\ task' = [i \in Ids |-> IF Reserved(i) THEN state ELSE task[i]]
Enter(state) ==
  /\ deadline' = [i \in Ids |-> IF Reserved(i) THEN clock + Duration ELSE deadline[i]]
  /\ task' = [i \in Ids |-> IF Reserved(i) THEN state ELSE task[i]]
Loaded(d) == [id |-> d, enabled |-> config[d].enabled, rev |-> config[d].rev]

\* bound: Run Now and intake leave a row for each occurrence still to be decided.
Undecided == UNION {{d} \X {o \in Schedule[d] : o > cursors[d]} : d \in Defs}
Room      == Len(runs) + Cardinality(Undecided) < MaxRuns

\* Dispatcher::run_now, from any HTTP, IPC or MCP caller of the owning process.
RunNow(d) ==
  /\ up /\ config[d].present /\ Room
  /\ AdmitManual(Loaded(d))
  /\ Enter("queued")
  /\ UNCHANGED <<clock, config, up, loop, child, launched, spent>>

-----------------------------------------------------------------------------
(* The runtime loop: reconcile, then intake, then on a timer prune and tick.  *)

\* open_runs: the monitor works on copies of the rows from here on.
Wake(timer) ==
  /\ up /\ loop.pc = "select"
  /\ loop' = [pc |-> "reconcile", timer |-> timer, now |-> clock, next |-> "none",
              view |-> [i \in {j \in OpenRows : runs[j].trigger.kind # "pr_review"} |->
                         [status |-> runs[i].status, bound |-> runs[i].bound,
                          updated |-> runs[i].updated]]]
  /\ UNCHANGED <<vars, config, up, task, child, deadline, launched, spent>>

Viewed        == DOMAIN loop.view
First         == Min(Viewed)
Without(f, i) == [j \in DOMAIN f \ {i} |-> f[j]]

\* classify, on what the session maps, the task and the progress log say now.
Classify(i) ==
  IF child[i] \in {"none", "gone", "stopped"} THEN "unknown"
  ELSE CASE child[i] = "exit_nonzero" -> "failed"
         [] child[i] \in {"exit_zero", "reported"} -> "completed"
         [] child[i] = "awaiting" -> "needs_you"
         [] child[i] = "working" -> "running"

\* Slip: only a run whose agent works can expire.
ExpiredRunning(i) == loop.view[i].bound /\ loop.now >= deadline[i]
Expired(i) == loop.now >= deadline[i]

\* NativeCompletion::stop acts on the binding the copy holds, if it holds one.
StopsChild(i) == loop.view[i].bound /\ child[i] \in Live

Skip(i) == loop' = [loop EXCEPT !.view = Without(@, i)]
Decide(i, next) ==
  IF next = loop.view[i].status THEN Skip(i)
  ELSE loop' = [loop EXCEPT !.pc = "apply", !.next = next]

Observe ==
  /\ up /\ loop.pc = "reconcile" /\ Viewed # {}
  /\ LET i == First IN
     \/ /\ Expired(i)
        /\ child' = IF StopsChild(i) THEN [child EXCEPT ![i] = "stopped"] ELSE child
        /\ Decide(i, "timed_out")
        /\ UNCHANGED spent
     \/ /\ Expired(i) /\ StopsChild(i) /\ Fault
        /\ Skip(i)                        \* collected, retried at a later wake
        /\ UNCHANGED child
     \/ /\ ~ Expired(i)
        /\ IF loop.view[i].status \in {"running", "needs_you"}
           THEN Decide(i, Classify(i)) ELSE Skip(i)
        /\ UNCHANGED <<child, spent>>
  /\ UNCHANGED <<vars, config, up, task, deadline, launched>>

\* The transition, at the reading the monitor took before it read the rows.  An
\* error ends this reconciliation: the rows not visited wait for the next wake.
Apply ==
  /\ up /\ loop.pc = "apply"
  /\ LET i     == First
         now   == Latest(loop.now, loop.view[i].updated)
         abort == /\ loop' = [loop EXCEPT !.pc = "reconcile", !.next = "none", !.view = <<>>]
                  /\ UNCHANGED ledger
     IN  \/ TransitionError(i, loop.next, now) /\ abort /\ UNCHANGED spent
         \/ Fault /\ abort
         \/ /\ Transition(i, loop.next, FALSE, now)
            /\ loop' = [loop EXCEPT !.pc = "reconcile", !.next = "none",
                                    !.view = Without(@, i)]
            /\ UNCHANGED spent
  /\ UNCHANGED <<clock, config, up, task, child, deadline, launched>>

\* Slip: the reason of the wake is forgotten while reconciling.
EndReconcileForgets ==
  /\ up /\ loop.pc = "reconcile" /\ Viewed = {}
  /\ loop' = [Idle EXCEPT !.pc = "intake"]
  /\ UNCHANGED <<vars, config, up, task, child, deadline, launched, spent>>
EndReconcile ==
  /\ up /\ loop.pc = "reconcile" /\ Viewed = {}
  /\ loop' = [Idle EXCEPT !.pc = "intake", !.timer = loop.timer]
  /\ UNCHANGED <<vars, config, up, task, child, deadline, launched, spent>>

\* The tasks of the rows that this wake reserved are spawned when it ends.
Released(state) == IF state = "admitted" THEN "queued" ELSE state

\* admit_issues on the poller's snapshot: any issue it may hold.
Intake ==
  /\ up /\ loop.pc = "intake"
  /\ config[IntakeDef].present /\ Room
  /\ \E issue \in Issues :
       LET trigger == [kind |-> "event", key |-> issue] IN
       \/ AdmitEvent(Loaded(IntakeDef), trigger)
       \/ \E reason \in FilterReasons : RecordEventRefusal(Loaded(IntakeDef), trigger, reason)
  /\ Enter("admitted")
  /\ UNCHANGED <<clock, config, up, loop, child, launched, spent>>

EndIntake ==
  /\ up /\ loop.pc = "intake"
  /\ IF loop.timer
     THEN loop' = [loop EXCEPT !.pc = "prune"] /\ UNCHANGED task
     ELSE loop' = Idle /\ task' = [i \in Ids |-> Released(task[i])]
  /\ UNCHANGED <<vars, config, up, child, deadline, launched, spent>>

\* reserve_due, first half: retention.
PruneStep ==
  /\ up /\ loop.pc = "prune"
  /\ Prune
  /\ loop' = [loop EXCEPT !.pc = "tick"]
  /\ UNCHANGED <<clock, config, up, task, child, deadline, launched, spent>>

\* reserve_due, second half: scheduler::tick on every enabled definition.
Due(d) == {o \in Schedule[d] : o <= clock}
TickStep ==
  /\ up /\ loop.pc = "tick"
  /\ LET D   == {d \in Defs : config[d].present /\ config[d].enabled /\ Due(d) # {}}
         due == [d \in D |-> Max(Due(d))]
         all == [d \in Defs |-> Loaded(d)]
     IN  \/ AdmitBatch(all, due) /\ UNCHANGED spent
         \/ Fault /\ UNCHANGED ledger    \* the other admissions still dispatch
  /\ deadline' = [i \in Ids |-> IF Reserved(i) THEN clock + Duration ELSE deadline[i]]
  /\ task' = [i \in Ids |-> IF Reserved(i) THEN "queued" ELSE Released(task[i])]
  /\ loop' = Idle
  /\ UNCHANGED <<clock, config, up, child, launched>>

-----------------------------------------------------------------------------
(* The dispatch task of run i (dispatcher.rs dispatch, dispatch_claimed).     *)

Step(i, from, to) == up /\ task[i] = from /\ task' = [task EXCEPT ![i] = to]
FailStep(i, from) == Step(i, from, "failing")
Quiet == UNCHANGED <<clock, config, up, loop, deadline>>   \* what no task step changes
NoEffect == UNCHANGED <<child, launched>>

\* require_current: the row is still prechecking and its definition, as the file
\* has it now, is the one admitted; Run Now overlays the enabled flag.
RequireCurrent(i) ==
  LET run == runs[i] IN
  /\ i \in Rows /\ run.status = "prechecking"
  /\ config[run.definition.id].present
  /\ config[run.definition.id].rev = run.definition.rev
  /\ run.trigger.kind # "manual" => config[run.definition.id].enabled

\* A transition asked for by the task; an error of the ledger fails the dispatch.
Save(i, next, binding, from, to, otherwise) ==
  \/ Step(i, from, to) /\ Transition(i, next, binding, clock) /\ UNCHANGED spent
  \/ Step(i, from, otherwise) /\ TransitionError(i, next, clock) /\ UNCHANGED <<ledger, spent>>
  \/ Fault /\ Step(i, from, otherwise) /\ UNCHANGED ledger

\* The write that would have ended or begun the dispatch failed.
GivesUp(i) ==
  /\ Spare("faults")
  /\ spent' = [spent EXCEPT !.faults = @ + 1, !.abandoned = @ \cup {i}]

\* claim_dispatch: a row no longer reserved ends the task without an effect.
Claim(i) ==
  /\ \/ Step(i, "queued", "claimed") /\ ClaimDispatch(i) /\ UNCHANGED spent
     \/ Step(i, "queued", "done") /\ ~ Claimable(i) /\ UNCHANGED <<ledger, spent>>
     \/ Step(i, "queued", "done") /\ GivesUp(i) /\ UNCHANGED ledger
  /\ NoEffect /\ Quiet

\* Each later phase first checks that the run is current, then awaits an effect.
Check(i, from, to) ==
  /\ task[i] = from
  /\ IF RequireCurrent(i) THEN Step(i, from, to) ELSE FailStep(i, from)
  /\ NoEffect /\ Quiet /\ UNCHANGED <<ledger, spent>>
StartWorkspace(i) == Check(i, "claimed", "resolving")
StartPrecheck(i)  == Check(i, "resolved", "checking")
StartLaunch(i)    == \/ Check(i, "ready", "launching")
                     \/ /\ FailStep(i, "ready")     \* the directory disappeared
                        /\ NoEffect /\ Quiet /\ UNCHANGED <<ledger, spent>>

WorkspaceReady(i) ==
  /\ \/ Save(i, "prechecking", FALSE, "resolving", "resolved", "failing")
     \/ FailStep(i, "resolving") /\ UNCHANGED <<ledger, spent>>  \* no such workspace
  /\ NoEffect /\ Quiet

\* The precheck passes, or Run Now bypasses it; or it refuses the run.
PrecheckDone(i) ==
  /\ \/ Save(i, "prechecking", FALSE, "checking", "ready", "failing")
     \/ /\ task[i] = "checking" /\ runs[i].trigger.kind # "manual"
        /\ Save(i, "skipped_precheck", FALSE, "checking", "done", "failing")
  /\ NoEffect /\ Quiet

\* The effect: a session (or a workflow) now works for this run.
Launch(i) ==
  /\ \/ /\ Step(i, "launching", "launched")
        /\ child' = [child EXCEPT ![i] = "working"]
        /\ launched' = [launched EXCEPT ![i] = @ + 1]
     \/ FailStep(i, "launching") /\ NoEffect
  /\ Quiet /\ UNCHANGED <<ledger, spent>>

\* Slip: a launch that could not be saved is launched again.
BindRetry(i) ==
  /\ task[i] = "launched"
  /\ Save(i, "running", TRUE, "launched", IF IsOpen(i) THEN "done" ELSE "unbound", "ready")
  /\ NoEffect /\ Quiet
\* Slip: the child of a run that became final is forgotten.
BindForgets(i) ==
  /\ task[i] = "launched"
  /\ Save(i, "running", TRUE, "launched", IF IsOpen(i) THEN "done" ELSE "failing", "failing")
  /\ NoEffect /\ Quiet

\* The binding is saved, unless a final transition came first: it then returns
\* the row as saved, and the task has to stop the child it owns.
Bind(i) ==
  /\ task[i] = "launched"
  /\ Save(i, "running", TRUE, "launched", IF IsOpen(i) THEN "done" ELSE "unbound", "unbound")
  /\ NoEffect /\ Quiet

\* effects.stop: its error ends the dispatch with the child still there.
StopOwn(i) ==
  /\ FailStep(i, "unbound")
  /\ \/ /\ child' = [child EXCEPT ![i] = IF @ \in Live THEN "stopped" ELSE @]
        /\ UNCHANGED spent
     \/ /\ Spare("faults")
        /\ spent' = [spent EXCEPT !.faults = @ + 1, !.orphans = @ \cup {i}]
        /\ UNCHANGED child
  /\ Quiet /\ UNCHANGED <<ledger, launched>>

\* Slip: the error is written over whatever the row became meanwhile.
FailOverwrites(i) ==
  /\ Step(i, "failing", "done")
  /\ runs' = [runs EXCEPT ![i].status = "failed", ![i].updated = clock]
  /\ UNCHANGED <<pruned, cursors, heads, keys, decisions, deliveries, spent>>
  /\ NoEffect /\ Quiet

\* dispatch records the error; if the ledger refuses, the row stays as it is.
Fail(i) ==
  /\ Step(i, "failing", "done")
  /\ \/ Transition(i, "failed", FALSE, clock) /\ UNCHANGED spent
     \/ /\ TransitionError(i, "failed", clock) /\ UNCHANGED ledger
        /\ spent' = [spent EXCEPT !.abandoned = @ \cup {i}]
     \/ GivesUp(i) /\ UNCHANGED ledger
  /\ NoEffect /\ Quiet

Dispatch(i) ==
  \/ Claim(i) \/ StartWorkspace(i) \/ WorkspaceReady(i) \/ StartPrecheck(i)
  \/ PrecheckDone(i) \/ StartLaunch(i) \/ Launch(i) \/ Bind(i) \/ StopOwn(i) \/ Fail(i)

-----------------------------------------------------------------------------
(* Agents, edits, time, crash and recovery. *)

\* Everything the operator and the agent may do to a live session.
Agent(i) ==
  /\ up /\ child[i] \in Live
  /\ \E next \in AgentMoves \ {child[i]} :
       /\ child[i] = "reported" => next \notin Live   \* the newest report counts
       /\ child' = [child EXCEPT ![i] = next]
  /\ UNCHANGED <<vars, config, up, loop, task, deadline, launched, spent>>

\* pause, resume, edit or delete: Definitions::update writes the file.
Edit(d) ==
  /\ Spare("edits") /\ config[d].present
  /\ spent' = [spent EXCEPT !.edits = @ + 1]
  /\ \/ config' = [config EXCEPT ![d].enabled = ~ @]
     \/ \E rev \in Revs \ {config[d].rev} : config' = [config EXCEPT ![d].rev = rev]
     \/ config' = [config EXCEPT ![d].present = FALSE]
  /\ UNCHANGED <<vars, up, loop, task, child, deadline, launched>>

\* The tasks and the sessions of the process die with it.
Crash ==
  /\ up /\ Spare("crashes")
  /\ spent' = [spent EXCEPT !.crashes = @ + 1]
  /\ up' = FALSE /\ loop' = Idle
  /\ task' = [i \in Ids |-> "none"]
  /\ child' = [i \in Ids |-> IF child[i] \in Live THEN "gone" ELSE child[i]]
  /\ UNCHANGED <<vars, config, deadline, launched>>

\* Slip: the next owner leaves the open rows as they are.
RestartOnly ==
  /\ ~ up /\ up' = TRUE
  /\ UNCHANGED <<vars, config, loop, task, child, deadline, launched, spent>>

\* RunOwner::acquire_at: the next process takes the lock and interrupts open runs.
Restart ==
  /\ ~ up /\ up' = TRUE
  /\ InterruptOpen
  /\ UNCHANGED <<clock, config, loop, task, child, deadline, launched, spent>>

Time == (Tick \/ StepBack)
        /\ UNCHANGED <<config, up, loop, task, child, deadline, launched, spent>>

RtInit ==
  /\ Init
  /\ config = [d \in Defs |-> [present |-> TRUE, enabled |-> TRUE,
                               rev |-> CHOOSE r \in Revs : TRUE]]
  /\ up = TRUE /\ loop = Idle
  /\ task = [i \in Ids |-> "none"] /\ child = [i \in Ids |-> "none"]
  /\ deadline = [i \in Ids |-> 0] /\ launched = [i \in Ids |-> 0]
  /\ spent = [crashes |-> 0, edits |-> 0, faults |-> 0, orphans |-> {}, abandoned |-> {}]

LoopStep ==
  \/ Wake(TRUE) \/ Wake(FALSE) \/ Observe \/ Apply \/ EndReconcile
  \/ EndIntake \/ PruneStep \/ TickStep

RtNext ==
  \/ LoopStep \/ Intake
  \/ \E d \in Defs : RunNow(d) \/ Edit(d)
  \/ \E i \in Ids : Dispatch(i) \/ Agent(i)
  \/ Crash \/ Restart \/ Time

\* The async runtime keeps polling ready tasks.  The interval timer keeps firing
\* and select! draws among its ready branches at random, so a busy bus does not
\* starve it: strong fairness.  Nothing forces an agent, an operator, a crash or
\* a restart.  Each disjunct names the states its steps start from, and each
\* subscript the variable that they all change.
LoopRuns ==
  \/ loop.pc = "reconcile" /\ (Observe \/ EndReconcile)
  \/ loop.pc = "apply"     /\ Apply
  \/ loop.pc = "intake"    /\ EndIntake
  \/ loop.pc \in {"prune", "tick"} /\ (PruneStep \/ TickStep)
TaskRuns(i) ==
  \/ task[i] = "queued" /\ Claim(i)
  \/ task[i] \in {"claimed", "resolved", "ready"}
     /\ (StartWorkspace(i) \/ StartPrecheck(i) \/ StartLaunch(i))
  \/ task[i] \in {"resolving", "checking"} /\ (WorkspaceReady(i) \/ PrecheckDone(i))
  \/ task[i] \in {"launching", "launched"} /\ (Launch(i) \/ Bind(i))
  \/ task[i] \in {"unbound", "failing"} /\ (StopOwn(i) \/ Fail(i))
Fairness ==
  /\ WF_loop(LoopRuns)
  /\ SF_loop(loop.pc = "select" /\ Wake(TRUE))
  /\ \A i \in Ids : WF_task(TaskRuns(i))
  /\ WF_clock(Tick /\ Time)

RtSpec == RtInit /\ [][RtNext]_rtVars /\ Fairness

-----------------------------------------------------------------------------
(* Properties. *)

\* The shape of the runtime's state.
TypeRT ==
  /\ config \in [Defs -> [present : BOOLEAN, enabled : BOOLEAN, rev : Revs]]
  /\ up \in BOOLEAN
  /\ loop.pc \in LoopState /\ loop.timer \in BOOLEAN /\ Viewed \subseteq DOMAIN runs
  /\ loop.next \in Status \cup {"none"}
  /\ task \in [Ids -> TaskState] /\ child \in [Ids -> ChildState]
  /\ deadline \in [Ids -> Nat] /\ launched \in [Ids -> Nat]
  /\ spent.orphans \subseteq Ids /\ spent.abandoned \subseteq Ids

\* No run launches twice, whatever tasks, wakes, crashes and restarts do, and a
\* row that ended as refused, missed or skipped by its precheck never launched.
LaunchDiscipline ==
  \A i \in DOMAIN runs :
    /\ launched[i] <= 1
    /\ runs[i].status \in Refusals \cup {"skipped_missed", "skipped_precheck"}
       => launched[i] = 0

\* An agent whose session was not saved in its row does not outlive the dispatch:
\* the task that launched it stops it, unless that stop itself failed.
NoUnboundSurvivor ==
  \A i \in DOMAIN runs :
    child[i] \in Live /\ ~ runs[i].bound =>
      task[i] \in {"launched", "unbound"} \/ i \in spent.orphans

\* Every open run has somebody at work: before the launch its dispatch task, then
\* the bound agent.  A crash breaks this until the next owner's recovery, and only
\* a failed write (or a clock stepped back) leaves a row to its deadline.
OpenRunIsTended ==
  up => \A i \in OpenRows :
    IF runs[i].status \in {"running", "needs_you"}
    THEN runs[i].bound /\ launched[i] = 1
    ELSE Active(i) \/ i \in spent.abandoned

\* "Maximum duration expired; owned session stopped" (completion.rs:73): a run that
\* timed out leaves no agent behind, unless its own task still has to stop it.
TimedOutMeansStopped ==
  \A i \in DOMAIN runs :
    runs[i].status = "timed_out" /\ child[i] \in Live =>
      task[i] \in {"launched", "unbound"} \/ i \in spent.orphans

\* Every open run reaches a final status by itself once its deadline is over: a
\* lost task, a failed write or a silent agent never holds its slot forever.  (Said
\* of all the rows at once: a final row stays final and the rows are bounded, so
\* none is held exactly when a set of overdue open rows always empties again.)
Overdue == {i \in OpenRows : deadline[i] <= MaxTime}
OpenRunSettles == (up /\ Overdue # {}) ~> (~ up \/ Overdue = {})

\* A due occurrence of an enabled definition is decided, with whatever outcome: a
\* reconciliation of another open row of the definition, its errors, a slot that
\* stays busy, events, Run Now, edits and failed ticks do not make the timer lose it.
DueIsDecided ==
  \A d \in Defs : \A o \in Schedule[d] :
    (up /\ clock >= o)
      ~> \/ ~ up \/ cursors[d] >= o
         \/ ~ config[d].present \/ ~ config[d].enabled

=============================================================================
