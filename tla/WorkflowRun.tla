----------------------------- MODULE WorkflowRun -----------------------------
(***************************************************************************)
(* The life of one workflow run (workflows/run/): the durable run with its  *)
(* attempts, spawn effects, questions and receipts; the run actor           *)
(* (runtime.rs) with the launch of an agent as a task of its own, which     *)
(* continues when the actor lets go of it; the managed agents, which        *)
(* report, ask, and exit; the operator; and a daemon that dies and          *)
(* reconciles the run when it comes back (store.rs).                        *)
(*                                                                          *)
(* The graph is a row of agent steps, each with one attempt.  A command     *)
(* commits only if the run has not moved since the command read it: fresh   *)
(* holds the readers whose snapshot is still the latest.                    *)
(***************************************************************************)
EXTENDS Naturals, FiniteSets

CONSTANTS
  N,          \* number of agent steps of the graph
  MaxGen,     \* bound: generations of an attempt, one question less
  MaxCrash    \* bound: deaths of the daemon

ASSUME WorkflowAssumption == N \in Nat \ {0} /\ MaxGen \in Nat \ {0} /\ MaxCrash \in Nat

Steps == 1..N
Tick  == 0        \* the timer commit beside an effect, as a reader
View  == N + 1    \* the actor's snapshot, as a reader

VARIABLES
  run,      \* status, expired deadline, receipt reconcile-run
  node,     \* node[s]: state of the activation of step s
  att,      \* att[s]: the attempt of step s
  eff,      \* eff[s]: the spawn effect of the attempt of s
  ques,     \* ques[s]: the question of the attempt, and whether its deadline passed
  rid,      \* rid[s]: generations whose agent-report command has a receipt
  proc,     \* proc[s]: the agent process launched for s
  told,     \* told[s]: the last generation the agent was given work for
  inbox,    \* inbox[s]: generation of the answer that waits in the agent's inbox
  task,     \* task[s]: the launch of the agent of s
  actor,    \* the run actor: where it is, its step, its wake permit
  fresh,    \* readers whose snapshot is the latest
  count     \* history: launches, answers handed over, crashes

durable == <<run, node, att, eff, ques, rid>>
agents  == <<proc, told, inbox>>
wfVars  == <<durable, agents, task, actor, fresh, count>>

Running == run.status = "running"
Paused  == run.status = "paused"
Over    == run.status \in {"cancelled"}
Up      == actor.pc \notin {"down", "recover"}

NoAttempt == [st |-> "none", out |-> "none", gen |-> 0, bound |-> FALSE, cont |-> "none"]

\* Every commit leaves all earlier snapshots behind.
Moves == fresh' = {}
\* emit_run_changed: the cursor, then one permit for the actor.
Wakes == actor' = [actor EXCEPT !.permit = Up]

-----------------------------------------------------------------------------
(* The deterministic turn: one transaction after another (drive_turn). *)

FireDue(s) == ques[s].st = "pending" /\ ques[s].due

AttemptDecides(s) ==
  \/ att[s].st = "none"
  \/ att[s].out \in {"completed", "failed", "interrupted"}

Ready(s)      == node[s] = "ready"
TurnActs == \/ \E s \in Steps : FireDue(s)
            \/ Running /\ (run.expired \/ \E s \in Steps : Ready(s) \/ (node[s] = "running" /\ AttemptDecides(s)))

TurnFires(s) ==
  /\ actor.pc = "turn" /\ ~ Over /\ FireDue(s)
  /\ ques' = [ques EXCEPT ![s] = [@ EXCEPT !.st = "timed_out"]] /\ Moves
  /\ UNCHANGED <<run, node, att, eff, rid, agents, task, actor, count>>

TurnExpires ==
  /\ actor.pc = "turn" /\ Running /\ run.expired
  /\ run' = [run EXCEPT !.status = "paused"] /\ Moves
  /\ UNCHANGED <<node, att, eff, ques, rid, agents, task, actor, count>>

Turning == actor.pc = "turn" /\ Running /\ ~ run.expired

Activates(s) ==
  /\ Turning /\ Ready(s)
  /\ node' = [node EXCEPT ![s] = "running"] /\ Moves
  /\ UNCHANGED <<run, att, eff, ques, rid, agents, task, actor, count>>

StartsAttempt(s) ==
  /\ Turning /\ node[s] = "running" /\ att[s].st = "none"
  /\ att' = [att EXCEPT ![s] = [NoAttempt EXCEPT !.st = "running", !.gen = 1]] /\ Moves
  /\ UNCHANGED <<run, node, eff, ques, rid, agents, task, actor, count>>

CompletesStep(s) ==
  /\ Turning /\ node[s] = "running" /\ att[s].out = "completed"
  /\ node' = [t \in Steps |-> IF t = s THEN "done" ELSE IF t = s + 1 THEN "ready" ELSE node[t]]
  /\ Moves
  /\ UNCHANGED <<run, att, eff, ques, rid, agents, task, actor, count>>

\* A step whose attempt failed or was interrupted holds the run.
PausesIncomplete(s) ==
  /\ Turning /\ node[s] = "running" /\ att[s].out \in {"failed", "interrupted"}
  /\ run' = [run EXCEPT !.status = "paused"] /\ Moves
  /\ UNCHANGED <<node, att, eff, ques, rid, agents, task, actor, count>>

-----------------------------------------------------------------------------
(* The end of a turn and the effect that its snapshot calls for. *)

Current(s) == node[s] = "running" /\ att[s].st = "running"
TurnEnds == actor.pc = "turn" /\ (Over \/ ~ TurnActs)

\* Nothing to run: the actor is paused or finished, or its agent works.
Rests ==
  /\ TurnEnds
  /\ actor' = [actor EXCEPT !.changed = FALSE, !.pc =
       IF Over THEN "ended" ELSE IF Running THEN "idle" ELSE "wait"]
  /\ ~ (Running /\ \E s \in Steps : Current(s) /\ (~ att[s].bound \/ att[s].cont \in {"pending", "started"}))
  /\ fresh' = fresh \cup {View}
  /\ UNCHANGED <<durable, agents, task, count>>

\* Slip: an intent that failed may be reserved again.
ReservesAgain(s) ==
  /\ TurnEnds /\ Running /\ Current(s) /\ ~ att[s].bound /\ eff[s] \in {"none", "failed"}
  /\ eff' = [eff EXCEPT ![s] = "intended"] /\ task' = [task EXCEPT ![s] = "check"]
  /\ actor' = [actor EXCEPT !.pc = "driving", !.step = s, !.permit = TRUE] /\ Moves
  /\ UNCHANGED <<run, node, att, ques, rid, agents, count>>

\* spawn_agent: the intent is reserved under its only key, then the launch begins.
Reserves(s) ==
  /\ TurnEnds /\ Running /\ Current(s) /\ ~ att[s].bound /\ eff[s] = "none"
  /\ eff' = [eff EXCEPT ![s] = "intended"] /\ task' = [task EXCEPT ![s] = "check"]
  /\ actor' = [actor EXCEPT !.pc = "driving", !.step = s, !.permit = TRUE] /\ Moves
  /\ UNCHANGED <<run, node, att, ques, rid, agents, count>>

\* spawn_agent: an intent that exists is never retried.
RefusesSpawn(s) ==
  /\ TurnEnds /\ Running /\ Current(s) /\ ~ att[s].bound /\ eff[s] # "none"
  /\ actor' = [actor EXCEPT !.pc = "failing"]
  /\ UNCHANGED <<durable, agents, task, fresh, count>>

\* deliver: an answer that was not handed over yet is marked, then handed over.
StartsHandoff(s) ==
  /\ TurnEnds /\ Running /\ Current(s) /\ att[s].bound /\ att[s].cont = "pending"
  /\ IF proc[s] = "live"
     THEN /\ att' = [att EXCEPT ![s].cont = "started"] /\ Moves
          /\ actor' = [actor EXCEPT !.pc = "handoff", !.step = s]
     ELSE actor' = [actor EXCEPT !.pc = "failing"] /\ UNCHANGED <<att, fresh>>
  /\ UNCHANGED <<run, node, eff, ques, rid, agents, task, count>>

\* deliver: only the entry that is still in the inbox proves a handover that was marked.
ProvesHandoff(s) ==
  /\ TurnEnds /\ Running /\ Current(s) /\ att[s].bound /\ att[s].cont = "started"
  /\ IF inbox[s] = att[s].gen
     THEN /\ att' = [att EXCEPT ![s].cont = "delivered"] /\ Moves /\ UNCHANGED actor
     ELSE actor' = [actor EXCEPT !.pc = "failing"] /\ UNCHANGED <<att, fresh>>
  /\ UNCHANGED <<run, node, eff, ques, rid, agents, task, count>>

HandsOver ==
  LET s == actor.step IN
  /\ actor.pc = "handoff"
  /\ IF proc[s] = "live"
     THEN /\ inbox' = [inbox EXCEPT ![s] = att[s].gen]
          /\ count' = [count EXCEPT !.handed[s] = @ + 1]
          /\ actor' = [actor EXCEPT !.pc = "marking"] /\ fresh' = fresh \cup {View}
     ELSE actor' = [actor EXCEPT !.pc = "failing"] /\ UNCHANGED <<inbox, count, fresh>>
  /\ UNCHANGED <<durable, proc, told, task>>

MarksDelivered ==
  LET s == actor.step IN
  /\ actor.pc = "marking" /\ actor' = [actor EXCEPT !.pc = "turn"]
  /\ IF View \in fresh
     THEN att' = [att EXCEPT ![s].cont = "delivered"] /\ Moves
     ELSE UNCHANGED <<att, fresh>>
  /\ UNCHANGED <<run, node, eff, ques, rid, agents, task, count>>

PauseFailure ==
  /\ actor.pc = "failing"
  /\ IF Running
     THEN /\ run' = [run EXCEPT !.status = "paused"] /\ Moves
          /\ actor' = [actor EXCEPT !.pc = "turn", !.permit = TRUE]
     ELSE actor' = [actor EXCEPT !.pc = "turn"] /\ UNCHANGED <<run, fresh>>
  /\ UNCHANGED <<node, att, eff, ques, rid, agents, task, count>>

\* The task of the actor's step is attached to it until the actor lets go of it.
Attached(s) == actor.pc = "driving" /\ actor.step = s
Results == {"ok", "err", "contended"}
Ends(s, r) == task' = [task EXCEPT ![s] = IF Attached(s) THEN r ELSE "none"]

-----------------------------------------------------------------------------
(* The select loop around an effect: wakes and timers are served beside it.  *)

DueSteps == {s \in Steps : FireDue(s)}
Due == IF Over THEN 0 ELSE IF Running /\ run.expired THEN View
       ELSE IF DueSteps = {} THEN 0 ELSE CHOOSE s \in DueSteps : \A t \in DueSteps : s <= t

\* Slip: the wake is consumed and forgotten.
InnerForgets ==
  /\ actor.pc \in {"idle", "driving"} /\ actor.tick = "none" /\ (actor.permit \/ Due # 0)
  /\ IF Due = 0
     THEN actor' = [actor EXCEPT !.permit = FALSE] /\ fresh' = fresh \cup {View}
     ELSE actor' = [actor EXCEPT !.permit = FALSE, !.tick = "due", !.op = Due] /\ fresh' = fresh \cup {Tick}
  /\ UNCHANGED <<durable, agents, task, count>>

\* A wake, or a timer: the run is read again, and remembered as changed if it moved.
InnerReads ==
  /\ actor.pc \in {"idle", "driving"} /\ actor.tick = "none" /\ (actor.permit \/ Due # 0)
  /\ IF Due = 0
     THEN /\ actor' = [actor EXCEPT !.permit = FALSE, !.changed = @ \/ View \notin fresh]
          /\ fresh' = fresh \cup {View}
     ELSE /\ actor' = [actor EXCEPT !.permit = FALSE, !.tick = "due", !.op = Due]
          /\ fresh' = fresh \cup {Tick}
  /\ UNCHANGED <<durable, agents, task, count>>

\* The timer command is still good: the deadline pauses the run, or a question times out.
InnerCommits ==
  /\ actor.tick = "due" /\ actor' = [actor EXCEPT !.tick = "none", !.op = 0, !.changed = TRUE]
  /\ \/ /\ actor.op = View /\ Running /\ run.expired
        /\ run' = [run EXCEPT !.status = "paused"] /\ UNCHANGED ques
     \/ /\ actor.op \in Steps /\ ~ Over /\ FireDue(actor.op)
        /\ ques' = [ques EXCEPT ![actor.op].st = "timed_out"] /\ UNCHANGED run
  /\ fresh' = {View}
  /\ UNCHANGED <<node, att, eff, rid, agents, task, count>>

StillDue == \/ actor.op = View /\ Running /\ run.expired
            \/ actor.op \in Steps /\ ~ Over /\ FireDue(actor.op)

\* The run moved under the timer command: the effect is dropped with the error, and a
\* launch goes on without the actor.
InnerFails ==
  /\ actor.tick = "due" /\ Tick \notin fresh
  /\ \E pc \in IF StillDue THEN {"turn"} ELSE {"turn", "failing"} :
       actor' = [actor EXCEPT !.tick = "none", !.op = 0, !.pc = pc]
  /\ task' = [s \in Steps |-> IF Attached(s) /\ task[s] \in Results THEN "none" ELSE task[s]]
  /\ UNCHANGED <<durable, agents, fresh, count>>

\* The effect had nothing to do: the actor looks again if the run moved, or sleeps.
IdleEnds ==
  /\ actor.pc = "idle" /\ actor.tick = "none"
  /\ actor' = [actor EXCEPT !.pc = IF actor.changed THEN "turn" ELSE "wait"]
  /\ UNCHANGED <<durable, agents, task, fresh, count>>

WakesUp ==
  /\ actor.pc = "wait" /\ (actor.permit \/ Due # 0)
  /\ actor' = [actor EXCEPT !.pc = "turn", !.permit = FALSE]
  /\ UNCHANGED <<durable, agents, task, fresh, count>>

\* spawn_agent takes the result of its launch: a failure closes the intent of a running run.
TakesResult ==
  LET s == actor.step
      close == task[s] # "ok" /\ Running /\ eff[s] = "intended"
  IN /\ actor.pc = "driving" /\ actor.tick = "none" /\ task[s] \in Results
     /\ task' = [task EXCEPT ![s] = "none"]
     /\ actor' = [actor EXCEPT !.pc = IF task[s] = "err" THEN "failing" ELSE "turn"]
     /\ eff' = IF close THEN [eff EXCEPT ![s] = "failed"] ELSE eff
     /\ fresh' = IF close THEN {} ELSE fresh
     /\ UNCHANGED <<run, node, att, ques, rid, agents, count>>

-----------------------------------------------------------------------------
(* The launch of an agent (launch_workflow_effect). *)

Bindable(s) == ~ Over /\ att[s].st = "running" /\ ~ att[s].bound /\ eff[s] = "intended"

LaunchReads(s) ==
  /\ task[s] = "check"
  /\ IF Running /\ Bindable(s) THEN task' = [task EXCEPT ![s] = "recheck"] ELSE Ends(s, "err")
  /\ UNCHANGED <<durable, agents, actor, fresh, count>>

LaunchExpires(s) ==
  /\ task[s] = "recheck" /\ Running /\ run.expired
  /\ run' = [run EXCEPT !.status = "paused"] /\ Moves
  /\ UNCHANGED <<node, att, eff, ques, rid, agents, task, actor, count>>

\* The last look before the process starts; a run that was paused closes the intent.
LaunchRechecks(s) ==
  /\ task[s] = "recheck" /\ ~ (Running /\ run.expired)
  /\ IF Running THEN task' = [task EXCEPT ![s] = "spawn"] ELSE Ends(s, "err")
  /\ IF Paused /\ eff[s] = "intended"
     THEN eff' = [eff EXCEPT ![s] = "failed"] /\ Moves /\ Wakes
     ELSE UNCHANGED <<eff, fresh, actor>>
  /\ UNCHANGED <<run, node, att, ques, rid, agents, count>>

Spawns(s) ==
  /\ task[s] = "spawn" /\ task' = [task EXCEPT ![s] = "bind"]
  /\ proc' = [proc EXCEPT ![s] = "live"] /\ told' = [told EXCEPT ![s] = 1]
  /\ count' = [count EXCEPT !.launches[s] = @ + 1]
  /\ UNCHANGED <<durable, inbox, actor, fresh>>

SpawnFails(s) ==
  /\ task[s] = "spawn" /\ Ends(s, "err")
  /\ IF ~ Over /\ eff[s] = "intended"
     THEN eff' = [eff EXCEPT ![s] = "failed"] /\ Moves /\ Wakes
     ELSE UNCHANGED <<eff, fresh, actor>>
  /\ UNCHANGED <<run, node, att, ques, rid, agents, count>>

BindReads(s) ==
  /\ task[s] = "bind"
  /\ IF Bindable(s) THEN task' = [task EXCEPT ![s] = "commit"] /\ fresh' = fresh \cup {s}
     ELSE task' = [task EXCEPT ![s] = "kill"] /\ UNCHANGED fresh
  /\ UNCHANGED <<durable, agents, actor, count>>

\* Slip: the binding leaves its intent open.
BindLeavesIntent(s) ==
  /\ task[s] = "commit"
  /\ IF s \in fresh
     THEN att' = [att EXCEPT ![s].bound = TRUE] /\ task' = [task EXCEPT ![s] = "verify"] /\ Moves /\ Wakes
     ELSE task' = [task EXCEPT ![s] = "kill_contended"] /\ UNCHANGED <<att, fresh, actor>>
  /\ UNCHANGED <<run, node, eff, ques, rid, agents, count>>

\* bind_agent; a run that moved since it was read refuses the binding.
BindCommits(s) ==
  /\ task[s] = "commit"
  /\ IF s \in fresh
     THEN /\ att' = [att EXCEPT ![s].bound = TRUE] /\ eff' = [eff EXCEPT ![s] = "succeeded"]
          /\ task' = [task EXCEPT ![s] = "verify"] /\ Moves /\ Wakes
     ELSE task' = [task EXCEPT ![s] = "kill_contended"] /\ UNCHANGED <<att, eff, fresh, actor>>
  /\ UNCHANGED <<run, node, ques, rid, agents, count>>

\* Slip: a binding that was refused leaves the child running.
LeavesUnbound(s) ==
  /\ task[s] \in {"kill", "kill_contended"}
  /\ Ends(s, IF task[s] = "kill" THEN "err" ELSE "contended")
  /\ UNCHANGED <<durable, agents, actor, fresh, count>>

KillsUnbound(s) ==
  /\ task[s] \in {"kill", "kill_contended"}
  /\ Ends(s, IF task[s] = "kill" THEN "err" ELSE "contended")
  /\ proc' = [proc EXCEPT ![s] = IF @ = "live" THEN "gone" ELSE @]
  /\ UNCHANGED <<durable, told, inbox, actor, fresh, count>>

\* interrupt_agent_session: only a running attempt that the session is bound to.
Interrupts(s) ==
  IF ~ Over /\ att[s].bound /\ att[s].st = "running"
  THEN /\ att' = [att EXCEPT ![s] = [@ EXCEPT !.st = "interrupted", !.out = "interrupted"]]
       /\ run' = [run EXCEPT !.status = "paused"] /\ Moves /\ Wakes
  ELSE UNCHANGED <<att, run, fresh, actor>>

\* A child that left before it was bound has nobody else to record its exit.
Verifies(s) ==
  /\ task[s] = "verify" /\ Ends(s, "ok")
  /\ IF proc[s] # "live" THEN Interrupts(s) ELSE UNCHANGED <<att, run, fresh, actor>>
  /\ UNCHANGED <<node, eff, ques, rid, agents, count>>

-----------------------------------------------------------------------------
(* The agents. *)

AgentReads(s) ==
  /\ Up /\ proc[s] = "live" /\ inbox[s] # 0
  /\ told' = [told EXCEPT ![s] = inbox[s]] /\ inbox' = [inbox EXCEPT ![s] = 0]
  /\ UNCHANGED <<durable, proc, task, actor, fresh, count>>

\* Slip: a report does not wait for the answer that its generation stands for.
HearableEarly(s, g) ==
  /\ Up /\ ~ Over /\ proc[s] = "live" /\ told[s] > 0 /\ g \notin rid[s] /\ att[s].bound

\* The run accepts a report of the session that the attempt is bound to, once per generation
\* that the report names, whether or not the agent was given the work of that generation.
Hearable(s, g) ==
  /\ Up /\ ~ Over /\ proc[s] = "live" /\ told[s] > 0 /\ g \notin rid[s] /\ att[s].bound
  /\ ~ (g = att[s].gen /\ att[s].cont \in {"pending", "started"})

Asks(s) ==
  /\ ques' = [ques EXCEPT ![s] = [st |-> "pending", due |-> FALSE]]
  /\ node' = [node EXCEPT ![s] = "suspended"]

\* A report of another generation, or one that comes too late, is only recorded.
Reports(s, g, o) ==
  /\ Hearable(s, g) /\ (o # "needs_input" \/ g < MaxGen)
  /\ rid' = [rid EXCEPT ![s] = @ \cup {g}] /\ Moves /\ Wakes
  /\ IF ~ run.expired /\ g = att[s].gen /\ att[s].st = "running"
     THEN /\ att' = [att EXCEPT ![s] = [@ EXCEPT !.st = "reported", !.out = o]]
          /\ IF o = "needs_input" THEN Asks(s) ELSE UNCHANGED <<ques, node>>
     ELSE UNCHANGED <<att, ques, node>>
  /\ UNCHANGED <<run, eff, agents, task, count>>

\* The reader thread takes the session out of the map, then records the exit.
AgentExits(s) ==
  /\ Up /\ proc[s] = "live"
  /\ proc' = [proc EXCEPT ![s] = "gone"] /\ inbox' = [inbox EXCEPT ![s] = 0]
  /\ UNCHANGED <<durable, told, task, actor, fresh, count>>

ExitRecorded(s) ==
  /\ Up /\ proc[s] = "gone" /\ proc' = [proc EXCEPT ![s] = "dead"] /\ Interrupts(s)
  /\ UNCHANGED <<node, eff, ques, rid, told, inbox, task, count>>

-----------------------------------------------------------------------------
(* The operator.  Every public mutation needs the owner of the database.     *)

Commanded == Up /\ Moves /\ Wakes

PauseRun ==
  /\ Running /\ run' = [run EXCEPT !.status = "paused"] /\ Commanded
  /\ UNCHANGED <<node, att, eff, ques, rid, agents, task, count>>

\* Slip: an uncertain effect does not hold the run.
ResumesUnsure ==
  /\ Paused /\ ~ run.expired /\ \E s \in Steps : node[s] \in {"ready", "running", "suspended"}
  /\ run' = [run EXCEPT !.status = "running"] /\ Commanded
  /\ UNCHANGED <<node, att, eff, ques, rid, agents, task, count>>

\* validate_resume and validate_graph_recovery.
ResumeGraph ==
  /\ Paused /\ ~ run.expired /\ \A s \in Steps : eff[s] # "uncertain"
  /\ \E s \in Steps : node[s] \in {"ready", "running", "suspended"}
  /\ run' = [run EXCEPT !.status = "running"] /\ Commanded
  /\ UNCHANGED <<node, att, eff, ques, rid, agents, task, count>>

\* Slip: a spawn in flight keeps its intent.
CancelKeepsIntent ==
  /\ ~ Over /\ run' = [run EXCEPT !.status = "cancelled"] /\ Commanded
  /\ att' = [s \in Steps |-> IF att[s].st # "running" THEN att[s]
                             ELSE [att[s] EXCEPT !.st = "interrupted", !.out = "interrupted"]]
  /\ ques' = [s \in Steps |-> IF ques[s].st \in {"pending", "timed_out"}
                              THEN [st |-> "cancelled", due |-> FALSE] ELSE ques[s]]
  /\ UNCHANGED <<node, eff, rid, agents, task, count>>

CancelRun ==
  /\ ~ Over /\ run' = [run EXCEPT !.status = "cancelled"] /\ Commanded
  /\ eff' = [s \in Steps |-> IF eff[s] = "intended" THEN "uncertain" ELSE eff[s]]
  /\ att' = [s \in Steps |-> IF att[s].st # "running" THEN att[s]
                             ELSE [att[s] EXCEPT !.st = "interrupted", !.out = "interrupted"]]
  /\ ques' = [s \in Steps |-> IF ques[s].st \in {"pending", "timed_out"}
                              THEN [st |-> "cancelled", due |-> FALSE] ELSE ques[s]]
  /\ UNCHANGED <<node, rid, agents, task, count>>

\* ResolveUncertainEffect and MarkEffect.
SettlesEffect(s) ==
  /\ ~ Over /\ eff[s] \in {"uncertain", "intended"}
  /\ \E e \in {"succeeded", "failed"} : eff' = [eff EXCEPT ![s] = e]
  /\ Commanded
  /\ UNCHANGED <<run, node, att, ques, rid, agents, task, count>>

Eligible(s) ==
  /\ ~ Over /\ att[s].st = "reported" /\ att[s].out = "needs_input" /\ node[s] = "suspended"

\* The answer continues the same attempt and conversation under a new generation.
AnswersQuestion(s) ==
  /\ Eligible(s) /\ ques[s] = [st |-> "pending", due |-> FALSE] /\ Commanded
  /\ ques' = [ques EXCEPT ![s].st = "answered"]
  /\ att' = [att EXCEPT ![s] = [@ EXCEPT !.st = "running", !.out = "none", !.gen = att[s].gen + 1,
                                                   !.cont = "pending"]]
  /\ node' = [node EXCEPT ![s] = "running"]
  /\ UNCHANGED <<run, eff, rid, agents, task, count>>

RevisesQuestion(s) ==
  /\ Eligible(s) /\ ques[s].st \in {"pending", "timed_out"} /\ Commanded
  /\ ques' = [ques EXCEPT ![s] = [st |-> "pending", due |-> FALSE]]
  /\ UNCHANGED <<run, node, att, eff, rid, agents, task, count>>

-----------------------------------------------------------------------------
(* Time, and the death and recovery of the daemon. *)

QuestionDue(s) ==
  /\ ques[s] = [st |-> "pending", due |-> FALSE] /\ ques' = [ques EXCEPT ![s].due = TRUE]
  /\ UNCHANGED <<run, node, att, eff, rid, agents, task, actor, fresh, count>>

\* The time a run is paused does not count.
RunExpires ==
  /\ Running /\ ~ run.expired /\ run' = [run EXCEPT !.expired = TRUE]
  /\ UNCHANGED <<node, att, eff, ques, rid, agents, task, actor, fresh, count>>

Down == [pc |-> "down", step |-> 1, permit |-> FALSE, changed |-> FALSE, tick |-> "none", op |-> 0]

\* The agents' terminals belong to the daemon and end with it.
Crash ==
  /\ actor.pc # "down" /\ count.crashes < MaxCrash
  /\ actor' = Down /\ count' = [count EXCEPT !.crashes = @ + 1]
  /\ proc' = [s \in Steps |-> IF proc[s] = "none" THEN "none" ELSE "dead"]
  /\ inbox' = [s \in Steps |-> 0] /\ task' = [s \in Steps |-> "none"] /\ fresh' = {}
  /\ UNCHANGED <<durable, told>>

\* RuntimeOwner::acquire; a finished run is not among the active ones.
Restart ==
  /\ actor.pc = "down"
  /\ actor' = [actor EXCEPT !.pc = IF Over THEN "ended" ELSE "recover"]
  /\ UNCHANGED <<durable, agents, task, fresh, count>>

\* reconcile_after_restart: effects first, then attempts, then the run.
RecoversEffect(s) ==
  /\ actor.pc = "recover" /\ eff[s] = "intended"
  /\ eff' = [eff EXCEPT ![s] = "uncertain"] /\ run' = [run EXCEPT !.status = "paused"]
  /\ UNCHANGED <<node, att, ques, rid, agents, task, actor, fresh, count>>

RecoversAttempt(s) ==
  /\ actor.pc = "recover" /\ att[s].st = "running" /\ \A t \in Steps : eff[t] # "intended"
  /\ att' = [att EXCEPT ![s] = [@ EXCEPT !.st = "interrupted", !.out = "interrupted"]]
  /\ run' = [run EXCEPT !.status = "paused"]
  /\ UNCHANGED <<node, eff, ques, rid, agents, task, actor, fresh, count>>

\* The pause has one id per run: append_reconcile_event finds its receipt the second time.
RecoversRun ==
  /\ actor.pc = "recover" /\ \A s \in Steps : eff[s] # "intended" /\ att[s].st # "running"
  /\ run' = IF Running /\ ~ run.recon THEN [run EXCEPT !.status = "paused", !.recon = TRUE] ELSE run
  /\ actor' = [actor EXCEPT !.pc = "turn"]
  /\ UNCHANGED <<node, att, eff, ques, rid, agents, task, fresh, count>>

-----------------------------------------------------------------------------

WfInit ==
  /\ run = [status |-> "running", expired |-> FALSE, recon |-> FALSE]
  /\ node = [s \in Steps |-> IF s = 1 THEN "ready" ELSE "none"]
  /\ att = [s \in Steps |-> NoAttempt] /\ eff = [s \in Steps |-> "none"]
  /\ ques = [s \in Steps |-> [st |-> "none", due |-> FALSE]] /\ rid = [s \in Steps |-> {}]
  /\ proc = [s \in Steps |-> "none"] /\ told = [s \in Steps |-> 0] /\ inbox = [s \in Steps |-> 0]
  /\ task = [s \in Steps |-> "none"] /\ fresh = {}
  /\ actor = [Down EXCEPT !.pc = "turn"]
  /\ count = [launches |-> [s \in Steps |-> 0], handed |-> [s \in Steps |-> 0], crashes |-> 0]

Turn(s)   == \/ TurnFires(s) \/ Activates(s) \/ StartsAttempt(s) \/ CompletesStep(s) \/ PausesIncomplete(s)
             \/ Reserves(s) \/ RefusesSpawn(s) \/ StartsHandoff(s) \/ ProvesHandoff(s)
Actor     == \/ TurnExpires \/ (\E s \in Steps : Turn(s)) \/ Rests \/ HandsOver \/ MarksDelivered \/ PauseFailure
             \/ InnerReads \/ InnerCommits \/ InnerFails \/ IdleEnds \/ WakesUp \/ TakesResult
Launch(s) == \/ LaunchReads(s) \/ LaunchExpires(s) \/ LaunchRechecks(s) \/ Spawns(s) \/ SpawnFails(s)
             \/ BindReads(s) \/ BindCommits(s) \/ KillsUnbound(s) \/ Verifies(s)
Outcomes  == {"completed", "failed", "needs_input"}
Agent(s)  == \/ AgentReads(s) \/ AgentExits(s) \/ ExitRecorded(s)
             \/ \E g \in 1..MaxGen, o \in Outcomes : Reports(s, g, o)
Operator(s) == SettlesEffect(s) \/ AnswersQuestion(s) \/ RevisesQuestion(s)
Recovery    == Restart \/ RecoversRun \/ \E s \in Steps : RecoversEffect(s) \/ RecoversAttempt(s)

WfNext == \/ Actor \/ PauseRun \/ ResumeGraph \/ CancelRun \/ RunExpires \/ Crash \/ Recovery
          \/ \E s \in Steps : Launch(s) \/ Agent(s) \/ Operator(s) \/ QuestionDue(s)

\* The executor runs, launches end, exits are recorded, a daemon that died comes back.
WfFairness ==
  /\ WF_wfVars(Actor) /\ WF_wfVars(Recovery)
  /\ \A s \in Steps : WF_wfVars(Launch(s)) /\ WF_wfVars(ExitRecorded(s))

WfSpec == WfInit /\ [][WfNext]_wfVars /\ WfFairness

-----------------------------------------------------------------------------
(* Properties. *)

Pcs      == {"turn", "idle", "driving", "handoff", "marking", "failing", "wait", "ended", "down", "recover"}
TaskPcs  == {"none", "check", "recheck", "spawn", "bind", "commit", "kill", "kill_contended", "verify"} \cup Results

\* Types; a bound attempt has a spawn effect that succeeded, and a question that is open
\* belongs to a suspended step (AgentBound, questions.rs open and reconcile).
TypeWf ==
  /\ run \in [status : {"running", "paused", "cancelled"}, expired : BOOLEAN, recon : BOOLEAN]
  /\ node \in [Steps -> {"none", "ready", "running", "suspended", "done"}]
  /\ att \in [Steps -> [st : {"none", "running", "reported", "interrupted"},
                        out : {"none", "interrupted"} \cup Outcomes, gen : 0..MaxGen, bound : BOOLEAN,
                        cont : {"none", "pending", "started", "delivered"}]]
  /\ eff \in [Steps -> {"none", "intended", "succeeded", "failed", "uncertain"}]
  /\ proc \in [Steps -> {"none", "live", "gone", "dead"}] /\ task \in [Steps -> TaskPcs]
  /\ actor.pc \in Pcs /\ fresh \subseteq 0..View
  /\ \A s \in Steps : /\ att[s].bound => eff[s] = "succeeded"
                      /\ ques[s].st \in {"pending", "timed_out"} => node[s] = "suspended"

\* One attempt has one agent process at most, whatever fails, is resumed or restarted
\* around its launch (spawn_agent: an intent "will not be retried").
OneAgentPerAttempt == \A s \in Steps : count.launches[s] <= 1

\* A run whose spawn effect has an unknown outcome does not proceed (EffectChanged,
\* validate_resume).
UncertainHolds == Running => \A s \in Steps : eff[s] # "uncertain"

\* An answer is put into the agent's inbox once, however its handover is interrupted, and
\* no report settles an attempt before every answer it was given has been handed over
\* (continuation.rs: "never send it twice"; choose_event refuses the generation till then).
AnswersHandedOnce ==
  \A s \in Steps :
    /\ att[s].st # "none" => count.handed[s] < att[s].gen
    /\ att[s].st = "reported" => count.handed[s] + 1 = att[s].gen

\* What a cancelled run leaves open is marked unknown: no intent looks as if it was never
\* attempted (Cancelled: "A spawn may already be in flight").
CancelFences == Over => \A s \in Steps : eff[s] # "intended" /\ att[s].st # "running"

\* A child that was started and is not bound is bound or stopped.
UnboundChildEnds == \A s \in Steps : proc[s] = "live" /\ ~ att[s].bound ~> att[s].bound \/ proc[s] # "live"

\* An answer of a running run is on its way to the agent, or the run is paused or over.
AnswerIsDelivered ==
  \A s \in Steps : Running /\ att[s].st = "running" /\ att[s].cont = "pending"
                   ~> att[s].cont # "pending" \/ ~ Running
=============================================================================
