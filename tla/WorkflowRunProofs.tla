-------------------------- MODULE WorkflowRunProofs --------------------------
(***************************************************************************)
(* The safety theorems of WorkflowRun, for any number of steps, questions   *)
(* and deaths of the daemon.  One inductive invariant, WfInv, serves all of *)
(* them.  Its own parts are what the properties leave unsaid: steps are     *)
(* reached in their order, an attempt runs only in a running step, a launch *)
(* that has not started a process never did, and the mark of an answer      *)
(* tells how many answers the agent was handed.                             *)
(***************************************************************************)
EXTENDS WorkflowRun, WellFoundedInduction, TLAPS

\* Types: those of TypeWf with names, and of what it leaves untyped.
QuesRow  == [st : {"none", "pending", "timed_out", "answered", "cancelled"}, due : BOOLEAN]
ActorRow == [pc : Pcs, step : Steps, permit : BOOLEAN, changed : BOOLEAN,
             tick : {"none", "due"}, op : 0..View]
Counts   == [launches : [Steps -> Nat], handed : [Steps -> Nat], crashes : Nat]
RunRow   == [status : {"running", "paused", "cancelled"}, expired : BOOLEAN, recon : BOOLEAN]

NodeState == {"none", "ready", "running", "suspended", "done"}
EffState  == {"none", "intended", "succeeded", "failed", "uncertain"}
ProcState == {"none", "live", "gone", "dead"}
AttRow   == [st : {"none", "running", "reported", "interrupted"},
             out : {"none", "interrupted"} \cup Outcomes, gen : 0..MaxGen, bound : BOOLEAN,
             cont : {"none", "pending", "started", "delivered"}]

Typed ==
  /\ run \in RunRow
  /\ node \in [Steps -> NodeState]
  /\ att \in [Steps -> AttRow]
  /\ eff \in [Steps -> EffState]
  /\ ques \in [Steps -> QuesRow]
  /\ rid \in [Steps -> SUBSET (1..MaxGen)]
  /\ proc \in [Steps -> ProcState]
  /\ told \in [Steps -> 0..MaxGen]
  /\ inbox \in [Steps -> 0..MaxGen]
  /\ task \in [Steps -> TaskPcs]
  /\ actor \in ActorRow
  /\ fresh \subseteq 0..View
  /\ count \in Counts

\* AgentBound, and an open question belongs to a suspended step.
AgentBound ==
  \A s \in Steps : /\ att[s].bound => eff[s] = "succeeded"
                   /\ ques[s].st \in {"pending", "timed_out"} => node[s] = "suspended"

\* The row of steps: a step is reached when all before it are done, and an attempt runs
\* only while its step does.
RowInOrder ==
  /\ \A s, t \in Steps : s < t /\ node[t] # "none" => node[s] = "done"
  /\ \A s \in Steps : att[s].st = "running" => node[s] = "running"

\* The outcome of an attempt and its state, and a generation left for an answer.
AttemptShape(a) ==
  /\ a.st = "none" => a.gen = 0 /\ a.out = "none" /\ a.cont = "none"
  /\ a.st # "none" => a.gen > 0
  /\ a.st = "running" => a.out = "none"
  /\ a.st = "reported" => a.out \in Outcomes /\ (a.out = "needs_input" => a.gen < MaxGen)
  /\ a.st = "interrupted" => a.out = "interrupted"
AttemptsShaped == \A s \in Steps : AttemptShape(att[s])

\* A launch needs an intent, an intent is made once, and a process is started by the last
\* step of a launch that has not started one.
LaunchOnce(s) ==
  /\ eff[s] = "none" => task[s] = "none" /\ count.launches[s] = 0
  /\ task[s] \in {"check", "recheck", "spawn"} => count.launches[s] = 0
  /\ count.launches[s] <= 1
LaunchesOnce == \A s \in Steps : LaunchOnce(s)

\* How many answers were handed over, by the mark of the latest one; only a mark that was
\* started leaves it open whether the latest one was.
Marked(a, handed) ==
  /\ a.cont = "none" => handed = 0 /\ (a.st # "none" => a.gen = 1)
  /\ a.cont = "pending" => handed + 2 = a.gen
  /\ a.cont = "started" => a.gen \in {handed + 1, handed + 2}
  /\ a.cont = "delivered" => handed + 1 = a.gen
  /\ a.st = "reported" => a.cont \in {"none", "delivered"}

\* The actor between the mark and the inbox, and between the inbox and the second mark.
HandoffAt(a, handed) ==
  /\ actor.pc = "handoff" => a.cont = "started" /\ handed + 2 = a.gen
  /\ actor.pc = "marking" => a.cont = "started" /\ handed + 1 = a.gen

HandedInOrder ==
  /\ \A s \in Steps : Marked(att[s], count.handed[s]) /\ inbox[s] \in {0, count.handed[s] + 1}
  /\ HandoffAt(att[actor.step], count.handed[actor.step])

WfInv ==
  /\ Typed /\ AgentBound
  /\ RowInOrder /\ AttemptsShaped /\ LaunchesOnce /\ HandedInOrder
  /\ UncertainHolds /\ CancelFences

USE DEF durable, agents, wfVars, Moves, Wakes

-----------------------------------------------------------------------------
(* Readers and sleepers. *)

LEMMA Readers ==
  ASSUME WorkflowAssumption
  PROVE  /\ Steps \subseteq 0..View /\ View \in 0..View /\ Tick \in 0..View
         /\ View \notin Steps /\ Tick \notin Steps /\ 1 \in Steps
BY DEF WorkflowAssumption, Steps, View, Tick

\* The step whose question is the first to be due exists, so that Due names a reader.
LEMMA DueIsReader ==
  ASSUME WorkflowAssumption
  PROVE  Due \in 0..View
<1> DEFINE Below == {p \in Nat \X Nat : p[1] < p[2]}
<1>1. DueSteps \subseteq Steps /\ DueSteps \subseteq Nat
  BY DEF DueSteps, Steps
<1>2. ASSUME DueSteps # {}
      PROVE  \E s \in DueSteps : \A t \in DueSteps : s <= t
  <2>1. IsWellFoundedOn(Below, Nat)
    BY NatLessThanWellFounded DEF OpToRel
  <2>2. PICK s \in DueSteps : \A t \in DueSteps : <<t, s>> \notin Below
    <3> HIDE DEF Below
    <3> QED
      BY <1>1, <1>2, <2>1, WFMin
  <2>3. \A t \in DueSteps : ~ (t < s)
    BY <1>1, <2>2
  <2> QED
    BY <1>1, <2>3
<1>3. PICK first : DueSteps # {} => /\ first \in DueSteps
                                  /\ first = CHOOSE s \in DueSteps : \A t \in DueSteps : s <= t
  BY <1>2
<1>4. Due \in {0, View} \/ Due \in DueSteps
  BY <1>3 DEF Due
<1>5. {0, View} \cup DueSteps \subseteq 0..View
  BY <1>1, Readers DEF Tick
<1> QED
  BY <1>4, <1>5

-----------------------------------------------------------------------------
(* Types. *)

LEMMA AttRowUpdates ==
  ASSUME WorkflowAssumption, NEW a \in AttRow
  PROVE  /\ NoAttempt \in AttRow
         /\ [a EXCEPT !.st = "running", !.gen = 1] \in AttRow
         /\ \A c \in {"none", "pending", "started", "delivered"} : [a EXCEPT !.cont = c] \in AttRow
         /\ [a EXCEPT !.bound = TRUE] \in AttRow
         /\ [a EXCEPT !.st = "interrupted", !.out = "interrupted"] \in AttRow
         /\ \A o \in Outcomes : [a EXCEPT !.st = "reported", !.out = o] \in AttRow
         /\ a.gen < MaxGen =>
              [a EXCEPT !.st = "running", !.out = "none", !.gen = a.gen + 1, !.cont = "pending"] \in AttRow
<1>1. 1 \in 0..MaxGen /\ 0 \in 0..MaxGen /\ (a.gen < MaxGen => a.gen + 1 \in 0..MaxGen)
  BY DEF AttRow, WorkflowAssumption
<1>2. NoAttempt \in AttRow
  BY <1>1 DEF AttRow, NoAttempt
<1>3. [a EXCEPT !.st = "running", !.gen = 1] \in AttRow
  BY <1>1 DEF AttRow
<1>4. \A c \in {"none", "pending", "started", "delivered"} : [a EXCEPT !.cont = c] \in AttRow
  BY DEF AttRow
<1>5. /\ [a EXCEPT !.bound = TRUE] \in AttRow
      /\ [a EXCEPT !.st = "interrupted", !.out = "interrupted"] \in AttRow
  BY DEF AttRow
<1>6. ASSUME NEW o \in Outcomes
      PROVE  [a EXCEPT !.st = "reported", !.out = o] \in AttRow
  BY DEF AttRow
<1>7. ASSUME a.gen < MaxGen
      PROVE  [a EXCEPT !.st = "running", !.out = "none", !.gen = a.gen + 1, !.cont = "pending"] \in AttRow
  BY <1>1, <1>7 DEF AttRow
<1> QED
  BY <1>2, <1>3, <1>4, <1>5, <1>6, <1>7


LEMMA PermitTyped ==
  ASSUME Typed
  PROVE  [actor EXCEPT !.permit = Up] \in ActorRow
BY DEF Typed, ActorRow, Up

LEMMA TypeStep ==
  ASSUME WorkflowAssumption, Typed, AttemptsShaped, [WfNext]_wfVars
  PROVE  Typed'
<1> USE DEF Typed
<1>1. CASE TurnExpires
  <2>1. (run \in RunRow)'
    BY <1>1 DEF TurnExpires, RunRow
  <2>2. (fresh \subseteq 0..View)'
    BY <1>1, Readers DEF TurnExpires
  <2> QED
    BY <1>1, <2>1, <2>2 DEF TurnExpires
<1>2. CASE Rests
  <2>1. (actor \in ActorRow)'
    BY <1>2, Readers DEF Rests, ActorRow, Pcs, Up
  <2>2. (fresh \subseteq 0..View)'
    BY <1>2, Readers DEF Rests
  <2> QED
    BY <1>2, <2>1, <2>2 DEF Rests
<1>3. CASE HandsOver
  <2>1. (inbox \in [Steps -> 0..MaxGen])'
    <3>1. actor.step \in Steps
      BY DEF ActorRow
    <3>2. att[actor.step].gen \in 0..MaxGen
      BY <3>1 DEF AttRow
    <3> QED
      BY <1>3, <3>1, <3>2 DEF HandsOver
  <2>2. (actor \in ActorRow)'
    BY <1>3, Readers DEF HandsOver, ActorRow, Pcs, Up
  <2>3. (fresh \subseteq 0..View)'
    BY <1>3, Readers DEF HandsOver
  <2>4. (count \in Counts)'
    BY <1>3 DEF HandsOver, Counts, ActorRow
  <2> QED
    BY <1>3, <2>1, <2>2, <2>3, <2>4 DEF HandsOver
<1>4. CASE MarksDelivered
  <2>1. (att \in [Steps -> AttRow])'
    <3>1. actor.step \in Steps
      BY DEF ActorRow
    <3>2. [att[actor.step] EXCEPT !.cont = "delivered"] \in AttRow
      BY <3>1, AttRowUpdates
    <3> QED
      BY <1>4, <3>1, <3>2 DEF MarksDelivered
  <2>2. (actor \in ActorRow)'
    BY <1>4, Readers DEF MarksDelivered, ActorRow, Pcs, Up
  <2>3. (fresh \subseteq 0..View)'
    BY <1>4, Readers DEF MarksDelivered
  <2> QED
    BY <1>4, <2>1, <2>2, <2>3 DEF MarksDelivered
<1>5. CASE PauseFailure
  <2>1. (run \in RunRow)'
    BY <1>5 DEF PauseFailure, RunRow
  <2>2. (actor \in ActorRow)'
    <3>1. [actor EXCEPT !.pc = "turn"] \in ActorRow /\ [actor EXCEPT !.pc = "turn", !.permit = TRUE] \in ActorRow
      BY DEF ActorRow, Pcs
    <3> QED
      BY <1>5, <3>1 DEF PauseFailure
  <2>3. (fresh \subseteq 0..View)'
    BY <1>5, Readers DEF PauseFailure
  <2> QED
    BY <1>5, <2>1, <2>2, <2>3 DEF PauseFailure
<1>6. CASE InnerReads
  <2>1. (actor \in ActorRow)'
    BY <1>6, DueIsReader DEF InnerReads, ActorRow
  <2>2. (fresh \subseteq 0..View)'
    BY <1>6, Readers DEF InnerReads
  <2> QED
    BY <1>6, <2>1, <2>2 DEF InnerReads
<1>7. CASE InnerCommits
  <2>1. (run \in RunRow)'
    BY <1>7 DEF InnerCommits, FireDue, RunRow
  <2>2. (ques \in [Steps -> QuesRow])'
    BY <1>7 DEF InnerCommits, FireDue, QuesRow
  <2>3. (actor \in ActorRow)'
    BY <1>7, Readers DEF InnerCommits, ActorRow, Tick
  <2>4. (fresh \subseteq 0..View)'
    BY <1>7, Readers DEF InnerCommits, FireDue
  <2> QED
    BY <1>7, <2>1, <2>2, <2>3, <2>4 DEF InnerCommits, FireDue
<1>8. CASE InnerFails
  <2>1. (task \in [Steps -> TaskPcs])'
    BY <1>8 DEF InnerFails, Attached, TaskPcs, Results
  <2>2. (actor \in ActorRow)'
    <3>1. PICK pc \in Pcs : actor' = [actor EXCEPT !.tick = "none", !.op = 0, !.pc = pc]
      BY <1>8 DEF InnerFails, Pcs
    <3> QED
      BY <3>1, Readers DEF ActorRow, Tick
  <2> QED
    BY <1>8, <2>1, <2>2 DEF InnerFails, Attached
<1>9. CASE IdleEnds
  <2>1. (actor \in ActorRow)'
    BY <1>9, Readers DEF IdleEnds, ActorRow, Pcs, Up
  <2> QED
    BY <1>9, <2>1 DEF IdleEnds
<1>10. CASE WakesUp
  <2>1. (actor \in ActorRow)'
    BY <1>10, Readers DEF WakesUp, ActorRow, Pcs, Up
  <2> QED
    BY <1>10, <2>1 DEF WakesUp
<1>11. CASE TakesResult
  <2>1. (eff \in [Steps -> EffState])'
    BY <1>11 DEF TakesResult, EffState
  <2>2. (task \in [Steps -> TaskPcs])'
    BY <1>11 DEF TakesResult, TaskPcs, Results
  <2>3. (actor \in ActorRow)'
    BY <1>11, Readers DEF TakesResult, ActorRow, Pcs, Up
  <2>4. (fresh \subseteq 0..View)'
    BY <1>11, Readers DEF TakesResult
  <2> QED
    BY <1>11, <2>1, <2>2, <2>3, <2>4 DEF TakesResult
<1>12. ASSUME NEW s \in Steps, TurnFires(s)
      PROVE  Typed'
  <2>1. (ques \in [Steps -> QuesRow])'
    BY <1>12 DEF TurnFires, QuesRow
  <2>2. (fresh \subseteq 0..View)'
    BY <1>12, Readers DEF TurnFires
  <2> QED
    BY <1>12, <2>1, <2>2 DEF TurnFires
<1>13. ASSUME NEW s \in Steps, Activates(s)
      PROVE  Typed'
  <2>1. (node \in [Steps -> NodeState])'
    BY <1>13 DEF Activates, NodeState
  <2>2. (fresh \subseteq 0..View)'
    BY <1>13, Readers DEF Activates
  <2> QED
    BY <1>13, <2>1, <2>2 DEF Activates
<1>14. ASSUME NEW s \in Steps, StartsAttempt(s)
      PROVE  Typed'
  <2>1. (att \in [Steps -> AttRow])'
    <3>1. [NoAttempt EXCEPT !.st = "running", !.gen = 1] \in AttRow
      BY AttRowUpdates
    <3> QED
      BY <1>14, <3>1 DEF StartsAttempt
  <2>2. (fresh \subseteq 0..View)'
    BY <1>14, Readers DEF StartsAttempt
  <2> QED
    BY <1>14, <2>1, <2>2 DEF StartsAttempt
<1>15. ASSUME NEW s \in Steps, CompletesStep(s)
      PROVE  Typed'
  <2>1. (node \in [Steps -> NodeState])'
    BY <1>15 DEF CompletesStep, NodeState
  <2>2. (fresh \subseteq 0..View)'
    BY <1>15, Readers DEF CompletesStep
  <2> QED
    BY <1>15, <2>1, <2>2 DEF CompletesStep
<1>16. ASSUME NEW s \in Steps, PausesIncomplete(s)
      PROVE  Typed'
  <2>1. (run \in RunRow)'
    BY <1>16 DEF PausesIncomplete, RunRow
  <2>2. (fresh \subseteq 0..View)'
    BY <1>16, Readers DEF PausesIncomplete
  <2> QED
    BY <1>16, <2>1, <2>2 DEF PausesIncomplete
<1>17. ASSUME NEW s \in Steps, Reserves(s)
      PROVE  Typed'
  <2>1. (eff \in [Steps -> EffState])'
    BY <1>17 DEF Reserves, EffState
  <2>2. (task \in [Steps -> TaskPcs])'
    BY <1>17 DEF Reserves, TaskPcs, Results
  <2>3. (actor \in ActorRow)'
    BY <1>17, Readers DEF Reserves, ActorRow, Pcs, Up
  <2>4. (fresh \subseteq 0..View)'
    BY <1>17, Readers DEF Reserves
  <2> QED
    BY <1>17, <2>1, <2>2, <2>3, <2>4 DEF Reserves
<1>18. ASSUME NEW s \in Steps, RefusesSpawn(s)
      PROVE  Typed'
  <2>1. (actor \in ActorRow)'
    BY <1>18, Readers DEF RefusesSpawn, ActorRow, Pcs, Up
  <2> QED
    BY <1>18, <2>1 DEF RefusesSpawn
<1>19. ASSUME NEW s \in Steps, StartsHandoff(s)
      PROVE  Typed'
  <2>1. (att \in [Steps -> AttRow])'
    <3>1. [att[s] EXCEPT !.cont = "started"] \in AttRow
      BY AttRowUpdates
    <3> QED
      BY <1>19, <3>1 DEF StartsHandoff
  <2>2. (actor \in ActorRow)'
    BY <1>19, Readers DEF StartsHandoff, ActorRow, Pcs, Up
  <2>3. (fresh \subseteq 0..View)'
    BY <1>19, Readers DEF StartsHandoff
  <2> QED
    BY <1>19, <2>1, <2>2, <2>3 DEF StartsHandoff
<1>20. ASSUME NEW s \in Steps, ProvesHandoff(s)
      PROVE  Typed'
  <2>1. (att \in [Steps -> AttRow])'
    <3>1. [att[s] EXCEPT !.cont = "delivered"] \in AttRow
      BY AttRowUpdates
    <3> QED
      BY <1>20, <3>1 DEF ProvesHandoff
  <2>2. (actor \in ActorRow)'
    BY <1>20, Readers DEF ProvesHandoff, ActorRow, Pcs, Up
  <2>3. (fresh \subseteq 0..View)'
    BY <1>20, Readers DEF ProvesHandoff
  <2> QED
    BY <1>20, <2>1, <2>2, <2>3 DEF ProvesHandoff
<1>21. CASE PauseRun
  <2>1. (run \in RunRow)'
    BY <1>21 DEF PauseRun, Commanded, RunRow
  <2>2. (actor \in ActorRow)'
    BY <1>21, PermitTyped DEF PauseRun, Commanded
  <2>3. (fresh \subseteq 0..View)'
    BY <1>21, Readers DEF PauseRun, Commanded
  <2> QED
    BY <1>21, <2>1, <2>2, <2>3 DEF PauseRun, Commanded
<1>22. CASE ResumeGraph
  <2>1. (run \in RunRow)'
    BY <1>22 DEF ResumeGraph, Commanded, RunRow
  <2>2. (actor \in ActorRow)'
    BY <1>22, PermitTyped DEF ResumeGraph, Commanded
  <2>3. (fresh \subseteq 0..View)'
    BY <1>22, Readers DEF ResumeGraph, Commanded
  <2> QED
    BY <1>22, <2>1, <2>2, <2>3 DEF ResumeGraph, Commanded
<1>23. CASE CancelRun
  <2>1. (run \in RunRow)'
    BY <1>23 DEF CancelRun, Commanded, RunRow
  <2>2. (att \in [Steps -> AttRow])'
    BY <1>23, AttRowUpdates DEF CancelRun, Commanded
  <2>3. (eff \in [Steps -> EffState])'
    BY <1>23 DEF CancelRun, Commanded, EffState
  <2>4. (ques \in [Steps -> QuesRow])'
    BY <1>23 DEF CancelRun, Commanded, QuesRow
  <2>5. (actor \in ActorRow)'
    BY <1>23, PermitTyped DEF CancelRun, Commanded
  <2>6. (fresh \subseteq 0..View)'
    BY <1>23, Readers DEF CancelRun, Commanded
  <2> QED
    BY <1>23, <2>1, <2>2, <2>3, <2>4, <2>5, <2>6 DEF CancelRun, Commanded
<1>24. CASE RunExpires
  <2>1. (run \in RunRow)'
    BY <1>24 DEF RunExpires, RunRow
  <2> QED
    BY <1>24, <2>1 DEF RunExpires
<1>25. CASE Crash
  <2>1. (proc \in [Steps -> ProcState])'
    BY <1>25 DEF Crash, Down, ProcState
  <2>2. (inbox \in [Steps -> 0..MaxGen])'
    BY <1>25 DEF Crash, Down
  <2>3. (task \in [Steps -> TaskPcs])'
    BY <1>25 DEF Crash, Down, TaskPcs, Results
  <2>4. (actor \in ActorRow)'
    BY <1>25, Readers DEF Crash, Down, ActorRow, Pcs, Up
  <2>5. (fresh \subseteq 0..View)'
    BY <1>25, Readers DEF Crash, Down
  <2>6. (count \in Counts)'
    <3>1. count' = [count EXCEPT !.crashes = @ + 1]
      BY <1>25 DEF Crash
    <3>2. count.crashes + 1 \in Nat /\ count.launches \in [Steps -> Nat] /\ count.handed \in [Steps -> Nat]
      BY DEF Typed, Counts
    <3>3. count \in [launches : [Steps -> Nat], handed : [Steps -> Nat], crashes : Nat]
      BY DEF Typed, Counts
    <3> QED
      BY ONLY <3>1, <3>2, <3>3 DEF Counts
  <2> QED
    BY <1>25, <2>1, <2>2, <2>3, <2>4, <2>5, <2>6 DEF Crash, Down
<1>26. CASE Restart
  <2>1. (actor \in ActorRow)'
    BY <1>26, Readers DEF Restart, ActorRow, Pcs, Up
  <2> QED
    BY <1>26, <2>1 DEF Restart
<1>27. CASE RecoversRun
  <2>1. (run \in RunRow)'
    BY <1>27 DEF RecoversRun, RunRow
  <2>2. (actor \in ActorRow)'
    BY <1>27, Readers DEF RecoversRun, ActorRow, Pcs, Up
  <2> QED
    BY <1>27, <2>1, <2>2 DEF RecoversRun
<1>28. ASSUME NEW s \in Steps, RecoversEffect(s)
      PROVE  Typed'
  <2>1. (run \in RunRow)'
    BY <1>28 DEF RecoversEffect, RunRow
  <2>2. (eff \in [Steps -> EffState])'
    BY <1>28 DEF RecoversEffect, EffState
  <2> QED
    BY <1>28, <2>1, <2>2 DEF RecoversEffect
<1>29. ASSUME NEW s \in Steps, RecoversAttempt(s)
      PROVE  Typed'
  <2>1. (run \in RunRow)'
    BY <1>29 DEF RecoversAttempt, RunRow
  <2>2. (att \in [Steps -> AttRow])'
    <3>1. [att[s] EXCEPT !.st = "interrupted", !.out = "interrupted"] \in AttRow
      BY AttRowUpdates
    <3> QED
      BY <1>29, <3>1 DEF RecoversAttempt
  <2> QED
    BY <1>29, <2>1, <2>2 DEF RecoversAttempt
<1>30. ASSUME NEW s \in Steps, LaunchReads(s)
      PROVE  Typed'
  <2>1. (task \in [Steps -> TaskPcs])'
    BY <1>30 DEF LaunchReads, Ends, Attached, TaskPcs, Results
  <2> QED
    BY <1>30, <2>1 DEF LaunchReads, Ends, Attached
<1>31. ASSUME NEW s \in Steps, LaunchExpires(s)
      PROVE  Typed'
  <2>1. (run \in RunRow)'
    BY <1>31 DEF LaunchExpires, RunRow
  <2>2. (fresh \subseteq 0..View)'
    BY <1>31, Readers DEF LaunchExpires
  <2> QED
    BY <1>31, <2>1, <2>2 DEF LaunchExpires
<1>32. ASSUME NEW s \in Steps, LaunchRechecks(s)
      PROVE  Typed'
  <2>1. (eff \in [Steps -> EffState])'
    BY <1>32 DEF LaunchRechecks, Ends, Attached, EffState
  <2>2. (task \in [Steps -> TaskPcs])'
    BY <1>32 DEF LaunchRechecks, Ends, Attached, TaskPcs, Results
  <2>3. (actor \in ActorRow)'
    BY <1>32, PermitTyped DEF LaunchRechecks
  <2>4. (fresh \subseteq 0..View)'
    BY <1>32, Readers DEF LaunchRechecks, Ends, Attached
  <2> QED
    BY <1>32, <2>1, <2>2, <2>3, <2>4 DEF LaunchRechecks, Ends, Attached
<1>33. ASSUME NEW s \in Steps, Spawns(s)
      PROVE  Typed'
  <2>1. (proc \in [Steps -> ProcState])'
    BY <1>33 DEF Spawns, ProcState
  <2>2. (told \in [Steps -> 0..MaxGen])'
    BY <1>33 DEF Spawns, WorkflowAssumption
  <2>3. (task \in [Steps -> TaskPcs])'
    BY <1>33 DEF Spawns, TaskPcs, Results
  <2>4. (count \in Counts)'
    BY <1>33 DEF Spawns, Counts
  <2> QED
    BY <1>33, <2>1, <2>2, <2>3, <2>4 DEF Spawns
<1>34. ASSUME NEW s \in Steps, SpawnFails(s)
      PROVE  Typed'
  <2>1. (eff \in [Steps -> EffState])'
    BY <1>34 DEF SpawnFails, Ends, Attached, EffState
  <2>2. (task \in [Steps -> TaskPcs])'
    BY <1>34 DEF SpawnFails, Ends, Attached, TaskPcs, Results
  <2>3. (actor \in ActorRow)'
    BY <1>34, PermitTyped DEF SpawnFails
  <2>4. (fresh \subseteq 0..View)'
    BY <1>34, Readers DEF SpawnFails, Ends, Attached
  <2> QED
    BY <1>34, <2>1, <2>2, <2>3, <2>4 DEF SpawnFails, Ends, Attached
<1>35. ASSUME NEW s \in Steps, BindReads(s)
      PROVE  Typed'
  <2>1. (task \in [Steps -> TaskPcs])'
    BY <1>35 DEF BindReads, TaskPcs, Results
  <2>2. (fresh \subseteq 0..View)'
    <3>1. s \in 0..View
      BY Readers
    <3> QED
      BY <1>35, <3>1 DEF BindReads
  <2> QED
    BY <1>35, <2>1, <2>2 DEF BindReads
<1>36. ASSUME NEW s \in Steps, BindCommits(s)
      PROVE  Typed'
  <2>1. (att \in [Steps -> AttRow])'
    <3>1. [att[s] EXCEPT !.bound = TRUE] \in AttRow
      BY AttRowUpdates
    <3> QED
      BY <1>36, <3>1 DEF BindCommits
  <2>2. (eff \in [Steps -> EffState])'
    BY <1>36 DEF BindCommits, EffState
  <2>3. (task \in [Steps -> TaskPcs])'
    BY <1>36 DEF BindCommits, TaskPcs, Results
  <2>4. (actor \in ActorRow)'
    BY <1>36, PermitTyped DEF BindCommits
  <2>5. (fresh \subseteq 0..View)'
    BY <1>36, Readers DEF BindCommits
  <2> QED
    BY <1>36, <2>1, <2>2, <2>3, <2>4, <2>5 DEF BindCommits
<1>37. ASSUME NEW s \in Steps, KillsUnbound(s)
      PROVE  Typed'
  <2>1. (proc \in [Steps -> ProcState])'
    BY <1>37 DEF KillsUnbound, Ends, Attached, ProcState
  <2>2. (task \in [Steps -> TaskPcs])'
    BY <1>37 DEF KillsUnbound, Ends, Attached, TaskPcs, Results
  <2> QED
    BY <1>37, <2>1, <2>2 DEF KillsUnbound, Ends, Attached
<1>38. ASSUME NEW s \in Steps, Verifies(s)
      PROVE  Typed'
  <2>1. (run \in RunRow)'
    BY <1>38 DEF Verifies, Ends, Attached, Interrupts, RunRow
  <2>2. (att \in [Steps -> AttRow])'
    <3>1. [att[s] EXCEPT !.st = "interrupted", !.out = "interrupted"] \in AttRow
      BY AttRowUpdates
    <3> QED
      BY <1>38, <3>1 DEF Verifies, Ends, Attached, Interrupts
  <2>3. (task \in [Steps -> TaskPcs])'
    BY <1>38 DEF Verifies, Ends, Attached, Interrupts, TaskPcs, Results
  <2>4. (actor \in ActorRow)'
    BY <1>38, PermitTyped DEF Verifies, Interrupts
  <2>5. (fresh \subseteq 0..View)'
    BY <1>38, Readers DEF Verifies, Ends, Attached, Interrupts
  <2> QED
    BY <1>38, <2>1, <2>2, <2>3, <2>4, <2>5 DEF Verifies, Ends, Attached, Interrupts
<1>39. ASSUME NEW s \in Steps, AgentReads(s)
      PROVE  Typed'
  <2>1. (told \in [Steps -> 0..MaxGen])'
    BY <1>39 DEF AgentReads
  <2>2. (inbox \in [Steps -> 0..MaxGen])'
    BY <1>39 DEF AgentReads
  <2> QED
    BY <1>39, <2>1, <2>2 DEF AgentReads
<1>40. ASSUME NEW s \in Steps, AgentExits(s)
      PROVE  Typed'
  <2>1. (proc \in [Steps -> ProcState])'
    BY <1>40 DEF AgentExits, ProcState
  <2>2. (inbox \in [Steps -> 0..MaxGen])'
    BY <1>40 DEF AgentExits
  <2> QED
    BY <1>40, <2>1, <2>2 DEF AgentExits
<1>41. ASSUME NEW s \in Steps, ExitRecorded(s)
      PROVE  Typed'
  <2>1. (run \in RunRow)'
    BY <1>41 DEF ExitRecorded, Interrupts, RunRow
  <2>2. (att \in [Steps -> AttRow])'
    <3>1. [att[s] EXCEPT !.st = "interrupted", !.out = "interrupted"] \in AttRow
      BY AttRowUpdates
    <3> QED
      BY <1>41, <3>1 DEF ExitRecorded, Interrupts
  <2>3. (proc \in [Steps -> ProcState])'
    BY <1>41 DEF ExitRecorded, Interrupts, ProcState
  <2>4. (actor \in ActorRow)'
    BY <1>41, PermitTyped DEF ExitRecorded, Interrupts
  <2>5. (fresh \subseteq 0..View)'
    BY <1>41, Readers DEF ExitRecorded, Interrupts
  <2> QED
    BY <1>41, <2>1, <2>2, <2>3, <2>4, <2>5 DEF ExitRecorded, Interrupts
<1>42. ASSUME NEW s \in Steps, NEW g \in 1..MaxGen, NEW o \in Outcomes, Reports(s, g, o)
      PROVE  Typed'
  <2>1. (node \in [Steps -> NodeState])'
    BY <1>42 DEF Reports, Asks, NodeState
  <2>2. (att \in [Steps -> AttRow])'
    <3>1. [att[s] EXCEPT !.st = "reported", !.out = o] \in AttRow
      BY AttRowUpdates
    <3> QED
      BY <1>42, <3>1 DEF Reports, Asks
  <2>3. (ques \in [Steps -> QuesRow])'
    <3>1. [st |-> "pending", due |-> FALSE] \in QuesRow
      BY DEF QuesRow
    <3> QED
      BY <1>42, <3>1 DEF Reports, Asks
  <2>4. (rid \in [Steps -> SUBSET (1..MaxGen)])'
    BY <1>42 DEF Reports, Asks
  <2>5. (actor \in ActorRow)'
    BY <1>42, PermitTyped DEF Reports
  <2>6. (fresh \subseteq 0..View)'
    BY <1>42, Readers DEF Reports, Asks
  <2> QED
    BY <1>42, <2>1, <2>2, <2>3, <2>4, <2>5, <2>6 DEF Reports, Asks
<1>43. ASSUME NEW s \in Steps, SettlesEffect(s)
      PROVE  Typed'
  <2>1. (eff \in [Steps -> EffState])'
    BY <1>43 DEF SettlesEffect, Commanded, EffState
  <2>2. (actor \in ActorRow)'
    BY <1>43, PermitTyped DEF SettlesEffect, Commanded
  <2>3. (fresh \subseteq 0..View)'
    BY <1>43, Readers DEF SettlesEffect, Commanded
  <2> QED
    BY <1>43, <2>1, <2>2, <2>3 DEF SettlesEffect, Commanded
<1>44. ASSUME NEW s \in Steps, AnswersQuestion(s)
      PROVE  Typed'
  <2>1. (node \in [Steps -> NodeState])'
    BY <1>44 DEF AnswersQuestion, Commanded, Eligible, NodeState
  <2>2. (att \in [Steps -> AttRow])'
    <3>1. att[s].gen < MaxGen
      BY <1>44 DEF AnswersQuestion, Eligible, AttemptsShaped, AttemptShape
    <3>2. [att[s] EXCEPT !.st = "running", !.out = "none", !.gen = att[s].gen + 1, !.cont = "pending"] \in AttRow
      BY <3>1, AttRowUpdates
    <3> QED
      BY <1>44, <3>2 DEF AnswersQuestion, Commanded
  <2>3. (ques \in [Steps -> QuesRow])'
    BY <1>44 DEF AnswersQuestion, Commanded, Eligible, QuesRow
  <2>4. (actor \in ActorRow)'
    BY <1>44, PermitTyped DEF AnswersQuestion, Commanded
  <2>5. (fresh \subseteq 0..View)'
    BY <1>44, Readers DEF AnswersQuestion, Commanded, Eligible
  <2> QED
    BY <1>44, <2>1, <2>2, <2>3, <2>4, <2>5 DEF AnswersQuestion, Commanded, Eligible
<1>45. ASSUME NEW s \in Steps, RevisesQuestion(s)
      PROVE  Typed'
  <2>1. (ques \in [Steps -> QuesRow])'
    BY <1>45 DEF RevisesQuestion, Commanded, QuesRow
  <2>2. (actor \in ActorRow)'
    BY <1>45, PermitTyped DEF RevisesQuestion, Commanded
  <2>3. (fresh \subseteq 0..View)'
    BY <1>45, Readers DEF RevisesQuestion, Commanded
  <2> QED
    BY <1>45, <2>1, <2>2, <2>3 DEF RevisesQuestion, Commanded
<1>46. ASSUME NEW s \in Steps, QuestionDue(s)
      PROVE  Typed'
  <2>1. (ques \in [Steps -> QuesRow])'
    BY <1>46 DEF QuestionDue, QuesRow
  <2> QED
    BY <1>46, <2>1 DEF QuestionDue
<1>47. CASE UNCHANGED wfVars
  BY <1>47
<1> QED
  BY <1>1, <1>2, <1>3, <1>4, <1>5, <1>6, <1>7, <1>8, <1>9, <1>10, <1>11, <1>12, <1>13, <1>14, <1>15, <1>16, <1>17, <1>18, <1>19, <1>20, <1>21, <1>22, <1>23, <1>24, <1>25, <1>26, <1>27, <1>28, <1>29, <1>30, <1>31, <1>32, <1>33, <1>34, <1>35, <1>36, <1>37, <1>38, <1>39, <1>40, <1>41, <1>42, <1>43, <1>44, <1>45, <1>46, <1>47
     DEF WfNext, Actor, Turn, Recovery, Launch, Agent, Operator

-----------------------------------------------------------------------------
(* What leaves a part of the invariant alone, and what becomes of an attempt. *)

LEMMA Frames ==
  ASSUME WfInv, Typed'
  PROVE  /\ UNCHANGED <<att, eff, ques, node>> => AgentBound'
         /\ UNCHANGED <<node, att>> => RowInOrder'
         /\ UNCHANGED att => AttemptsShaped'
         /\ UNCHANGED <<eff, task, count>> => LaunchesOnce'
         /\ UNCHANGED <<run, eff>> => UncertainHolds'
         /\ UNCHANGED <<run, eff, att>> => CancelFences'
<1> USE DEF WfInv
<1>1. UNCHANGED <<att, eff, ques, node>> => AgentBound'
  BY DEF AgentBound
<1>2. UNCHANGED <<node, att>> => RowInOrder'
  BY DEF RowInOrder
<1>3. UNCHANGED att => AttemptsShaped'
  BY DEF AttemptsShaped
<1>4. UNCHANGED <<eff, task, count>> => LaunchesOnce'
  BY DEF LaunchesOnce, LaunchOnce
<1>5. UNCHANGED <<run, eff>> => UncertainHolds'
  BY DEF UncertainHolds, Running
<1>6. UNCHANGED <<run, eff, att>> => CancelFences'
  BY DEF CancelFences, Over
<1> QED
  BY <1>1, <1>2, <1>3, <1>4, <1>5, <1>6

\* The actor matters to the answers only while it hands one over.
LEMMA HandoffFrame ==
  ASSUME WfInv, Typed', UNCHANGED <<att, inbox>>, count'.handed = count.handed,
         \/ actor'.pc \notin {"handoff", "marking"}
         \/ actor'.pc = actor.pc /\ actor'.step = actor.step
  PROVE  HandedInOrder'
BY DEF WfInv, HandedInOrder, HandoffAt, Typed, ActorRow

\* What becomes of the attempt of one step.
Becomes(s, st, out, gen, bound, cont) ==
  /\ \A t \in Steps \ {s} : att'[t] = att[t]
  /\ att'[s].st = st /\ att'[s].out = out /\ att'[s].gen = gen
  /\ att'[s].bound = bound /\ att'[s].cont = cont

LEMMA MarkSet ==
  ASSUME Typed, NEW s \in Steps, NEW c, att' = [att EXCEPT ![s].cont = c]
  PROVE  Becomes(s, att[s].st, att[s].out, att[s].gen, att[s].bound, c)
BY DEF Becomes, Typed, AttRow

LEMMA StateSet ==
  ASSUME Typed, NEW s \in Steps, NEW st, NEW out,
         att' = [att EXCEPT ![s] = [@ EXCEPT !.st = st, !.out = out]]
  PROVE  Becomes(s, st, out, att[s].gen, att[s].bound, att[s].cont)
<1>1. /\ att'[s] = [att[s] EXCEPT !.st = st, !.out = out] /\ att[s] \in AttRow
      /\ \A t \in Steps \ {s} : att'[t] = att[t]
  BY DEF Typed
<1>2. att'[s].st = st /\ att'[s].out = out
  BY <1>1 DEF AttRow
<1>3. att'[s].gen = att[s].gen /\ att'[s].bound = att[s].bound /\ att'[s].cont = att[s].cont
  BY <1>1 DEF AttRow
<1> QED
  BY <1>1, <1>2, <1>3 DEF Becomes

\* Answers are disturbed by what becomes of one attempt, or by where the actor goes.
LEMMA HandoffKept ==
  ASSUME WfInv, Typed', NEW s \in Steps, \A t \in Steps \ {s} : att'[t] = att[t],
         UNCHANGED inbox, count'.handed = count.handed,
         Marked(att'[s], count.handed[s]),
         \/ actor'.pc \notin {"handoff", "marking"}
         \/ /\ actor'.pc = actor.pc /\ actor'.step = actor.step
            /\ actor.step # s \/ (att'[s].cont = att[s].cont /\ att'[s].gen = att[s].gen)
         \/ actor'.step = s /\ HandoffAt(att[s], count.handed[s])'
  PROVE  HandedInOrder'
<1>1. actor.step \in Steps /\ actor'.step \in Steps
  BY DEF WfInv, Typed, ActorRow
<1>2. \A t \in Steps : (Marked(att[t], count.handed[t]) /\ inbox[t] \in {0, count.handed[t] + 1})'
  BY DEF WfInv, HandedInOrder, Marked
<1>3. HandoffAt(att[actor.step], count.handed[actor.step])'
  BY <1>1 DEF WfInv, HandedInOrder, HandoffAt
<1> QED
  BY <1>2, <1>3 DEF HandedInOrder

Safe ==
  /\ AgentBound /\ RowInOrder /\ AttemptsShaped /\ LaunchesOnce /\ HandedInOrder
  /\ UncertainHolds /\ CancelFences

-----------------------------------------------------------------------------
(* The invariant. *)

LEMMA SafeStep ==
  ASSUME WorkflowAssumption, WfInv, Typed', [WfNext]_wfVars
  PROVE  Safe'
<1> USE DEF WfInv, Safe
<1>0. /\ \A t \in Steps : att[t] \in AttRow /\ att[t].gen \in Nat /\ count.handed[t] \in Nat
      /\ actor.step \in Steps
  BY DEF Typed, AttRow, Counts, ActorRow
<1>1. CASE TurnExpires
  <2>1. UncertainHolds'
    BY <1>1 DEF TurnExpires, UncertainHolds, Running, Typed, RunRow
  <2>2. CancelFences'
    BY <1>1 DEF TurnExpires, CancelFences, Over, Running, Typed, RunRow
  <2> QED
    BY <1>1, <2>1, <2>2, HandoffFrame, Frames DEF TurnExpires
<1>2. CASE Rests
  <2>1. HandedInOrder'
    BY <1>2, HandoffFrame DEF Rests, Typed, ActorRow
  <2> QED
    BY <1>2, <2>1, Frames DEF Rests
<1>3. CASE HandsOver
  <2>1. LaunchesOnce'
    BY <1>3 DEF HandsOver, LaunchesOnce, LaunchOnce, Typed, TaskPcs, Results, Counts
  <2>2. HandedInOrder'
    BY <1>3 DEF HandsOver, HandedInOrder, Marked, HandoffAt, Typed, AttRow, ActorRow, Counts
  <2> QED
    BY <1>3, <2>1, <2>2, Frames DEF HandsOver
<1>4. CASE MarksDelivered
  <2>1. actor.step \in Steps /\ (Becomes(actor.step, att[actor.step].st, att[actor.step].out, att[actor.step].gen,
                                     att[actor.step].bound, "delivered") \/ UNCHANGED att)
    <3>1. att' = [att EXCEPT ![actor.step].cont = "delivered"] \/ UNCHANGED att
      BY <1>4 DEF MarksDelivered
    <3> QED
      BY <1>0, <3>1, MarkSet
  <2>2. AgentBound'
    BY <1>4, <2>1 DEF MarksDelivered, AgentBound, Typed, Becomes
  <2>3. RowInOrder'
    BY <1>4, <2>1 DEF MarksDelivered, RowInOrder, Typed, Becomes
  <2>4. AttemptsShaped'
    <3>1. AttemptShape(att'[actor.step])
      <4>1. AttemptShape(att[actor.step]) /\ att[actor.step].st # "none"
        BY <1>0, <1>4 DEF AttemptsShaped, AttemptShape, MarksDelivered, HandedInOrder, HandoffAt
      <4> QED
        BY <2>1, <4>1 DEF AttemptShape, Becomes
    <3> QED
      BY <2>1, <3>1 DEF AttemptsShaped, Becomes
  <2>5. HandedInOrder'
    <3>1. Marked(att'[actor.step], count.handed[actor.step])
      BY <1>0, <1>4, <2>1 DEF MarksDelivered, HandedInOrder, Marked, HandoffAt, Becomes
    <3> QED
      BY <1>0, <1>4, <2>1, <3>1, HandoffKept DEF MarksDelivered, Becomes, Typed, ActorRow
  <2>6. CancelFences'
    BY <1>4, <2>1 DEF MarksDelivered, CancelFences, Over, Running, Typed, RunRow, Becomes
  <2> QED
    BY <1>4, <2>1, <2>2, <2>3, <2>4, <2>5, <2>6, Frames DEF MarksDelivered
<1>5. CASE PauseFailure
  <2>1. HandedInOrder'
    BY <1>5, HandoffFrame DEF PauseFailure, Typed, ActorRow
  <2>2. UncertainHolds'
    BY <1>5 DEF PauseFailure, UncertainHolds, Running, Typed, RunRow
  <2>3. CancelFences'
    BY <1>5 DEF PauseFailure, CancelFences, Over, Running, Typed, RunRow
  <2> QED
    BY <1>5, <2>1, <2>2, <2>3, Frames DEF PauseFailure
<1>6. CASE InnerReads
  <2>1. HandedInOrder'
    BY <1>6, HandoffFrame DEF InnerReads, Typed, ActorRow
  <2> QED
    BY <1>6, <2>1, Frames DEF InnerReads
<1>7. CASE InnerCommits
  <2>1. AgentBound'
    BY <1>7 DEF InnerCommits, FireDue, AgentBound, Typed
  <2>2. HandedInOrder'
    BY <1>7, HandoffFrame DEF InnerCommits, FireDue, Typed, ActorRow
  <2>3. UncertainHolds'
    BY <1>7 DEF InnerCommits, FireDue, UncertainHolds, Running, Typed, RunRow
  <2>4. CancelFences'
    BY <1>7 DEF InnerCommits, FireDue, CancelFences, Over, Running, Typed, RunRow
  <2> QED
    BY <1>7, <2>1, <2>2, <2>3, <2>4, Frames DEF InnerCommits, FireDue
<1>8. CASE InnerFails
  <2>1. LaunchesOnce'
    BY <1>8 DEF InnerFails, Attached, LaunchesOnce, LaunchOnce, Typed, TaskPcs, Results, Counts
  <2>2. HandedInOrder'
    BY <1>8, HandoffFrame DEF InnerFails, Attached, Typed, ActorRow
  <2> QED
    BY <1>8, <2>1, <2>2, Frames DEF InnerFails, Attached
<1>9. CASE IdleEnds
  <2>1. HandedInOrder'
    BY <1>9, HandoffFrame DEF IdleEnds, Typed, ActorRow
  <2> QED
    BY <1>9, <2>1, Frames DEF IdleEnds
<1>10. CASE WakesUp
  <2>1. HandedInOrder'
    BY <1>10, HandoffFrame DEF WakesUp, Typed, ActorRow
  <2> QED
    BY <1>10, <2>1, Frames DEF WakesUp
<1>11. CASE TakesResult
  <2>1. AgentBound'
    BY <1>11 DEF TakesResult, AgentBound, Typed
  <2>2. LaunchesOnce'
    BY <1>11 DEF TakesResult, LaunchesOnce, LaunchOnce, Typed, TaskPcs, Results, Counts
  <2>3. HandedInOrder'
    BY <1>11, HandoffFrame DEF TakesResult, Typed, ActorRow
  <2>4. UncertainHolds'
    BY <1>11 DEF TakesResult, UncertainHolds, Running, Typed, RunRow
  <2>5. CancelFences'
    BY <1>11 DEF TakesResult, CancelFences, Over, Running, Typed, RunRow
  <2> QED
    BY <1>11, <2>1, <2>2, <2>3, <2>4, <2>5, Frames DEF TakesResult
<1>12. ASSUME NEW s \in Steps, TurnFires(s)
      PROVE  Safe'
  <2>1. AgentBound'
    BY <1>12 DEF TurnFires, FireDue, AgentBound, Typed
  <2> QED
    BY <1>12, <2>1, HandoffFrame, Frames DEF TurnFires
<1>13. ASSUME NEW s \in Steps, Activates(s)
      PROVE  Safe'
  <2>1. AgentBound'
    BY <1>13 DEF Activates, Turning, Ready, AgentBound, Typed
  <2>2. RowInOrder'
    BY <1>13 DEF Activates, Turning, Ready, RowInOrder, Typed
  <2> QED
    BY <1>13, <2>1, <2>2, HandoffFrame, Frames DEF Activates
<1>14. ASSUME NEW s \in Steps, StartsAttempt(s)
      PROVE  Safe'
  <2>1. Becomes(s, "running", "none", 1, FALSE, "none")
    BY <1>0, <1>14 DEF StartsAttempt, Becomes, Typed, NoAttempt
  <2>2. AgentBound'
    BY <1>14, <2>1 DEF StartsAttempt, Turning, AgentBound, Typed, Becomes
  <2>3. RowInOrder'
    BY <1>14, <2>1 DEF StartsAttempt, Turning, RowInOrder, Typed, Becomes
  <2>4. AttemptsShaped'
    <3>1. AttemptShape(att'[s])
      BY <1>0, <1>14, <2>1 DEF StartsAttempt, Turning, AttemptsShaped, AttemptShape, AttemptsShaped, AttemptShape, Becomes
    <3> QED
      BY <2>1, <3>1 DEF AttemptsShaped, Becomes
  <2>5. HandedInOrder'
    <3>1. Marked(att'[s], count.handed[s])
      BY <1>0, <1>14, <2>1 DEF StartsAttempt, Turning, AttemptsShaped, AttemptShape, HandedInOrder, Marked, HandoffAt, Becomes
    <3> QED
      BY <1>0, <1>14, <2>1, <3>1, HandoffKept DEF StartsAttempt, Becomes, Typed, ActorRow, Turning
  <2>6. CancelFences'
    BY <1>14, <2>1 DEF StartsAttempt, Turning, CancelFences, Over, Running, Typed, RunRow, Becomes
  <2> QED
    BY <1>14, <2>1, <2>2, <2>3, <2>4, <2>5, <2>6, Frames DEF StartsAttempt
<1>15. ASSUME NEW s \in Steps, CompletesStep(s)
      PROVE  Safe'
  <2>1. /\ node[s] = "running" /\ node'[s] = "done"
        /\ s + 1 \in Steps => node[s + 1] = "none" /\ node'[s + 1] = "ready"
        /\ \A t \in Steps \ {s, s + 1} : node'[t] = node[t]
    BY <1>15 DEF CompletesStep, RowInOrder, Steps
  <2>2. AgentBound'
    BY <1>15, <2>1 DEF CompletesStep, AgentBound
  <2>3. RowInOrder'
    <3>1. att[s].st # "running"
      BY <1>15 DEF CompletesStep, AttemptsShaped, AttemptShape
    <3>2. ASSUME NEW r \in Steps, NEW t \in Steps, r < t, node'[t] # "none"
          PROVE  node'[r] = "done"
      <4>1. t <= s + 1
        BY <1>15, <2>1, <3>2 DEF RowInOrder, CompletesStep, Steps
      <4>2. r = s \/ r < s
        BY <3>2, <4>1 DEF Steps
      <4>3. r < s => node[r] = "done" /\ r \notin {s, s + 1}
        BY <1>15 DEF RowInOrder, CompletesStep, Steps
      <4> QED
        BY <2>1, <4>2, <4>3
    <3> QED
      BY <1>15, <2>1, <3>1, <3>2 DEF RowInOrder, CompletesStep
  <2> QED
    BY <1>15, <2>2, <2>3, HandoffFrame, Frames DEF CompletesStep
<1>16. ASSUME NEW s \in Steps, PausesIncomplete(s)
      PROVE  Safe'
  <2>1. UncertainHolds'
    BY <1>16 DEF PausesIncomplete, Turning, UncertainHolds, Running, Typed, RunRow
  <2>2. CancelFences'
    BY <1>16 DEF PausesIncomplete, Turning, CancelFences, Over, Running, Typed, RunRow
  <2> QED
    BY <1>16, <2>1, <2>2, HandoffFrame, Frames DEF PausesIncomplete
<1>17. ASSUME NEW s \in Steps, Reserves(s)
      PROVE  Safe'
  <2>1. AgentBound'
    BY <1>17 DEF Reserves, TurnEnds, Current, AgentBound, Typed
  <2>2. LaunchesOnce'
    BY <1>17 DEF Reserves, TurnEnds, Current, LaunchesOnce, LaunchOnce, Typed, TaskPcs, Results, Counts
  <2>3. HandedInOrder'
    BY <1>17, HandoffFrame DEF Reserves, Typed, ActorRow
  <2>4. UncertainHolds'
    BY <1>17 DEF Reserves, TurnEnds, Current, UncertainHolds, Running, Typed, RunRow
  <2>5. CancelFences'
    BY <1>17 DEF Reserves, TurnEnds, Current, CancelFences, Over, Running, Typed, RunRow
  <2> QED
    BY <1>17, <2>1, <2>2, <2>3, <2>4, <2>5, Frames DEF Reserves
<1>18. ASSUME NEW s \in Steps, RefusesSpawn(s)
      PROVE  Safe'
  <2>1. HandedInOrder'
    BY <1>18, HandoffFrame DEF RefusesSpawn, Typed, ActorRow
  <2> QED
    BY <1>18, <2>1, Frames DEF RefusesSpawn
<1>19. ASSUME NEW s \in Steps, StartsHandoff(s)
      PROVE  Safe'
  <2>1. Becomes(s, att[s].st, att[s].out, att[s].gen, att[s].bound, "started") \/ UNCHANGED att
    <3>1. att' = [att EXCEPT ![s].cont = "started"] \/ UNCHANGED att
      BY <1>19 DEF StartsHandoff
    <3> QED
      BY <3>1, MarkSet
  <2>2. AgentBound'
    BY <1>19, <2>1 DEF StartsHandoff, TurnEnds, Current, AgentBound, Typed, Becomes
  <2>3. RowInOrder'
    BY <1>19, <2>1 DEF StartsHandoff, TurnEnds, Current, RowInOrder, Typed, Becomes
  <2>4. AttemptsShaped'
    <3>1. AttemptShape(att'[s])
      BY <1>0, <1>19, <2>1 DEF StartsHandoff, TurnEnds, Current, AttemptsShaped, AttemptShape, Becomes
    <3> QED
      BY <2>1, <3>1 DEF AttemptsShaped, Becomes
  <2>5. HandedInOrder'
    <3>1. Marked(att'[s], count.handed[s])
      BY <1>0, <1>19, <2>1 DEF StartsHandoff, TurnEnds, Current, HandedInOrder, Marked, HandoffAt, Becomes
    <3> QED
      <4>1. \/ actor'.pc = "failing"
            \/ /\ actor'.pc = "handoff" /\ actor'.step = s
               /\ att'[s].cont = "started" /\ count'.handed[s] + 2 = att'[s].gen
        <5>1. CASE proc[s] = "live"
          <6>1. actor'.pc = "handoff" /\ actor'.step = s /\ att' = [att EXCEPT ![s].cont = "started"]
            BY <1>19, <5>1 DEF StartsHandoff, Typed, ActorRow
          <6>2. Becomes(s, att[s].st, att[s].out, att[s].gen, att[s].bound, "started")
            BY <6>1, MarkSet
          <6>3. count.handed[s] + 2 = att[s].gen
            BY <1>19 DEF StartsHandoff, HandedInOrder, Marked
          <6> QED
            BY <1>19, <6>1, <6>2, <6>3 DEF Becomes, StartsHandoff
        <5>2. CASE proc[s] # "live"
          BY <1>19, <5>2 DEF StartsHandoff, Typed, ActorRow
        <5> QED
          BY <5>1, <5>2
      <4>2. actor'.pc \notin {"handoff", "marking"} \/ (actor'.step = s /\ HandoffAt(att[s], count.handed[s])')
        BY <4>1 DEF HandoffAt
      <4> QED
        BY <1>19, <2>1, <3>1, <4>2, HandoffKept DEF StartsHandoff, Becomes
  <2>6. CancelFences'
    BY <1>19, <2>1 DEF StartsHandoff, TurnEnds, Current, CancelFences, Over, Running, Typed, RunRow, Becomes
  <2> QED
    BY <1>19, <2>1, <2>2, <2>3, <2>4, <2>5, <2>6, Frames DEF StartsHandoff
<1>20. ASSUME NEW s \in Steps, ProvesHandoff(s)
      PROVE  Safe'
  <2>1. Becomes(s, att[s].st, att[s].out, att[s].gen, att[s].bound, "delivered") \/ UNCHANGED att
    <3>1. att' = [att EXCEPT ![s].cont = "delivered"] \/ UNCHANGED att
      BY <1>20 DEF ProvesHandoff
    <3> QED
      BY <3>1, MarkSet
  <2>2. AgentBound'
    BY <1>20, <2>1 DEF ProvesHandoff, TurnEnds, Current, AgentBound, Typed, Becomes
  <2>3. RowInOrder'
    BY <1>20, <2>1 DEF ProvesHandoff, TurnEnds, Current, RowInOrder, Typed, Becomes
  <2>4. AttemptsShaped'
    <3>1. AttemptShape(att'[s])
      BY <1>0, <1>20, <2>1 DEF ProvesHandoff, TurnEnds, Current, AttemptsShaped, AttemptShape, Becomes
    <3> QED
      BY <2>1, <3>1 DEF AttemptsShaped, Becomes
  <2>5. HandedInOrder'
    <3>1. Marked(att'[s], count.handed[s])
      <4>1. att[s].gen > 0 /\ att[s].st = "running"
        BY <1>20 DEF ProvesHandoff, Current, AttemptsShaped, AttemptShape
      <4>2. UNCHANGED att \/ inbox[s] = att[s].gen
        BY <1>20 DEF ProvesHandoff
      <4>3. Marked(att[s], count.handed[s]) /\ inbox[s] \in {0, count.handed[s] + 1}
        BY DEF HandedInOrder
      <4> QED
        BY <1>0, <2>1, <4>1, <4>2, <4>3 DEF Marked, Becomes
    <3> QED
      BY <1>0, <1>20, <2>1, <3>1, HandoffKept DEF ProvesHandoff, Becomes, Typed, ActorRow, TurnEnds
  <2>6. CancelFences'
    BY <1>20, <2>1 DEF ProvesHandoff, TurnEnds, Current, CancelFences, Over, Running, Typed, RunRow, Becomes
  <2> QED
    BY <1>20, <2>1, <2>2, <2>3, <2>4, <2>5, <2>6, Frames DEF ProvesHandoff
<1>21. CASE PauseRun
  <2>1. HandedInOrder'
    BY <1>21, HandoffFrame DEF PauseRun, Commanded, Typed, ActorRow
  <2>2. UncertainHolds'
    BY <1>21 DEF PauseRun, Commanded, UncertainHolds, Running, Typed, RunRow
  <2>3. CancelFences'
    BY <1>21 DEF PauseRun, Commanded, CancelFences, Over, Running, Typed, RunRow
  <2> QED
    BY <1>21, <2>1, <2>2, <2>3, Frames DEF PauseRun, Commanded
<1>22. CASE ResumeGraph
  <2>1. HandedInOrder'
    BY <1>22, HandoffFrame DEF ResumeGraph, Commanded, Typed, ActorRow
  <2>2. UncertainHolds'
    BY <1>22 DEF ResumeGraph, Commanded, Paused, UncertainHolds, Running, Typed, RunRow
  <2>3. CancelFences'
    BY <1>22 DEF ResumeGraph, Commanded, Paused, CancelFences, Over, Running, Typed, RunRow
  <2> QED
    BY <1>22, <2>1, <2>2, <2>3, Frames DEF ResumeGraph, Commanded
<1>23. CASE CancelRun
  <2>1. \A t \in Steps :
         \/ att[t].st # "running" /\ att'[t] = att[t]
         \/ /\ att[t].st = "running" /\ att'[t].st = "interrupted" /\ att'[t].out = "interrupted"
            /\ att'[t].gen = att[t].gen /\ att'[t].bound = att[t].bound /\ att'[t].cont = att[t].cont
    <3> SUFFICES ASSUME NEW t \in Steps, att[t].st = "running"
                 PROVE  /\ att'[t].st = "interrupted" /\ att'[t].out = "interrupted"
                        /\ att'[t].gen = att[t].gen /\ att'[t].bound = att[t].bound
                        /\ att'[t].cont = att[t].cont
      BY <1>23 DEF CancelRun
    <3>1. att'[t] = [att[t] EXCEPT !.st = "interrupted", !.out = "interrupted"]
      BY <1>23 DEF CancelRun
    <3> QED
      BY <1>0, <3>1 DEF AttRow
  <2>2. AgentBound'
    BY <1>23, <2>1 DEF CancelRun, Commanded, AgentBound, Typed, Becomes
  <2>3. RowInOrder'
    BY <1>23, <2>1 DEF CancelRun, Commanded, RowInOrder, Typed, Becomes
  <2>4. AttemptsShaped'
    BY <1>23, <2>1 DEF CancelRun, Commanded, AttemptsShaped, AttemptShape, Typed, AttRow, Becomes
  <2>5. LaunchesOnce'
    BY <1>23, <2>1 DEF CancelRun, Commanded, LaunchesOnce, LaunchOnce, Typed, TaskPcs, Results, Counts, Becomes
  <2>6. HandedInOrder'
    <3>1. \A t \in Steps : /\ att'[t].cont = att[t].cont /\ att'[t].gen = att[t].gen
                           /\ att'[t].st = att[t].st \/ (att[t].st = "running" /\ att'[t].st = "interrupted")
      BY <2>1
    <3>2. \A t \in Steps : Marked(att'[t], count.handed[t])
      <4> SUFFICES ASSUME NEW t \in Steps PROVE Marked(att'[t], count.handed[t])
        OBVIOUS
      <4>1. Marked(att[t], count.handed[t])
        BY DEF HandedInOrder
      <4>2. CASE att'[t].st = att[t].st
        BY <3>1, <4>1, <4>2 DEF Marked
      <4>3. CASE att[t].st = "running" /\ att'[t].st = "interrupted"
        BY <3>1, <4>1, <4>3 DEF Marked
      <4> QED
        BY <3>1, <4>2, <4>3
    <3>3. UNCHANGED <<count, inbox>> /\ actor'.pc = actor.pc /\ actor'.step = actor.step
      BY <1>23 DEF CancelRun, Commanded, Typed, ActorRow
    <3> QED
      <4>1. HandoffAt(att[actor.step], count.handed[actor.step])'
        <5>1. HandoffAt(att[actor.step], count.handed[actor.step])
          BY DEF HandedInOrder
        <5>2. att'[actor.step].cont = att[actor.step].cont /\ att'[actor.step].gen = att[actor.step].gen
          BY <1>0, <3>1
        <5> QED
          BY <3>3, <5>1, <5>2 DEF HandoffAt
      <4> QED
        BY <3>2, <3>3, <4>1 DEF HandedInOrder
  <2>7. UncertainHolds'
    BY <1>23, <2>1 DEF CancelRun, Commanded, UncertainHolds, Running, Typed, RunRow, Becomes
  <2>8. CancelFences'
    BY <1>23, <2>1 DEF CancelRun, Commanded, CancelFences, Over, Running, Typed, RunRow, Becomes
  <2> QED
    BY <1>23, <2>1, <2>2, <2>3, <2>4, <2>5, <2>6, <2>7, <2>8, Frames DEF CancelRun, Commanded
<1>24. CASE RunExpires
  <2>1. UncertainHolds'
    BY <1>24 DEF RunExpires, UncertainHolds, Running, Typed, RunRow
  <2>2. CancelFences'
    BY <1>24 DEF RunExpires, CancelFences, Over, Running, Typed, RunRow
  <2> QED
    BY <1>24, <2>1, <2>2, HandoffFrame, Frames DEF RunExpires
<1>25. CASE Crash
  <2>1. LaunchesOnce'
    BY <1>25 DEF Crash, Down, LaunchesOnce, LaunchOnce, Typed, TaskPcs, Results, Counts
  <2>2. HandedInOrder'
    BY <1>25 DEF Crash, Down, HandedInOrder, Marked, HandoffAt, Typed, AttRow, ActorRow, Counts
  <2> QED
    BY <1>25, <2>1, <2>2, Frames DEF Crash, Down
<1>26. CASE Restart
  <2>1. HandedInOrder'
    BY <1>26, HandoffFrame DEF Restart, Typed, ActorRow
  <2> QED
    BY <1>26, <2>1, Frames DEF Restart
<1>27. CASE RecoversRun
  <2>1. HandedInOrder'
    BY <1>27, HandoffFrame DEF RecoversRun, Typed, ActorRow
  <2>2. UncertainHolds'
    BY <1>27 DEF RecoversRun, UncertainHolds, Running, Typed, RunRow
  <2>3. CancelFences'
    BY <1>27 DEF RecoversRun, CancelFences, Over, Running, Typed, RunRow
  <2> QED
    BY <1>27, <2>1, <2>2, <2>3, Frames DEF RecoversRun
<1>28. ASSUME NEW s \in Steps, RecoversEffect(s)
      PROVE  Safe'
  <2>1. AgentBound'
    BY <1>28 DEF RecoversEffect, AgentBound, Typed
  <2>2. LaunchesOnce'
    BY <1>28 DEF RecoversEffect, LaunchesOnce, LaunchOnce, Typed, TaskPcs, Results, Counts
  <2>3. UncertainHolds'
    BY <1>28 DEF RecoversEffect, UncertainHolds, Running, Typed, RunRow
  <2>4. CancelFences'
    BY <1>28 DEF RecoversEffect, CancelFences, Over, Running, Typed, RunRow
  <2> QED
    BY <1>28, <2>1, <2>2, <2>3, <2>4, HandoffFrame, Frames DEF RecoversEffect
<1>29. ASSUME NEW s \in Steps, RecoversAttempt(s)
      PROVE  Safe'
  <2>1. Becomes(s, "interrupted", "interrupted", att[s].gen, att[s].bound, att[s].cont)
    BY <1>29, StateSet DEF RecoversAttempt
  <2>2. AgentBound'
    BY <1>29, <2>1 DEF RecoversAttempt, AgentBound, Typed, Becomes
  <2>3. RowInOrder'
    BY <1>29, <2>1 DEF RecoversAttempt, RowInOrder, Typed, Becomes
  <2>4. AttemptsShaped'
    <3>1. AttemptShape(att'[s])
      BY <1>0, <1>29, <2>1 DEF RecoversAttempt, AttemptsShaped, AttemptShape, Becomes
    <3> QED
      BY <2>1, <3>1 DEF AttemptsShaped, Becomes
  <2>5. HandedInOrder'
    <3>1. Marked(att'[s], count.handed[s])
      BY <1>0, <1>29, <2>1 DEF RecoversAttempt, HandedInOrder, Marked, HandoffAt, Becomes
    <3> QED
      BY <1>0, <1>29, <2>1, <3>1, HandoffKept DEF RecoversAttempt, Becomes, Typed, ActorRow
  <2>6. UncertainHolds'
    BY <1>29, <2>1 DEF RecoversAttempt, UncertainHolds, Running, Typed, RunRow, Becomes
  <2>7. CancelFences'
    BY <1>29, <2>1 DEF RecoversAttempt, CancelFences, Over, Running, Typed, RunRow, Becomes
  <2> QED
    BY <1>29, <2>1, <2>2, <2>3, <2>4, <2>5, <2>6, <2>7, Frames DEF RecoversAttempt
<1>30. ASSUME NEW s \in Steps, LaunchReads(s)
      PROVE  Safe'
  <2>1. LaunchesOnce'
    BY <1>30 DEF LaunchReads, Ends, Attached, Bindable, LaunchesOnce, LaunchOnce, Typed, TaskPcs, Results, Counts
  <2> QED
    BY <1>30, <2>1, HandoffFrame, Frames DEF LaunchReads, Ends, Attached
<1>31. ASSUME NEW s \in Steps, LaunchExpires(s)
      PROVE  Safe'
  <2>1. UncertainHolds'
    BY <1>31 DEF LaunchExpires, UncertainHolds, Running, Typed, RunRow
  <2>2. CancelFences'
    BY <1>31 DEF LaunchExpires, CancelFences, Over, Running, Typed, RunRow
  <2> QED
    BY <1>31, <2>1, <2>2, HandoffFrame, Frames DEF LaunchExpires
<1>32. ASSUME NEW s \in Steps, LaunchRechecks(s)
      PROVE  Safe'
  <2>1. AgentBound'
    BY <1>32 DEF LaunchRechecks, Ends, Attached, Paused, AgentBound, Typed
  <2>2. LaunchesOnce'
    BY <1>32 DEF LaunchRechecks, Ends, Attached, Paused, LaunchesOnce, LaunchOnce, Typed, TaskPcs, Results, Counts
  <2>3. HandedInOrder'
    BY <1>32, HandoffFrame DEF LaunchRechecks, Ends, Attached, Typed, ActorRow
  <2>4. UncertainHolds'
    BY <1>32 DEF LaunchRechecks, Ends, Attached, Paused, UncertainHolds, Running, Typed, RunRow
  <2>5. CancelFences'
    BY <1>32 DEF LaunchRechecks, Ends, Attached, Paused, CancelFences, Over, Running, Typed, RunRow
  <2> QED
    BY <1>32, <2>1, <2>2, <2>3, <2>4, <2>5, Frames DEF LaunchRechecks, Ends, Attached
<1>33. ASSUME NEW s \in Steps, Spawns(s)
      PROVE  Safe'
  <2>1. LaunchesOnce'
    BY <1>33 DEF Spawns, LaunchesOnce, LaunchOnce, Typed, TaskPcs, Results, Counts
  <2>2. HandedInOrder'
    BY <1>33, HandoffFrame DEF Spawns, Typed, ActorRow, Counts
  <2> QED
    BY <1>33, <2>1, <2>2, Frames DEF Spawns
<1>34. ASSUME NEW s \in Steps, SpawnFails(s)
      PROVE  Safe'
  <2>1. AgentBound'
    BY <1>34 DEF SpawnFails, Ends, Attached, AgentBound, Typed
  <2>2. LaunchesOnce'
    BY <1>34 DEF SpawnFails, Ends, Attached, LaunchesOnce, LaunchOnce, Typed, TaskPcs, Results, Counts
  <2>3. HandedInOrder'
    BY <1>34, HandoffFrame DEF SpawnFails, Ends, Attached, Typed, ActorRow
  <2>4. UncertainHolds'
    BY <1>34 DEF SpawnFails, Ends, Attached, UncertainHolds, Running, Typed, RunRow
  <2>5. CancelFences'
    BY <1>34 DEF SpawnFails, Ends, Attached, CancelFences, Over, Running, Typed, RunRow
  <2> QED
    BY <1>34, <2>1, <2>2, <2>3, <2>4, <2>5, Frames DEF SpawnFails, Ends, Attached
<1>35. ASSUME NEW s \in Steps, BindReads(s)
      PROVE  Safe'
  <2>1. LaunchesOnce'
    BY <1>35 DEF BindReads, Bindable, LaunchesOnce, LaunchOnce, Typed, TaskPcs, Results, Counts
  <2> QED
    BY <1>35, <2>1, HandoffFrame, Frames DEF BindReads
<1>36. ASSUME NEW s \in Steps, BindCommits(s)
      PROVE  Safe'
  <2>1. Becomes(s, att[s].st, att[s].out, att[s].gen, TRUE, att[s].cont) \/ UNCHANGED att
    <3>1. att' = [att EXCEPT ![s].bound = TRUE] \/ UNCHANGED att
      BY <1>36 DEF BindCommits
    <3> QED
      BY <1>0, <3>1 DEF Becomes, Typed, AttRow
  <2>2. AgentBound'
    BY <1>36, <2>1 DEF BindCommits, AgentBound, Typed, Becomes
  <2>3. RowInOrder'
    BY <1>36, <2>1 DEF BindCommits, RowInOrder, Typed, Becomes
  <2>4. AttemptsShaped'
    <3>1. AttemptShape(att'[s])
      BY <1>0, <1>36, <2>1 DEF BindCommits, AttemptsShaped, AttemptShape, Becomes
    <3> QED
      BY <2>1, <3>1 DEF AttemptsShaped, Becomes
  <2>5. LaunchesOnce'
    BY <1>36, <2>1 DEF BindCommits, LaunchesOnce, LaunchOnce, Typed, TaskPcs, Results, Counts, Becomes
  <2>6. HandedInOrder'
    <3>1. Marked(att'[s], count.handed[s])
      BY <1>0, <1>36, <2>1 DEF BindCommits, HandedInOrder, Marked, HandoffAt, Becomes
    <3> QED
      BY <1>0, <1>36, <2>1, <3>1, HandoffKept DEF BindCommits, Becomes, Typed, ActorRow
  <2>7. UncertainHolds'
    BY <1>36, <2>1 DEF BindCommits, UncertainHolds, Running, Typed, RunRow, Becomes
  <2>8. CancelFences'
    BY <1>36, <2>1 DEF BindCommits, CancelFences, Over, Running, Typed, RunRow, Becomes
  <2> QED
    BY <1>36, <2>1, <2>2, <2>3, <2>4, <2>5, <2>6, <2>7, <2>8, Frames DEF BindCommits
<1>37. ASSUME NEW s \in Steps, KillsUnbound(s)
      PROVE  Safe'
  <2>1. LaunchesOnce'
    BY <1>37 DEF KillsUnbound, Ends, Attached, LaunchesOnce, LaunchOnce, Typed, TaskPcs, Results, Counts
  <2> QED
    BY <1>37, <2>1, HandoffFrame, Frames DEF KillsUnbound, Ends, Attached
<1>38. ASSUME NEW s \in Steps, Verifies(s)
      PROVE  Safe'
  <2>1. Becomes(s, "interrupted", "interrupted", att[s].gen, att[s].bound, att[s].cont) \/ UNCHANGED att
    <3>1. \/ att' = [att EXCEPT ![s] = [@ EXCEPT !.st = "interrupted", !.out = "interrupted"]]
          \/ UNCHANGED att
      BY <1>38 DEF Verifies, Interrupts
    <3> QED
      BY <3>1, StateSet
  <2>2. AgentBound'
    BY <1>38, <2>1 DEF Verifies, Ends, Attached, Interrupts, AgentBound, Typed, Becomes
  <2>3. RowInOrder'
    BY <1>38, <2>1 DEF Verifies, Ends, Attached, Interrupts, RowInOrder, Typed, Becomes
  <2>4. AttemptsShaped'
    <3>1. AttemptShape(att'[s])
      BY <1>0, <1>38, <2>1 DEF Verifies, Ends, Attached, Interrupts, AttemptsShaped, AttemptShape, Becomes
    <3> QED
      BY <2>1, <3>1 DEF AttemptsShaped, Becomes
  <2>5. LaunchesOnce'
    BY <1>38, <2>1 DEF Verifies, Ends, Attached, Interrupts, LaunchesOnce, LaunchOnce, Typed, TaskPcs, Results, Counts, Becomes
  <2>6. HandedInOrder'
    <3>1. Marked(att'[s], count.handed[s])
      BY <1>0, <1>38, <2>1 DEF Verifies, Ends, Attached, Interrupts, HandedInOrder, Marked, HandoffAt, Becomes
    <3> QED
      BY <1>0, <1>38, <2>1, <3>1, HandoffKept DEF Verifies, Ends, Attached, Interrupts, Becomes, Typed, ActorRow
  <2>7. UncertainHolds'
    BY <1>38, <2>1 DEF Verifies, Ends, Attached, Interrupts, UncertainHolds, Running, Typed, RunRow, Becomes
  <2>8. CancelFences'
    BY <1>38, <2>1 DEF Verifies, Ends, Attached, Interrupts, CancelFences, Over, Running, Typed, RunRow, Becomes
  <2> QED
    BY <1>38, <2>1, <2>2, <2>3, <2>4, <2>5, <2>6, <2>7, <2>8, Frames DEF Verifies, Ends, Attached, Interrupts
<1>39. ASSUME NEW s \in Steps, AgentReads(s)
      PROVE  Safe'
  <2>1. HandedInOrder'
    BY <1>39 DEF AgentReads, HandedInOrder, Marked, HandoffAt, Typed, AttRow, ActorRow, Counts
  <2> QED
    BY <1>39, <2>1, Frames DEF AgentReads
<1>40. ASSUME NEW s \in Steps, AgentExits(s)
      PROVE  Safe'
  <2>1. HandedInOrder'
    BY <1>40 DEF AgentExits, HandedInOrder, Marked, HandoffAt, Typed, AttRow, ActorRow, Counts
  <2> QED
    BY <1>40, <2>1, Frames DEF AgentExits
<1>41. ASSUME NEW s \in Steps, ExitRecorded(s)
      PROVE  Safe'
  <2>1. Becomes(s, "interrupted", "interrupted", att[s].gen, att[s].bound, att[s].cont) \/ UNCHANGED att
    <3>1. \/ att' = [att EXCEPT ![s] = [@ EXCEPT !.st = "interrupted", !.out = "interrupted"]]
          \/ UNCHANGED att
      BY <1>41 DEF ExitRecorded, Interrupts
    <3> QED
      BY <3>1, StateSet
  <2>2. AgentBound'
    BY <1>41, <2>1 DEF ExitRecorded, Interrupts, AgentBound, Typed, Becomes
  <2>3. RowInOrder'
    BY <1>41, <2>1 DEF ExitRecorded, Interrupts, RowInOrder, Typed, Becomes
  <2>4. AttemptsShaped'
    <3>1. AttemptShape(att'[s])
      BY <1>0, <1>41, <2>1 DEF ExitRecorded, Interrupts, AttemptsShaped, AttemptShape, Becomes
    <3> QED
      BY <2>1, <3>1 DEF AttemptsShaped, Becomes
  <2>5. HandedInOrder'
    <3>1. Marked(att'[s], count.handed[s])
      BY <1>0, <1>41, <2>1 DEF ExitRecorded, Interrupts, HandedInOrder, Marked, HandoffAt, Becomes
    <3> QED
      BY <1>0, <1>41, <2>1, <3>1, HandoffKept DEF ExitRecorded, Interrupts, Becomes, Typed, ActorRow
  <2>6. UncertainHolds'
    BY <1>41, <2>1 DEF ExitRecorded, Interrupts, UncertainHolds, Running, Typed, RunRow, Becomes
  <2>7. CancelFences'
    BY <1>41, <2>1 DEF ExitRecorded, Interrupts, CancelFences, Over, Running, Typed, RunRow, Becomes
  <2> QED
    BY <1>41, <2>1, <2>2, <2>3, <2>4, <2>5, <2>6, <2>7, Frames DEF ExitRecorded, Interrupts
<1>42. ASSUME NEW s \in Steps, NEW g \in 1..MaxGen, NEW o \in Outcomes, Reports(s, g, o)
      PROVE  Safe'
  <2>1. Becomes(s, "reported", o, att[s].gen, att[s].bound, att[s].cont) \/ UNCHANGED att
    <3>1. att' = [att EXCEPT ![s] = [@ EXCEPT !.st = "reported", !.out = o]] \/ UNCHANGED att
      BY <1>42 DEF Reports
    <3> QED
      BY <3>1, StateSet
  <2>2. AgentBound'
    BY <1>42, <2>1 DEF Reports, Asks, Hearable, AgentBound, Typed, Becomes
  <2>3. RowInOrder'
    <3>1. \/ UNCHANGED <<att, node>>
          \/ /\ att[s].st = "running" /\ node[s] = "running" /\ att'[s].st # "running"
             /\ \A t \in Steps \ {s} : att'[t] = att[t] /\ node'[t] = node[t]
             /\ node'[s] \in {"running", "suspended"}
      <4> DEFINE heard == ~ run.expired /\ g = att[s].gen /\ att[s].st = "running"
      <4>1. CASE ~ heard
        BY <1>42, <4>1 DEF Reports
      <4>2. CASE heard
        <5>1. UNCHANGED node \/ node' = [node EXCEPT ![s] = "suspended"]
          BY <1>42, <4>2 DEF Reports, Asks
        <5>2. Becomes(s, "reported", o, att[s].gen, att[s].bound, att[s].cont)
          BY <1>42, <4>2, StateSet DEF Reports
        <5>3. node[s] = "running"
          BY <4>2 DEF RowInOrder
        <5> QED
          BY <4>2, <5>1, <5>2, <5>3 DEF Becomes, Typed
      <4> QED
        BY <4>1, <4>2
    <3> QED
      BY <3>1 DEF RowInOrder
  <2>4. AttemptsShaped'
    <3>1. AttemptShape(att'[s])
      BY <1>0, <1>42, <2>1 DEF Reports, Asks, Hearable, AttemptsShaped, AttemptShape, Becomes
    <3> QED
      BY <2>1, <3>1 DEF AttemptsShaped, Becomes
  <2>5. HandedInOrder'
    <3>1. Marked(att'[s], count.handed[s])
      <4>1. \/ UNCHANGED att
            \/ att[s].cont \in {"none", "delivered"}
        BY <1>0, <1>42 DEF Reports, Hearable, AttRow
      <4>2. Marked(att[s], count.handed[s]) /\ (att[s].st = "none" => UNCHANGED att)
        BY <1>42 DEF HandedInOrder, Reports
      <4> QED
        BY <2>1, <4>1, <4>2 DEF Marked, Becomes
    <3> QED
      BY <1>0, <1>42, <2>1, <3>1, HandoffKept DEF Reports, Asks, Becomes, Typed, ActorRow, Hearable, HandedInOrder, HandoffAt
  <2>6. CancelFences'
    BY <1>42, <2>1 DEF Reports, Asks, Hearable, CancelFences, Over, Running, Typed, RunRow, Becomes
  <2> QED
    BY <1>42, <2>1, <2>2, <2>3, <2>4, <2>5, <2>6, Frames DEF Reports, Asks
<1>43. ASSUME NEW s \in Steps, SettlesEffect(s)
      PROVE  Safe'
  <2>1. AgentBound'
    BY <1>43 DEF SettlesEffect, Commanded, AgentBound, Typed
  <2>2. LaunchesOnce'
    BY <1>43 DEF SettlesEffect, Commanded, LaunchesOnce, LaunchOnce, Typed, TaskPcs, Results, Counts
  <2>3. HandedInOrder'
    BY <1>43, HandoffFrame DEF SettlesEffect, Commanded, Typed, ActorRow
  <2>4. UncertainHolds'
    BY <1>43 DEF SettlesEffect, Commanded, UncertainHolds, Running, Typed, RunRow
  <2>5. CancelFences'
    BY <1>43 DEF SettlesEffect, Commanded, CancelFences, Over, Running, Typed, RunRow
  <2> QED
    BY <1>43, <2>1, <2>2, <2>3, <2>4, <2>5, Frames DEF SettlesEffect, Commanded
<1>44. ASSUME NEW s \in Steps, AnswersQuestion(s)
      PROVE  Safe'
  <2>1. Becomes(s, "running", "none", att[s].gen + 1, att[s].bound, "pending")
    BY <1>0, <1>44 DEF AnswersQuestion, Commanded, Eligible, Becomes, Typed
  <2>2. AgentBound'
    BY <1>44, <2>1 DEF AnswersQuestion, Commanded, Eligible, AgentBound, Typed, Becomes
  <2>3. RowInOrder'
    BY <1>44, <2>1 DEF AnswersQuestion, Commanded, Eligible, RowInOrder, Typed, Becomes
  <2>4. AttemptsShaped'
    <3>1. AttemptShape(att'[s])
      BY <1>0, <1>44, <2>1 DEF AnswersQuestion, Commanded, Eligible, AttemptsShaped, AttemptShape, AttemptsShaped, AttemptShape, Becomes
    <3> QED
      BY <2>1, <3>1 DEF AttemptsShaped, Becomes
  <2>5. HandedInOrder'
    <3>1. Marked(att'[s], count.handed[s])
      BY <1>0, <1>44, <2>1 DEF AnswersQuestion, Commanded, Eligible, AttemptsShaped, AttemptShape, HandedInOrder, Marked, HandoffAt, Becomes
    <3> QED
      BY <1>0, <1>44, <2>1, <3>1, HandoffKept DEF AnswersQuestion, Commanded, Eligible, Becomes, Typed, ActorRow, Eligible, HandedInOrder, Marked, HandoffAt
  <2>6. CancelFences'
    BY <1>44, <2>1 DEF AnswersQuestion, Commanded, Eligible, CancelFences, Over, Running, Typed, RunRow, Becomes
  <2> QED
    BY <1>44, <2>1, <2>2, <2>3, <2>4, <2>5, <2>6, Frames DEF AnswersQuestion, Commanded, Eligible
<1>45. ASSUME NEW s \in Steps, RevisesQuestion(s)
      PROVE  Safe'
  <2>1. AgentBound'
    BY <1>45 DEF RevisesQuestion, Commanded, AgentBound, Typed
  <2>2. HandedInOrder'
    BY <1>45, HandoffFrame DEF RevisesQuestion, Commanded, Typed, ActorRow
  <2> QED
    BY <1>45, <2>1, <2>2, Frames DEF RevisesQuestion, Commanded
<1>46. ASSUME NEW s \in Steps, QuestionDue(s)
      PROVE  Safe'
  <2>1. AgentBound'
    BY <1>46 DEF QuestionDue, AgentBound, Typed
  <2> QED
    BY <1>46, <2>1, HandoffFrame, Frames DEF QuestionDue
<1>47. CASE UNCHANGED wfVars
  BY <1>47, Frames, HandoffFrame
<1> QED
  BY <1>1, <1>2, <1>3, <1>4, <1>5, <1>6, <1>7, <1>8, <1>9, <1>10, <1>11, <1>12, <1>13, <1>14, <1>15, <1>16, <1>17, <1>18, <1>19, <1>20, <1>21, <1>22, <1>23, <1>24, <1>25, <1>26, <1>27, <1>28, <1>29, <1>30, <1>31, <1>32, <1>33, <1>34, <1>35, <1>36, <1>37, <1>38, <1>39, <1>40, <1>41, <1>42, <1>43, <1>44, <1>45, <1>46, <1>47
     DEF WfNext, Actor, Turn, Recovery, Launch, Agent, Operator

LEMMA InvInit ==
  ASSUME WorkflowAssumption, WfInit
  PROVE  WfInv
<1>1. Typed
  <2>1. /\ run \in RunRow /\ node \in [Steps -> NodeState] /\ eff \in [Steps -> EffState]
        /\ proc \in [Steps -> ProcState] /\ task \in [Steps -> TaskPcs]
        /\ rid \in [Steps -> SUBSET (1..MaxGen)] /\ fresh \subseteq 0..View
    BY DEF WfInit, RunRow, NodeState, EffState, ProcState, TaskPcs
  <2>2. att \in [Steps -> AttRow]
    BY DEF WfInit, AttRow, NoAttempt, WorkflowAssumption
  <2>3. ques \in [Steps -> QuesRow]
    BY DEF WfInit, QuesRow
  <2>4. told \in [Steps -> 0..MaxGen] /\ inbox \in [Steps -> 0..MaxGen]
    BY DEF WfInit, WorkflowAssumption
  <2>5. actor \in ActorRow
    BY Readers DEF WfInit, Down, ActorRow, Pcs, Tick
  <2>6. count \in Counts
    BY DEF WfInit, Counts
  <2> QED
    BY <2>1, <2>2, <2>3, <2>4, <2>5, <2>6 DEF Typed
<1>2. AgentBound /\ AttemptsShaped
  BY DEF WfInit, AgentBound, AttemptsShaped, AttemptShape, NoAttempt
<1>3. RowInOrder
  BY DEF WfInit, RowInOrder, NoAttempt, Steps
<1>4. LaunchesOnce
  BY DEF WfInit, LaunchesOnce, LaunchOnce
<1>5. HandedInOrder
  BY Readers DEF WfInit, HandedInOrder, Marked, HandoffAt, NoAttempt, Down
<1>6. UncertainHolds /\ CancelFences
  BY DEF WfInit, UncertainHolds, CancelFences, Over
<1> QED
  BY <1>1, <1>2, <1>3, <1>4, <1>5, <1>6 DEF WfInv

LEMMA InvStep ==
  ASSUME WorkflowAssumption, WfInv, [WfNext]_wfVars
  PROVE  WfInv'
BY TypeStep, SafeStep DEF WfInv, Safe

LEMMA InvCorrect == WfSpec => []WfInv
<1>1. WfInit => WfInv
  BY InvInit, WorkflowAssumption
<1>2. WfInv /\ [WfNext]_wfVars => WfInv'
  BY InvStep, WorkflowAssumption
<1> QED
  BY <1>1, <1>2, PTL DEF WfSpec

-----------------------------------------------------------------------------
(* Theorems. *)

\* Every state of a run is well formed: a bound attempt has a spawn effect that succeeded,
\* and an open question belongs to a suspended step (reducer.rs, questions.rs).
THEOREM WorkflowTypes == WfSpec => []TypeWf
<1>1. WfInv => TypeWf
  BY DEF WfInv, Typed, AgentBound, TypeWf, RunRow, NodeState, AttRow, EffState, ProcState, ActorRow
<1> QED
  BY <1>1, InvCorrect, PTL

\* However often a launch fails, is dropped by its actor or cut off by the death of the
\* daemon, an attempt gets one process at most (spawn_agent).
THEOREM AgentsStartOnce == WfSpec => []OneAgentPerAttempt
<1>1. WfInv => OneAgentPerAttempt
  BY DEF WfInv, LaunchesOnce, LaunchOnce, OneAgentPerAttempt
<1> QED
  BY <1>1, InvCorrect, PTL

\* A run that runs has no spawn effect of unknown outcome (validate_resume).
THEOREM UncertainEffectHolds == WfSpec => []UncertainHolds
<1>1. WfInv => UncertainHolds
  BY DEF WfInv
<1> QED
  BY <1>1, InvCorrect, PTL

\* Each answer goes into the inbox once, and no report is heard before it (continuation.rs,
\* choose_event).
THEOREM AnswersGoOnce == WfSpec => []AnswersHandedOnce
<1>1. WfInv => AnswersHandedOnce
  <2> SUFFICES ASSUME WfInv, NEW s \in Steps
               PROVE  /\ att[s].st # "none" => count.handed[s] < att[s].gen
                      /\ att[s].st = "reported" => count.handed[s] + 1 = att[s].gen
    BY DEF AnswersHandedOnce
  <2>1. att[s].gen \in Nat /\ count.handed[s] \in Nat
        /\ att[s].cont \in {"none", "pending", "started", "delivered"}
    BY DEF WfInv, Typed, AttRow, Counts
  <2>2. Marked(att[s], count.handed[s])
    BY DEF WfInv, HandedInOrder
  <2> QED
    BY <2>1, <2>2 DEF Marked
<1> QED
  BY <1>1, InvCorrect, PTL

\* A cancelled run keeps no intent and no running attempt (Cancelled).
THEOREM CancelLeavesNoIntent == WfSpec => []CancelFences
<1>1. WfInv => CancelFences
  BY DEF WfInv
<1> QED
  BY <1>1, InvCorrect, PTL
=============================================================================
