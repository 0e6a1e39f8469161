---------------------------- MODULE WorkflowGraph ----------------------------
(***************************************************************************)
(* Parallel regions of a workflow run (workflows/run/parallel.rs, graph.rs): *)
(* forks with their branches and generations, the all-Join, the repair that  *)
(* supersedes a generation, and what works for the branches: agents, their   *)
(* launches, and checks that run beside the actor under a claim              *)
(* (runtime/effects.rs, runtime/policy.rs).  The life of one attempt is      *)
(* WorkflowRun; here a launch has three stages and an agent one report.      *)
(*                                                                           *)
(* A fork is named by the index of its activation, which is its generation   *)
(* as well.  fresh holds the readers whose snapshot is still the latest.     *)
(***************************************************************************)
EXTENDS Naturals, Sequences, FiniteSets

CONSTANTS
  Plans,        \* the runs to look at: definition, limits and bounds of each
  MaxSlots      \* bound: the most activations a plan allows

(***************************************************************************)
(* A plan is a published definition (node -> record with its kind and        *)
(* successors) with the region each node is in, the limits of its run        *)
(* (parallel: max_parallel_stories, loops: max_loops, acts: MAX_ACTIVATIONS), *)
(* and the bounds of the model: deaths of the daemon, pauses by the operator, *)
(* launches the actor lets go of, agents that leave by themselves, checks     *)
(* that the actor itself runs.                                               *)
(***************************************************************************)
Bounds   == [crash : Nat, pause : Nat, letgo : Nat, exit : Nat, ran : Nat]
Outcomes == {"completed", "failed", "skipped"}
Kinds    == {"start", "work", "agent", "gate", "fork", "foreach", "join", "loop", "pause", "end"}

\* The outcomes a node has an edge for.
Labels(kind) == CASE kind = "gate" -> {"pass", "fail"}
                  [] kind = "join" -> Outcomes
                  [] kind = "loop" -> {"repeat", "exhausted"}
                  [] kind \in {"fork", "foreach", "end"} -> {}
                  [] OTHER -> {"next"}

\* validate_regions: region[n] is the innermost fork or for-each that node n works for.  An edge
\* stays in its region or reaches the join of it; a branch starts inside, and not at a join; the
\* join of a region is where the fork is; the repair of a fork is a work step outside every region.
Regular(g, region) ==
  LET Forks == {n \in DOMAIN g : g[n].kind \in {"fork", "foreach"}}
      Inside(r) == {t \in DOMAIN g : region[t] = r /\ g[t].kind # "join"}
  IN /\ region \in [DOMAIN g -> Forks \cup {"none"}] /\ "none" \notin DOMAIN g
     /\ "start" \in DOMAIN g /\ g["start"].kind = "start" /\ region["start"] = "none"
     /\ \A n \in DOMAIN g :
          /\ g[n].kind \in Kinds /\ (g[n].kind \in {"end", "loop", "work"} => region[n] = "none")
          /\ \A l \in Labels(g[n].kind) :
               \/ g[n].next[l] \in Inside(region[n])
               \/ region[n] # "none" /\ g[n].next[l] = g[region[n]].join
          /\ g[n].kind = "loop" => g[n].max \in Nat
     /\ \A n \in Forks : g[n].join \in DOMAIN g /\ g[g[n].join].kind = "join" /\ region[g[n].join] = region[n]
     /\ \A n \in Forks : g[n].kind = "foreach" =>
          g[n].body \in Inside(n) /\ g[n].sizes \subseteq Nat /\ g[n].empty \in Outcomes
     /\ \A n \in Forks : g[n].kind = "fork" =>
          /\ g[n].branches \in Seq([to : Inside(n), req : BOOLEAN]) \ {<<>>}
          /\ g[n].repair # "none" =>
               g[n].repair \in Inside("none") /\ g[g[n].repair].kind = "work" /\ region[n] = "none"

ASSUME PlansAssumption ==
  /\ MaxSlots \in Nat
  /\ \A p \in DOMAIN Plans : /\ Plans[p].parallel \in Nat \ {0} /\ Plans[p].loops \in Nat
                           /\ Plans[p].acts \in 1..MaxSlots /\ Plans[p].bounds \in Bounds
                           /\ Regular(Plans[p].graph, Plans[p].region)

Slots == 1..MaxSlots
View  == 0          \* the actor's snapshot, as a reader

VARIABLES
  run,      \* its plan, status, loops used, and the receipt of a check outside every region
  acts,     \* activations, in the order they were reached
  forks,    \* forks[f]: state, arrivals of the fork that activation f opened
  checks,   \* receipts bound to a branch, in order
  repeats,  \* repeats[n]: times Loop node n has repeated
  att,      \* att[i]: the attempt of activation i
  eff,      \* eff[i]: its spawn effect
  lau,      \* lau[i]: the launch in flight
  proc,     \* proc[i]: the agent process
  chk,      \* chk[i]: the check task
  actor,    \* the run actor: where it is, and the launch or fork it is at
  fresh,    \* readers whose snapshot is the latest
  count     \* history for the bounds, and checks the actor ran

graph  == <<acts, forks, checks, repeats>>
work   == <<att, eff, lau, proc>>
wgVars == <<run, graph, work, chk, actor, fresh, count>>

Graph       == Plans[run.plan].graph
MaxParallel == Plans[run.plan].parallel
MaxLoops    == Plans[run.plan].loops
MaxActs     == Plans[run.plan].acts
Bound       == Plans[run.plan].bounds

Running == run.status = "running"
Over    == run.status = "cancelled"
Done    == \E i \in DOMAIN acts : Graph[acts[i].node].kind = "end" /\ acts[i].st = "completed"
Acts    == DOMAIN acts
Node(i) == Graph[acts[i].node]
Kind(i) == Node(i).kind
Least(S)   == CHOOSE i \in S : \A j \in S : i <= j
Highest(S) == CHOOSE i \in S : \A j \in S : i >= j

\* Every commit leaves earlier snapshots behind; emit_run_changed wakes the actor.
Moves == fresh' = {}
Awake == [actor EXCEPT !.pc = IF @ = "asleep" THEN "turn" ELSE @]

-----------------------------------------------------------------------------
(* The token ledger: a token <<fork, branch>> per region around an activation. *)

NewAct(node, toks) ==
  [node |-> node, st |-> "ready", toks |-> toks, claim |-> "none", wait |-> FALSE, join |-> 0, heir |-> 0]
NoFork  == [st |-> "none", arr |-> <<>>, empty |-> "none"]

In(i, f)   == \E k \in DOMAIN acts[i].toks : acts[i].toks[k][1] = f
Gen(f)     == {i \in Acts : In(i, f)}
Token(i)   == acts[i].toks[Len(acts[i].toks)]
Branch(i)  == acts[i].toks # <<>>
JoinOf(f)  == Node(f).join
Stale(i)   == \E k \in DOMAIN acts[i].toks : forks[acts[i].toks[k][1]].st \in {"cancelling", "superseded"}
Room(k)    == Len(acts) + k <= MaxActs
Branches(f) == DOMAIN forks[f].arr

\* pause_failure, after a turn or an effect that returned an error.
Fails(pc) ==
  /\ run' = [run EXCEPT !.status = "paused"] /\ Moves /\ actor' = [actor EXCEPT !.pc = pc]

\* Slip: the budget is not looked at.
CommitsAll(as, fs, r) == acts' = as /\ forks' = fs /\ run' = r /\ actor' = Awake /\ Moves

\* enqueue has its budget of activations; beyond it the turn fails as a whole.
Commits(as, fs, r) ==
  IF Len(as) <= MaxActs THEN acts' = as /\ forks' = fs /\ run' = r /\ actor' = Awake /\ Moves
  ELSE Fails("asleep") /\ UNCHANGED <<acts, forks>>

Required(f, b) == Kind(f) = "foreach" \/ Node(f).branches[b].req

\* ForkInstance::outcome: the first required arrival that is not completed.
Outcome(f) ==
  LET bad == {b \in Branches(f) : Required(f, b) /\ forks[f].arr[b] # "completed"}
  IN IF Branches(f) = {} THEN forks[f].empty
     ELSE IF bad = {} THEN "completed" ELSE forks[f].arr[Least(bad)]

\* Slip: any arrival reaches the join.
ReleasedEarly(as, fs, f, r) ==
  Commits(Append(as, [NewAct(Node(f).join, as[f].toks) EXCEPT !.join = f]),
          [fs EXCEPT ![f].st = "joined"], r)

\* release_join: the last arrival reaches the join, which has an id of its own.
Released(as, fs, f, r) ==
  IF \E b \in DOMAIN fs[f].arr : fs[f].arr[b] = "none" THEN Commits(as, fs, r)
  ELSE Commits(Append(as, [NewAct(Node(f).join, as[f].toks) EXCEPT !.join = f]),
               [fs EXCEPT ![f].st = "joined"], r)

\* Slip: the activation that arrived is not completed.
ArrivesUnsettled(i, o, r) ==
  LET f == Token(i)[1] b == Token(i)[2] IN
  /\ forks[f].st = "open" /\ forks[f].arr[b] = "none"
  /\ Released(acts, [forks EXCEPT ![f].arr[b] = o], f, r)

\* arrive: the branch of the activation's innermost token settles, once.
Arrives(i, o, r) ==
  LET f == Token(i)[1] b == Token(i)[2] IN
  /\ forks[f].st = "open" /\ forks[f].arr[b] = "none"
  /\ Released([acts EXCEPT ![i].st = "completed"], [forks EXCEPT ![f].arr[b] = o], f, r)

\* follow_parallel_edge, and apply for a node outside a region: the edge to the join of the
\* region is an arrival, any other edge reaches its target with the same tokens.
Follows(i, label, arrival, r) ==
  LET target == Node(i).next[label] IN
  IF Branch(i) /\ JoinOf(Token(i)[1]) = target THEN Arrives(i, arrival, r)
  ELSE Commits(Append([acts EXCEPT ![i].st = "completed"], NewAct(target, acts[i].toks)), forks, r)

\* open_fork: one activation per branch, each under a token of its own.
Opens(i, targets, empty) ==
  LET as == [acts EXCEPT ![i].st = "completed"] \o
            [b \in DOMAIN targets |-> NewAct(targets[b], Append(acts[i].toks, <<i, b>>))]
      fs == [forks EXCEPT ![i] = [st |-> "open", arr |-> [b \in DOMAIN targets |-> "none"],
                                  empty |-> empty]]
  IN IF Room(Len(targets) + 1) THEN Released(as, fs, i, run) ELSE Fails("asleep") /\ UNCHANGED <<acts, forks>>

-----------------------------------------------------------------------------
(* Capacity: attempts that hold a slot, and claims. *)

HoldsSlot(i) == \/ att[i].st = "running"
                \/ /\ att[i].st # "none"
                   /\ \E k \in DOMAIN acts[i].toks : forks[acts[i].toks[k][1]].st = "cancelling"

Used == Cardinality({i \in Acts : HoldsSlot(i)}) + Cardinality({i \in Acts : acts[i].claim # "none"})

-----------------------------------------------------------------------------
(* Receipts: gate_for_activation. *)

ReceiptsOf(S) == {k \in DOMAIN checks : checks[k].act \in S}

\* current_check_receipts: a branch reads its own, a consumer outside reads those of the
\* latest region, and only without one (or an empty one) those of the story.
Region == {f \in Slots : forks[f].st \in {"open", "joined"} /\ acts[f].toks = <<>>}
Receipt(i) ==
  LET latest(S) == IF S = {} THEN "none" ELSE checks[Highest(S)].out IN
  IF Branch(i) THEN latest(ReceiptsOf({i}))
  ELSE IF Region # {} /\ Branches(Highest(Region)) # {}
       THEN latest(ReceiptsOf({j \in Gen(Highest(Region)) : Token(j)[1] = Highest(Region)}))
       ELSE run.receipt

-----------------------------------------------------------------------------
(* The deterministic turn (drive_turn): the first activation that can move, moves. *)

Worker(i) == Kind(i) \in {"work", "agent"}
Decided(i) ==
  \/ Kind(i) \in {"start", "fork", "foreach", "join", "loop", "pause", "end"}
  \/ Worker(i) /\ att[i].st # "running"
       /\ ~ (att[i].st = "none" /\ Branch(i) /\ Used >= MaxParallel /\ acts[i].wait)
  \/ Kind(i) = "gate" /\ Receipt(i) # "none"

Movable == {i \in Acts : acts[i].st = "ready" \/ (acts[i].st = "running" /\ Decided(i))}
First   == IF actor.pc = "turn" /\ Running /\ ~ Done /\ Movable # {} THEN {Least(Movable)} ELSE {}

Quiet == UNCHANGED <<work, chk, count>>

Activates(i) ==
  /\ acts[i].st = "ready"
  /\ acts' = [acts EXCEPT ![i].st = "running"] /\ Moves
  /\ Quiet /\ UNCHANGED <<run, actor, forks, checks, repeats>>

At(i, k) == acts[i].st = "running" /\ Kind(i) = k

ReachesNext(i) ==
  /\ At(i, "start") /\ Follows(i, "next", "completed", run)
  /\ Quiet /\ UNCHANGED <<checks, repeats>>

OpensFork(i) ==
  /\ At(i, "fork")
  /\ Opens(i, [b \in DOMAIN Node(i).branches |-> Node(i).branches[b].to], "none")
  /\ Quiet /\ UNCHANGED <<checks, repeats>>

\* Expand: as many branches as the committed report has items.
Expands(i) ==
  /\ At(i, "foreach")
  /\ \E n \in Node(i).sizes : Opens(i, [b \in 1..n |-> Node(i).body], Node(i).empty)
  /\ Quiet /\ UNCHANGED <<checks, repeats>>

PassesJoin(i) ==
  /\ At(i, "join")
  /\ LET o == Outcome(acts[i].join) IN Follows(i, o, o, run)
  /\ Quiet /\ UNCHANGED <<checks, repeats>>

PassesGate(i) ==
  /\ At(i, "gate")
  /\ LET o == Receipt(i)
     IN IF Room(1) THEN Follows(i, o, IF o = "pass" THEN "completed" ELSE "failed", run)
        ELSE Fails("asleep") /\ UNCHANGED <<acts, forks>>
  /\ Quiet /\ UNCHANGED <<checks, repeats>>

\* Loop: its own cap and the run's budget.
Loops(i) ==
  /\ At(i, "loop")
  /\ LET n == acts[i].node
         again == repeats[n] < Graph[n].max /\ run.loops < MaxLoops
     IN /\ Follows(i, IF again THEN "repeat" ELSE "exhausted", "completed",
                   IF again THEN [run EXCEPT !.loops = @ + 1] ELSE run)
        /\ repeats' = IF run'.loops > run.loops THEN [repeats EXCEPT ![n] = @ + 1] ELSE repeats
  /\ Quiet /\ UNCHANGED checks

Holds(i) ==
  /\ At(i, "pause")
  /\ acts' = [acts EXCEPT ![i].st = "paused"] /\ run' = [run EXCEPT !.status = "paused"]
  /\ Moves /\ Quiet /\ UNCHANGED <<actor, forks, checks, repeats>>

Ends(i) ==
  /\ At(i, "end")
  /\ acts' = [acts EXCEPT ![i].st = "completed"]
  /\ Moves /\ Quiet /\ UNCHANGED <<run, actor, forks, checks, repeats>>

\* An agent's turn, by the state of its attempt.
AtAgent(i, st) == acts[i].st = "running" /\ Worker(i) /\ att[i].st = st

\* A branch waits for a slot, and stops waiting, in the ledger.
MarksWait(i) ==
  /\ AtAgent(i, "none") /\ Branch(i) /\ acts[i].wait # (Used >= MaxParallel)
  /\ acts' = [acts EXCEPT ![i].wait = ~ @]
  /\ Moves /\ Quiet /\ UNCHANGED <<run, actor, forks, checks, repeats>>

StartsAttempt(i) ==
  /\ AtAgent(i, "none") /\ (Branch(i) => Used < MaxParallel /\ ~ acts[i].wait)
  /\ att' = [att EXCEPT ![i] = [st |-> "running", out |-> "none", bound |-> FALSE]]
  /\ Moves /\ UNCHANGED <<run, graph, eff, lau, proc, chk, actor, count>>

\* A report of a critic that asks for a fix supersedes the region that has a repair.
Repairable(i) == {f \in Slots : In(i, f) /\ Kind(f) = "fork" /\ Node(f).repair # "none"}
Fix(i) == Branch(i) /\ att[i].out = "fix"

\* SupersedeFork: one event fences the unfinished work of the generation and ends the
\* regions inside it; claims stay until the stop.
SupersedesFork(i) ==
  /\ AtAgent(i, "reported") /\ Fix(i) /\ Repairable(i) # {} /\ run.loops < MaxLoops
  /\ LET f == Highest(Repairable(i)) IN
       /\ forks' = [n \in Slots |-> IF n = f THEN [forks[n] EXCEPT !.st = "cancelling"]
                      ELSE IF n \in Acts /\ In(n, f) /\ forks[n].st # "none"
                           THEN [forks[n] EXCEPT !.st = "superseded"] ELSE forks[n]]
       /\ acts' = [j \in Acts |-> IF In(j, f) /\ acts[j].st # "completed"
                                  THEN [acts[j] EXCEPT !.st = "superseded", !.wait = FALSE] ELSE acts[j]]
       /\ att' = [j \in Slots |-> IF j \in Gen(f) /\ att[j].st = "running"
                                  THEN [att[j] EXCEPT !.st = "interrupted", !.out = "interrupted"] ELSE att[j]]
  /\ run' = [run EXCEPT !.loops = @ + 1]
  /\ Moves /\ UNCHANGED <<checks, repeats, eff, lau, proc, chk, actor, count>>

\* No region to repair, or no repair left in the budget.
RefusesRepair(i) ==
  /\ AtAgent(i, "reported") /\ Fix(i) /\ (Repairable(i) = {} \/ run.loops = MaxLoops)
  /\ Fails("asleep") /\ UNCHANGED <<graph, work, chk, count>>

Broken(i) == att[i].out \in {"failed", "interrupted"}

BranchFails(i) ==
  /\ \E st \in {"reported", "interrupted"} : AtAgent(i, st)
  /\ Branch(i) /\ Broken(i) /\ Arrives(i, "failed", run)
  /\ Quiet /\ UNCHANGED <<checks, repeats>>

\* A step outside every region whose attempt did not complete holds the run.
PausesIncomplete(i) ==
  /\ \E st \in {"reported", "interrupted"} : AtAgent(i, st)
  /\ ~ Branch(i) /\ Broken(i)
  /\ run' = [run EXCEPT !.status = "paused"] /\ Moves
  /\ UNCHANGED <<graph, work, chk, actor, count>>

CompletesAgent(i) ==
  /\ AtAgent(i, "reported") /\ att[i].out = "completed"
  /\ Follows(i, "next", "completed", run) /\ Quiet /\ UNCHANGED <<checks, repeats>>

-----------------------------------------------------------------------------
(* The effect of a turn that has nothing left to move (drive_effect). *)

TurnEnds   == actor.pc = "turn" /\ Running /\ (Done \/ Movable = {})
Cancelling == {f \in Slots : forks[f].st = "cancelling"}

NeedsCheck(i) == /\ Kind(i) = "gate" /\ Receipt(i) = "none" /\ acts[i].claim = "none"
                 /\ ~ (Branch(i) /\ acts[i].wait /\ Used >= MaxParallel)
NeedsAgent(i) == Worker(i) /\ att[i].st = "running" /\ ~ att[i].bound
Waiting == {i \in Acts : acts[i].st = "running" /\ (NeedsCheck(i) \/ NeedsAgent(i))}
Effect  == IF TurnEnds /\ Cancelling = {} /\ Waiting # {} THEN {Least(Waiting)} ELSE {}

\* spawn_agent: the intent under its only key, then the launch, which the actor awaits.
Reserves(i) ==
  /\ NeedsAgent(i) /\ eff[i] = "none"
  /\ eff' = [eff EXCEPT ![i] = "intended"] /\ lau' = [lau EXCEPT ![i] = "check"]
  /\ actor' = [pc |-> "driving", at |-> i] /\ Moves
  /\ UNCHANGED <<run, graph, att, proc, chk, count>>

RefusesSpawn(i) ==
  /\ NeedsAgent(i) /\ eff[i] # "none"
  /\ Fails("turn") /\ UNCHANGED <<graph, work, chk, count>>

\* drive_policy_effect: a check of a branch takes a slot, as a claim, or waits for one.
WaitsToCheck(i) ==
  /\ NeedsCheck(i) /\ Branch(i) /\ Used >= MaxParallel
  /\ acts' = [acts EXCEPT ![i].wait = TRUE] /\ Moves
  /\ Quiet /\ UNCHANGED <<run, actor, forks, checks, repeats>>

ClaimsCheck(i) ==
  /\ NeedsCheck(i) /\ Branch(i) /\ Used < MaxParallel
  /\ acts' = [acts EXCEPT ![i] = [@ EXCEPT !.claim = "mine", !.wait = FALSE]]
  /\ chk' = [chk EXCEPT ![i] = [at |-> "exec", out |-> "none", res |-> "ok"]] /\ fresh' = {i}
  /\ UNCHANGED <<run, forks, checks, repeats, work, actor, count>>

\* A check outside every region runs in the actor and is recorded for the story.
RunsCheck(i) ==
  \E o \in {"pass", "fail"} :
    /\ NeedsCheck(i) /\ ~ Branch(i) /\ count.ran < Bound.ran
    /\ run' = [run EXCEPT !.receipt = o] /\ count' = [count EXCEPT !.ran = @ + 1] /\ Moves
    /\ UNCHANGED <<graph, work, chk, actor>>

\* stop_cancelled_fork: no stop is known for a check of another daemon, for a spawn without
\* an outcome, or for an agent whose exit nobody recorded.
UnknownCheck(f) == \E i \in Gen(f) : acts[i].claim = "other"
UnknownSpawn(i) == eff[i] \in {"intended", "uncertain"} /\ ~ att[i].bound
UnknownExit(i)  == att[i].bound /\ proc[i] \in {"gone", "lost"}
Unknown(f) == \E i \in Gen(f) : UnknownSpawn(i) \/ UnknownExit(i)

\* The agents before the first unknown one are killed.
Killed(f) == {i \in Gen(f) : att[i].bound /\ proc[i] = "live" /\
                \A j \in Gen(f) : j < i => ~ (UnknownSpawn(j) \/ UnknownExit(j))}

\* Slip: an agent that cannot be stopped does not hold the repair.
KillsLoosely ==
  /\ TurnEnds /\ Cancelling # {}
  /\ actor' = [pc |-> "stopping", at |-> Least(Cancelling)] /\ fresh' = fresh \cup {View}
  /\ UNCHANGED <<run, graph, work, chk, count>>

KillsGeneration ==
  /\ TurnEnds /\ Cancelling # {}
  /\ LET f == Least(Cancelling) IN
       IF UnknownCheck(f) THEN Fails("turn") /\ UNCHANGED <<chk, proc>>
       ELSE /\ chk' = [i \in Slots |-> IF i \in Gen(f) /\ chk[i].at = "exec"
                                       THEN [chk[i] EXCEPT !.at = "look", !.res = "err"] ELSE chk[i]]
            /\ proc' = [i \in Slots |-> IF i \in Killed(f) THEN "dead" ELSE proc[i]]
            /\ IF Unknown(f) THEN Fails("turn")
               ELSE actor' = [pc |-> "stopping", at |-> f] /\ fresh' = fresh \cup {View} /\ UNCHANGED run
  /\ UNCHANGED <<graph, att, eff, lau, count>>

\* Slip: the fork stays open to another stop.
StopsAgain ==
  LET f == actor.at IN
  /\ actor.pc = "stopping" /\ Room(1)
  /\ acts' = Append([i \in Acts |-> IF In(i, f) THEN [acts[i] EXCEPT !.claim = "none"] ELSE acts[i]],
                    [NewAct(Node(f).repair, acts[f].toks) EXCEPT !.heir = f])
  /\ forks' = [forks EXCEPT ![f].st = IF f = 1 THEN "superseded" ELSE @] /\ Moves
  /\ actor' = [actor EXCEPT !.pc = "turn"]
  /\ UNCHANGED <<run, work, chk, checks, repeats, count>>

\* ForkStopped: the repair is reached outside the generation, whose claims end.
StopsFork ==
  LET f == actor.at IN
  /\ actor.pc = "stopping"
  /\ IF View \notin fresh THEN actor' = [actor EXCEPT !.pc = "turn"] /\ UNCHANGED <<run, acts, forks, fresh>>
     ELSE IF ~ Room(1) THEN Fails("turn") /\ UNCHANGED <<acts, forks>>
     ELSE /\ acts' = Append([i \in Acts |-> IF In(i, f) THEN [acts[i] EXCEPT !.claim = "none"] ELSE acts[i]],
                            [NewAct(Node(f).repair, acts[f].toks) EXCEPT !.heir = f])
          /\ forks' = [forks EXCEPT ![f].st = "superseded"] /\ Moves
          /\ actor' = [actor EXCEPT !.pc = "turn"] /\ UNCHANGED run
  /\ UNCHANGED <<work, chk, checks, repeats, count>>

Rests ==
  /\ actor.pc = "turn" /\ (~ Running \/ (TurnEnds /\ Cancelling = {} /\ Waiting = {}))
  /\ actor' = [actor EXCEPT !.pc = "asleep"]
  /\ UNCHANGED <<run, graph, work, chk, fresh, count>>

\* The timer beside an effect fails: the actor lets go, and the launch goes on.
LetsGo ==
  /\ actor.pc = "driving" /\ count.letgo < Bound.letgo
  /\ actor' = [actor EXCEPT !.pc = "turn"] /\ count' = [count EXCEPT !.letgo = @ + 1]
  /\ UNCHANGED <<run, graph, work, chk, fresh>>

-----------------------------------------------------------------------------
(* Launches and agents. *)

Attached(i) == actor.pc = "driving" /\ actor.at = i
Bindable(i) == ~ Over /\ att[i].st = "running" /\ ~ att[i].bound /\ eff[i] = "intended"

\* A launch that failed closes its intent if it may, and the actor pauses the run.
LaunchFails(i, closes) ==
  /\ lau' = [lau EXCEPT ![i] = "none"]
  /\ eff' = IF eff[i] = "intended" /\ ~ Over /\ (closes \/ (Attached(i) /\ Running))
            THEN [eff EXCEPT ![i] = "failed"] ELSE eff
  /\ run' = IF Attached(i) /\ Running THEN [run EXCEPT !.status = "paused"] ELSE run
  /\ actor' = IF Attached(i) THEN [actor EXCEPT !.pc = "turn"] ELSE Awake
  /\ fresh' = IF eff' = eff /\ run' = run THEN fresh ELSE {}

LaunchChecks(i) ==
  /\ lau[i] = "check"
  /\ IF Running /\ Bindable(i) THEN lau' = [lau EXCEPT ![i] = "spawn"] /\ UNCHANGED <<eff, run, actor, fresh>>
     ELSE LaunchFails(i, run.status = "paused")
  /\ UNCHANGED <<graph, att, proc, chk, count>>

LaunchSpawns(i) ==
  /\ lau[i] = "spawn"
  /\ \/ /\ lau' = [lau EXCEPT ![i] = "bind"] /\ proc' = [proc EXCEPT ![i] = "live"]
        /\ UNCHANGED <<eff, run, actor, fresh>>
     \/ LaunchFails(i, TRUE) /\ UNCHANGED proc
  /\ UNCHANGED <<graph, att, chk, count>>

\* bind_agent, and the look at a child that left before it was bound; a child that cannot
\* be bound is killed.
LaunchBinds(i) ==
  /\ lau[i] = "bind"
  /\ IF Bindable(i)
     THEN /\ att' = [att EXCEPT ![i] = IF proc[i] = "live" THEN [@ EXCEPT !.bound = TRUE]
                       ELSE [st |-> "interrupted", out |-> "interrupted", bound |-> TRUE]]
          /\ run' = IF proc[i] # "live" THEN [run EXCEPT !.status = "paused"] ELSE run
          /\ eff' = [eff EXCEPT ![i] = "succeeded"] /\ lau' = [lau EXCEPT ![i] = "none"]
          /\ actor' = [Awake EXCEPT !.pc = IF Attached(i) THEN "turn" ELSE @] /\ Moves /\ UNCHANGED proc
     ELSE LaunchFails(i, FALSE) /\ proc' = [proc EXCEPT ![i] = "dead"] /\ UNCHANGED att
  /\ UNCHANGED <<graph, chk, count>>

\* Slip: the report wakes nobody.
ReportsQuietly(i, o) ==
  /\ ~ Over /\ proc[i] = "live" /\ att[i].bound /\ att[i].st = "running"
  /\ att' = [att EXCEPT ![i] = [@ EXCEPT !.st = "reported", !.out = o]] /\ Moves
  /\ UNCHANGED <<run, graph, eff, lau, proc, chk, actor, count>>

\* A report counts while its attempt runs; the work step changes the artifact.
AgentReports(i, o) ==
  /\ ~ Over /\ proc[i] = "live" /\ att[i].bound /\ att[i].st = "running"
  /\ o = "fix" => Kind(i) = "agent"
  /\ att' = [att EXCEPT ![i] = [@ EXCEPT !.st = "reported", !.out = o]]
  /\ run' = IF Kind(i) = "work" THEN [run EXCEPT !.receipt = "none"] ELSE run
  /\ actor' = Awake /\ Moves
  /\ UNCHANGED <<graph, eff, lau, proc, chk, count>>

\* The session leaves the map, then its exit is recorded, and interrupts the attempt.
AgentExits(i) ==
  /\ proc[i] = "live" /\ proc' = [proc EXCEPT ![i] = "gone"]
  /\ count.exits < Bound.exit /\ count' = [count EXCEPT !.exits = @ + 1]
  /\ UNCHANGED <<run, graph, att, eff, lau, chk, actor, fresh>>

ExitRecorded(i) ==
  /\ proc[i] = "gone" /\ proc' = [proc EXCEPT ![i] = "dead"]
  /\ IF ~ Over /\ att[i].bound /\ att[i].st = "running"
     THEN /\ att' = [att EXCEPT ![i] = [@ EXCEPT !.st = "interrupted", !.out = "interrupted"]]
          /\ run' = [run EXCEPT !.status = "paused"] /\ actor' = Awake /\ Moves
     ELSE UNCHANGED <<att, run, actor, fresh>>
  /\ UNCHANGED <<graph, eff, lau, chk, count>>

-----------------------------------------------------------------------------
(* A check beside the actor (run_claimed_policy, drive_policy, execute_check_owned). *)

ChkQuiet == UNCHANGED <<forks, repeats, work, count>>
Looks(i, r) == chk' = [chk EXCEPT ![i] = [@ EXCEPT !.at = "look", !.res = r]]

\* The process ends, and the run is read for the receipt; it does not start when the run has
\* moved since the claim.
CheckEnds(i) ==
  /\ chk[i].at = "exec"
  /\ \/ \E o \in {"pass", "fail"} :
          chk' = [chk EXCEPT ![i] = [@ EXCEPT !.at = "record", !.out = o]] /\ fresh' = fresh \cup {i}
     \/ Looks(i, "err") /\ UNCHANGED fresh
     \/ i \notin fresh /\ Looks(i, "contended") /\ UNCHANGED fresh
  /\ ChkQuiet /\ UNCHANGED <<run, acts, checks, actor>>

\* commit_completed_check; the run is read again for the binding.
CheckRecords(i) ==
  /\ chk[i].at = "record"
  /\ IF i \in fresh /\ Running
     THEN /\ chk' = [chk EXCEPT ![i].at = "bind"] /\ fresh' = {i}
          /\ run' = [run EXCEPT !.receipt = chk[i].out]
     ELSE Looks(i, IF i \in fresh THEN "err" ELSE "contended") /\ UNCHANGED <<run, fresh>>
  /\ ChkQuiet /\ UNCHANGED <<acts, checks, actor>>

\* CheckBound: the receipt becomes the branch's, and the claim ends.
CheckBinds(i) ==
  /\ chk[i].at = "bind"
  /\ IF i \in fresh /\ Running /\ acts[i].st = "running"
     THEN /\ checks' = Append(checks, [act |-> i, out |-> chk[i].out])
          /\ acts' = [acts EXCEPT ![i].claim = "none"] /\ Looks(i, "ok") /\ Moves
     ELSE Looks(i, IF i \in fresh THEN "err" ELSE "contended") /\ UNCHANGED <<checks, acts, fresh>>
  /\ ChkQuiet /\ UNCHANGED <<run, actor>>

CheckLooks(i) ==
  /\ chk[i].at = "look"
  /\ IF acts[i].st = "running"
     THEN chk' = [chk EXCEPT ![i].at = "release"] /\ fresh' = fresh \cup {i} /\ UNCHANGED actor
     ELSE chk' = [chk EXCEPT ![i].at = "none"] /\ actor' = Awake /\ UNCHANGED fresh
  /\ ChkQuiet /\ UNCHANGED <<run, acts, checks>>

\* The release is a command like any other: a run that moved or is paused refuses it, and
\* a refusal, or a check that failed, pauses the run.
CheckReleases(i) ==
  LET free == i \in fresh /\ Running IN
  /\ chk[i].at = "release" /\ chk' = [chk EXCEPT ![i].at = "none"] /\ actor' = Awake
  /\ acts' = IF free THEN [acts EXCEPT ![i].claim = "none"] ELSE acts
  /\ run'  = IF Running /\ (~ free \/ chk[i].res = "err") THEN [run EXCEPT !.status = "paused"] ELSE run
  /\ fresh' = IF free \/ run' # run THEN {} ELSE fresh
  /\ ChkQuiet /\ UNCHANGED checks

-----------------------------------------------------------------------------
(* The operator, and the death of the daemon. *)

Unresolved == \E i \in Acts : acts[i].st = "paused"
Certain    == \A i \in Slots : eff[i] # "uncertain"

PauseRun ==
  /\ Running /\ count.paused < Bound.pause
  /\ run' = [run EXCEPT !.status = "paused"] /\ count' = [count EXCEPT !.paused = @ + 1]
  /\ actor' = Awake /\ Moves /\ UNCHANGED <<graph, work, chk>>

\* validate_graph_recovery.
ResumeGraph ==
  /\ run.status = "paused" /\ ~ Unresolved /\ Certain
  /\ \E i \in Acts : acts[i].st \in {"ready", "running"}
  /\ run' = [run EXCEPT !.status = "running"] /\ actor' = Awake /\ Moves
  /\ UNCHANGED <<graph, work, chk, count>>

\* ResolvePause: the held activation goes on to resume_to, and with the last pause the run.
ResolvesPause(i) ==
  /\ run.status = "paused" /\ Certain /\ acts[i].st = "paused" /\ ~ Stale(i) /\ Room(1)
  /\ LET others == \E j \in Acts \ {i} : acts[j].st = "paused"
     IN Follows(i, "next", "completed", [run EXCEPT !.status = IF others THEN "paused" ELSE "running"])
  /\ Quiet /\ UNCHANGED <<checks, repeats>>

\* ResolveUncertainEffect and MarkEffect: the operator has looked, no launch is in flight.
SettlesEffect(i) ==
  /\ ~ Over /\ eff[i] \in {"intended", "uncertain"} /\ lau[i] = "none"
  /\ eff' = [eff EXCEPT ![i] = "failed"] /\ actor' = Awake /\ Moves
  /\ UNCHANGED <<run, graph, att, lau, proc, chk, count>>

CancelRun ==
  /\ ~ Over /\ run' = [run EXCEPT !.status = "cancelled"] /\ actor' = Awake /\ Moves
  /\ eff' = [i \in Slots |-> IF eff[i] = "intended" THEN "uncertain" ELSE eff[i]]
  /\ att' = [i \in Slots |-> IF att[i].st = "running"
                             THEN [att[i] EXCEPT !.st = "interrupted", !.out = "interrupted"] ELSE att[i]]
  /\ chk' = [i \in Slots |-> IF chk[i].at = "exec" THEN [chk[i] EXCEPT !.at = "look", !.res = "err"] ELSE chk[i]]
  /\ UNCHANGED <<graph, lau, proc, count>>

\* A hard crash, and the reconciliation of the next daemon: terminals die with their daemon,
\* but their exits are nowhere recorded; what a check has become, nobody knows.
Crash ==
  /\ ~ Over /\ count.crashes < Bound.crash /\ count' = [count EXCEPT !.crashes = @ + 1]
  /\ run' = [run EXCEPT !.status = "paused"] /\ fresh' = {} /\ actor' = [actor EXCEPT !.pc = "turn"]
  /\ acts' = [i \in Acts |-> IF acts[i].claim = "mine" THEN [acts[i] EXCEPT !.claim = "other"] ELSE acts[i]]
  /\ eff' = [i \in Slots |-> IF eff[i] = "intended" THEN "uncertain" ELSE eff[i]]
  /\ att' = [i \in Slots |-> IF att[i].st = "running"
                             THEN [att[i] EXCEPT !.st = "interrupted", !.out = "interrupted"] ELSE att[i]]
  /\ proc' = [i \in Slots |-> IF proc[i] = "none" THEN "none" ELSE "lost"]
  /\ lau' = [i \in Slots |-> "none"] /\ chk' = [i \in Slots |-> [chk[i] EXCEPT !.at = "none"]]
  /\ UNCHANGED <<forks, checks, repeats>>

-----------------------------------------------------------------------------

WgInit ==
  /\ \E p \in DOMAIN Plans : run = [plan |-> p, status |-> "running", loops |-> 0, receipt |-> "none"]
  /\ acts = <<NewAct("start", <<>>)>> /\ forks = [f \in Slots |-> NoFork]
  /\ checks = <<>> /\ repeats = [n \in DOMAIN Graph |-> 0]
  /\ att = [i \in Slots |-> [st |-> "none", out |-> "none", bound |-> FALSE]]
  /\ eff = [i \in Slots |-> "none"] /\ lau = [i \in Slots |-> "none"] /\ proc = [i \in Slots |-> "none"]
  /\ chk = [i \in Slots |-> [at |-> "none", out |-> "none", res |-> "ok"]]
  /\ actor = [pc |-> "turn", at |-> 1] /\ fresh = {}
  /\ count = [crashes |-> 0, paused |-> 0, letgo |-> 0, exits |-> 0, ran |-> 0]

Turn(i) == \/ Activates(i) \/ ReachesNext(i) \/ OpensFork(i) \/ Expands(i) \/ PassesJoin(i) \/ PassesGate(i)
           \/ Loops(i) \/ Holds(i) \/ Ends(i) \/ MarksWait(i) \/ StartsAttempt(i) \/ SupersedesFork(i)
           \/ RefusesRepair(i) \/ BranchFails(i) \/ PausesIncomplete(i) \/ CompletesAgent(i)
Drives(i) == Reserves(i) \/ RefusesSpawn(i) \/ WaitsToCheck(i) \/ ClaimsCheck(i) \/ RunsCheck(i)
Actor     == (\E i \in First : Turn(i)) \/ (\E i \in Effect : Drives(i)) \/ KillsGeneration \/ StopsFork \/ Rests
Launch(i) == LaunchChecks(i) \/ LaunchSpawns(i) \/ LaunchBinds(i)
Check(i)  == CheckEnds(i) \/ CheckRecords(i) \/ CheckBinds(i) \/ CheckLooks(i) \/ CheckReleases(i)
Reports   == {"completed", "fix", "failed"}

WgNext == \/ Actor \/ LetsGo \/ PauseRun \/ ResumeGraph \/ CancelRun \/ Crash
          \/ \E i \in Acts : \/ Launch(i) \/ Check(i) \/ AgentExits(i) \/ ExitRecorded(i)
                             \/ ResolvesPause(i) \/ SettlesEffect(i)
                             \/ \E o \in Reports : AgentReports(i, o)

\* The executor runs, launches and checks end, exits are recorded.
WgFairness == /\ WF_wgVars(Actor)
              /\ \A i \in Slots : WF_wgVars(i \in Acts /\ Launch(i)) /\ WF_wgVars(i \in Acts /\ Check(i))
                                  /\ WF_wgVars(i \in Acts /\ ExitRecorded(i))

WgSpec == WgInit /\ [][WgNext]_wgVars /\ WgFairness

-----------------------------------------------------------------------------
(* Properties. *)

Live(i) == proc[i] = "live" \/ lau[i] # "none" \/ chk[i].at = "exec" \/ acts[i].claim = "other"

\* Types; a wait or a claim belongs to a branch, an open intent to an attempt.
TypeWg ==
  /\ run.status \in {"running", "paused", "cancelled"} /\ run.loops \in 0..MaxLoops
  /\ Len(acts) <= MaxActs
  /\ \A i \in Acts : /\ acts[i].node \in DOMAIN Graph
                     /\ acts[i].st \in {"ready", "running", "paused", "completed", "superseded"}
                     /\ acts[i].claim \in {"none", "mine", "other"} /\ acts[i].wait \in BOOLEAN
                     /\ acts[i].wait \/ acts[i].claim # "none" => Branch(i)
  /\ \A i \in Slots : /\ forks[i].st \in {"none", "open", "joined", "cancelling", "superseded"}
                      /\ eff[i] \in {"none", "intended", "succeeded", "failed", "uncertain"}
                      /\ att[i].bound => eff[i] = "succeeded"
                      /\ proc[i] \in {"none", "live", "gone", "dead", "lost"}

\* The ledger loses no branch and doubles none: each unsettled branch of an open fork has
\* exactly one activation or open region inside it that can still settle it, and a settled
\* branch has none ("The event ledger, not completion order, owns joins").
Carriers(f, b) == {i \in Acts : Branch(i) /\ Token(i) = <<f, b>> /\ acts[i].st # "completed"} \cup
                  {n \in Acts : Branch(n) /\ Token(n) = <<f, b>> /\ forks[n].st = "open"}
BranchesCarried ==
  \A f \in Slots : forks[f].st = "open" =>
    \A b \in Branches(f) : Cardinality(Carriers(f, b)) = IF forks[f].arr[b] = "none" THEN 1 ELSE 0

\* A region has one successor: its join, reached once and after every branch, or the repair
\* ("Replayed stop transitions cannot enqueue a second repair").
OneSuccessor ==
  \A f \in Slots :
    LET joins == {i \in Acts : acts[i].join = f} heirs == {i \in Acts : acts[i].heir = f} IN
    /\ Cardinality(joins) + Cardinality(heirs) <= 1
    /\ joins # {} => forks[f].st \in {"joined", "superseded"} /\ \A b \in Branches(f) : forks[f].arr[b] # "none"
    /\ heirs # {} => forks[f].st = "superseded"

\* The repair starts only when nothing of the old generation works or may come to work: no
\* agent, no launch in flight, no check ("blocks repair rather than freeing the workspace").
RepairFenced == \A i \in Acts : acts[i].heir # 0 => \A j \in Gen(acts[i].heir) : ~ Live(j)

\* A superseded generation is stopped, or the run is paused or over.
StopSettles == \A f \in Slots : forks[f].st = "cancelling" /\ Running ~> forks[f].st = "superseded" \/ ~ Running

\* A branch does not wait for a slot that is free: whoever gives one back wakes the actor.
SlotIsTaken ==
  \A i \in Slots : (i \in Acts /\ acts[i].wait /\ Used < MaxParallel /\ Running)
                  ~> (i \in Acts /\ ~ acts[i].wait) \/ Used >= MaxParallel \/ ~ Running
=============================================================================
