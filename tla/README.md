# TUICommander: a verification project

TUICommander is a desktop IDE (a Rust backend under `src-tauri`, a SolidJS
frontend under `src`) that runs AI agents in terminal sessions. This project
models the three parts of it that act while nobody watches and whose mistakes
cannot be taken back:

- *automations*: definitions that start agents on a schedule, on demand, or for
  a GitHub issue or pull request, and that open a draft pull request, post a
  review or answer an issue when the agent is done;
- *workflow runs*: published graphs of agent steps, checks and parallel regions
  that a durable run goes through, across restarts of the daemon;
- the *relay tunnel*: a desktop and a remote daemon that meet in a room of a
  relay server and multiplex streams over one encrypted connection.

Paths below are relative to `src-tauri/src` unless they start with `docs/`,
`tools/` or `SPEC.md`.

## Inventory

### Automations (`automations/`)

| part | state | operations | what is hard | correct when |
| --- | --- | --- | --- | --- |
| ledger (`store.rs`, `store/*.rs`) | SQLite tables of runs, cursors, review heads, event keys, refusal decisions, deliveries | one IMMEDIATE transaction per mutator | many callers, retention, stale clock readings, a new owner | no overlap, capacity kept, each occurrence and event decided once, final results final, authority never regranted |
| runtime loop (`runtime.rs`) | owner lock, issue and review snapshots | wake on timer or bus event: reconcile, publish triage, intake, prune and tick, spawn tasks | one half of a wake failing, bus lag, crash between commit and spawn | due occurrences decided, admitted runs tended |
| completion monitor (`completion.rs`) | copies of open rows | observe, time out, classify, transition | copies go stale while tasks write | open runs end, ended runs leave no agent |
| dispatcher (`dispatcher.rs`) | one task per run | claim, workspace, precheck, launch, bind, stop | edits, timeouts and recoveries between any two awaits | one launch, no agent without a row |
| definitions (`definitions.rs`) | `automations.json` | create, edit, pause, delete, set limit | edited while runs are in flight | effects follow the definition that was admitted |
| publication (`completion.rs`, `publish.rs`) | outcome of the run | claim, look up, POST, look up again, settle; recovery by lookup only | lost requests and responses, crash around the POST | at most one request, no false success, uncertainty kept |
| reviews (`pr_reviews.rs`) | heads seen | admit a head, review, recheck, claim, POST | a push at any point | one review per head, newest head only |
| intake (`event_intake.rs`), triage (`triage.rs`), notifications (`notifications.rs`) | snapshots, decisions, deliveries | filter and admit issues; publish comment then label; fan out | bus lag, crash between claim and send | at most one comment, label, notice |
| schedules (`schedule.rs`), prechecks, worktrees, MCP/HTTP surface | none of their own | pure functions, external programs, conversions | calendars, child processes | |

They interact through the ledger (every fact that must survive is a row, and
only the process that holds `RunOwner`'s file lock may write), through the
event bus of `state.rs` (wakes), and through session maps and the progress log
that the monitor reads to tell what an agent does. GitHub is reached through
`github_pr_api.rs` and read by the poller.

### Workflow runs (`workflows/run/`)

| part | state | operations | what is hard | correct when |
| --- | --- | --- | --- | --- |
| store and reducer (`store.rs`, `reducer.rs`, `questions.rs`) | event log of the run: status, activations, attempts, spawn effects, questions, receipts of commands | one command per transaction, refused when the run moved since it was read | reports, exits, timers, operators and the actor commit in any order | no report is overwritten, nothing proceeds past an effect of unknown outcome |
| run actor (`runtime.rs`, `runtime/`) | one task per run, a wake permit, the effect in flight | turn, effect, deadline timer, retries | a permit consumed beside an effect, a launch that goes on detached | nothing that was announced is left undone |
| launch (`mcp_http/mcp_transport_ancillary.rs`) | the child before it is bound | check, spawn, bind, kill | the run moves, or the child exits, between any two steps | one agent per attempt, none unbound |
| continuation (`runtime/continuation.rs`) | answer to an agent's question | mark started, put into the inbox, mark delivered | a crash between the inbox and the mark | each answer handed over once, and in the end |
| parallel regions (`graph.rs`, `parallel.rs`) | activations with tokens, forks, arrivals, receipts of checks | fork, fan-out, arrive, join, supersede, stop, repair | branches finish in any order, a repair uses the same worktree | no branch lost or doubled, one successor, repair alone in the worktree |
| capacity and checks (`runtime/effects.rs`, `runtime/policy.rs`) | claims, waits | claim, run beside the actor, bind, release | agents, stops and checks share one limit | a free slot is taken |

### Relay tunnel (`relay_tunnel/`, `tools/relay/src/relay.rs`)

| part | state | operations | what is hard | correct when |
| --- | --- | --- | --- | --- |
| multiplexer (`mux.rs`, `mux/pump.rs`) | table of streams, semaphores of stream and connection, two queues per end | open, read, write, half-close, reset, credit | control frames overtake data; both ends forget streams at different times | no false accusation, no credit lost, an orderly end is complete, one stalled reader stops only itself |
| bridge (`bridge.rs`) | two halves per stream | copy to and from the TCP socket | one half fails while the other waits | |
| relay room (`tools/relay/src/relay.rs`) | rooms, peers, bounded queues | join, announce, forward, overflow, remove | numeric ids start again in a new room; handlers outlive rooms | rooms stay apart, no silent gap |
| daemon and desktop (`daemon.rs`, `desktop.rs`) | registration, session, attachment | hello, credential, detach, retry | presence announced to the wrong session, silent deaths | |

The tunnel carries the HTTP and WebSocket traffic of the remote MCP server; a
workflow run may be started by an automation, which then observes it as if it
were a session.

### The rest of the program

PTY sessions and input injection (`pty/`), MCP proxy with circuit breaker
(`mcp_proxy/`), OAuth tokens with single-flight refresh (`mcp_oauth/`), SSH
tunnel supervisor (`tunnels/`), launch transactions and remote sessions
(`mcp_http/`), Telegram bridge (`telegram/`), peer mail
(`mail_subscriptions.rs`), idle close and resume, remote mirror and transfer,
progress and stories, GitHub poller, git and worktrees, secrets and accounts,
settings, dictation, terminal emulation, plugins, ACP, frontend. Each is a
component of `PROJECT.json` with the reason why it is not modelled.

## Modules

| module | models | checked by |
| --- | --- | --- |
| `RunLedger` | the ledger, called by anyone in any order | `MCRunLedger`, `RunLedgerProofs` |
| `AutomationRuntime` | loop, monitor, dispatch tasks, agents, edits, crash and next owner; implements `RunLedger` | `MCAutomationRuntime`, `RuntimeProofs` |
| `ClaimOnce` | abstract: an effect outside the process that happens at most once | refined by `EventPublication` |
| `EventPublication` | draft pull requests, reviews, triage decisions, GitHub, crash and recovery | `MCEventPublication`, `PublicationProofs` |
| `WorkflowRun` | one row of agent steps: actor, launch, agent, operator, death of the daemon | `MCWorkflowRun`, `WorkflowRunProofs` |
| `WorkflowGraph` | parallel regions, repair, capacity and checks over several graphs | `MCWorkflowGraph`, `WorkflowGraphProofs` |
| `RelayMux` | both ends of a multiplexed session with their bridges | `MCRelayMux`, `RelayMuxBridges` and `RelayMuxProofs` |
| `RelayRoom` | the relay's room with both ends' attachment | `MCRelayRoom`, `RelayRoomProofs` |

**RunLedger.** `runs` is the table of runs in insertion order; retention
moves an id to `pruned` instead of removing the row, so that properties can
speak of what was deleted, and every query of the model reads `Rows` only. The
other variables are the other tables. Each transaction is an action: its guard
is the code's early returns, and a call that returns without writing is a step
that leaves the ledger as it is. `Outcome` keeps the decision, whether a
publication intent is saved and whether a URL is. `transition` takes the clock
reading of its caller, which may be older than the row
(`store/mutations.rs:45`).

**AutomationRuntime** extends `RunLedger` and calls its actions. A step ends
where the code awaits, commits or reads another store. `loop` holds the copies
of rows (`view`) and the clock reading of the monitor, `task[i]` the position of
the dispatch of run `i`, `child[i]` its agent as the session maps and the
progress log show it, `config` the definitions file. `Fault` is a ledger write
or a stop that returns an error; what the code does next is modelled. `spent`
counts the bounded events and remembers, for the properties, the runs whose last
write failed (`abandoned`) and the children whose stop failed (`orphans`).

**EventPublication** extends `RunLedger` as well. A request is on the `wire`
until GitHub serves it, rejects it or loses it, perhaps long after the process
died; `made` is what exists at GitHub. `seen[i]` is what a task copied before
its awaits: whether the worktree is there, whether it recovers a saved intent,
what the allowlist said. Its `PubInit` is the moment after the monitor saved the
completion of some issue runs, with or without a pull request that somebody
opened by hand, or a triage decision; reviews start from the poller's snapshot.
An *item* is one effect at GitHub: the publication of a run, the comment of its
triage decision, or its label. The runtime loop publishes one decision after the
other; a decision whose claim is still missing is found again at every wake and
after a restart, one whose claim was made is never sent again.

**ClaimOnce** is the promise: an item is claimed durably before its request may
leave, the request leaves at most once, a denied item never sends, a
confirmation is final. `EffectsOnce` maps the row's intent to `claimed`, a
decision without an intent to `denied`, and the requests sent to `sends`.

**WorkflowRun.** `run`, `node`, `att`, `eff`, `ques` and `rid` are what the
event log folds to; `actor`, `task` (the launch of each step) and `proc` are what
dies with the daemon. A command reads the run and commits only if it has not
moved: `fresh` is the set of readers whose snapshot is still the latest, every
commit empties it, and the two-phase commands (bind, timer, marks of a
continuation) test it. Operator commands and reports are atomic, because their
callers repeat a refused one. The actor holds one wake permit, as
`tokio::sync::Notify` does. An agent may name any generation it has heard of
(`Hearable`). The graph is a row of steps with one attempt each.

**WorkflowGraph.** `acts` is the list of activations in the order they were
reached, each with the tokens (`<<fork, branch>>`) of the regions around it. A
fork is named by its activation, which is also its generation. A step of the
actor is one transaction of its turn, in the order the code prefers (`First`),
then one effect. `chk[i]` is a check that runs beside the actor under a claim.
`Plans` gives each behaviour its definition, limits and bounds; the plan of a
run is part of its snapshot and never changes.

**RelayMux.** Per end: `table` (entries), `sema` and `pool` (permits), `ctl` and
`data` (the writer task's two queues, control first), `wire`, `inbox`; per stream
`rd` and `wr`, the two halves of the bridge. A chunk is as much as one permit
allows. `put` and `got` count what the bridges handed over and received.

**RelayRoom.** `queue[c]` is everything between the relay and the reader of
connection `c` (the relay's queue, the socket and the link's queue). A record is
sealed for one attachment, so a reader of another cannot open it. `inst` numbers
the instances of a room that reuses its name.

## Runs

Every model has a last state (bounded rows, clock, crashes, streams), hence
`CHECK_DEADLOCK FALSE`.

| run | instance | shows |
| --- | --- | --- |
| `ledger_admission` | two definitions, one slot, issue and triage events, filters, clock 0..2 with retention 1, two rows | capacity, one row per occurrence and event across retention and owner changes, statuses only move forward |
| `ledger_reviews` | one definition, two slots, two heads of a pull request, a delivery slot, a clock that steps back under stale readings | no overlap, authority kept |
| `runtime_life` | one definition, one slot, two rows: a scheduled occurrence and an issue (that intake may filter) or Run Now, in any order and through every phase; one crash and one fault, or one edit; clock 0..1, grace 0 | the launch discipline, somebody tends every open run, every run ends, every due occurrence is decided whatever stands beside it, and the process implements `RunLedger!Spec` |
| `publication` | an issue run or a triage decision, and reviews of one pull request, with a push, one crash, one allowlist edit, one failed write | `ClaimOnce` for every item, nothing confirmed that does not exist, no label without its comment, nothing stays pending |
| `mux_session` | two streams, one permit for the connection, one fault (error, refusal, lost record, shutdown), two orderly ends | no false accusation, complete ends, credit of the connection returns once |
| `mux_stalled` | two streams, a reader that never reads, links and queues of one record | the other writer is served |
| `relay_room` | four connections, queues of two, one silent death, one drop, one time-out, two records | rooms stay apart, no silent gap |
| `workflow_run` | one agent step, two questions, one death of the daemon | the seven properties of a run's life |
| `graph_regions` | `Regions`: a critic beside a check, alone and with a death of the daemon; two critics with an agent that leaves, and with a detached launch and a death; a fan-out inside a branch with a loop | the token ledger and the fence around a repair |
| `graph_progress` | `Narrow`: one slot, three graphs, a pause by the operator, an agent that leaves | superseded work is stopped, a free slot is taken |
| `runtime_timeout`, `publication_recovery` | | the two findings below |

Bounds. A row interacts with another row only through counts (capacity),
equality (overlap, keys, coalescing) and order (cursors), which two rows and two
definitions or two heads exercise; the clock needs an occurrence, a grace and
a retention limit, and a step beyond it.

In `AutomationRuntime`, `Room` keeps a row free for each occurrence still to be
decided, so that `DueIsDecided` needs no way out for a full table. With the two
rows of `runtime_life`, a run by an issue or by Run Now may be launching, in the
monitor's list, failing there with an aborted reconciliation, or holding the only
slot while the occurrence is due: it then ends reserved, `skipped_overlap` or
`skipped_missed`. The occurrence is at 0 and the grace 0, so that one step of the
clock makes it a missed one and brings the first deadlines. Two rows of one
definition are never open together, so that the rows behind one whose transition
fails are not in the run's lists: the failing row itself is. `Troubles` bounds crashes, edits
and faults: a crash and a fault in one behaviour reach every pair of a step and
what recovery finds after it; an edit disturbs the tasks on its own. The clock of
this run and of `ledger_admission` does not step back; that `StatusMovesForward` and
`OpenRunIsTended` stand it is shown by their theorems only.

The statuses in `Targets`
are the ones the callers of `transition` use. Where `KeepStamps` is FALSE, the
clock never steps back and every reading is current, so that the guard on
`updated_ms` always holds. Steps of a workflow run interact only through the
run's status and its one actor, which the launch and the question of one step
already compete for; the second question is the one asked under the answer to
the first. Regions interact through capacity, nesting and repair: two branches,
two levels and one repair have each of them, and `MaxSlots` is the length the
largest plan reaches, except where a plan is meant to run out of activations.
Streams interact through the connection's permits and the shared queues, for
which two streams and capacities of one are the tightest case. A room holds two
peers, so that four connections give each end one reconnection.

### Fairness

`Fairness` assumes what tokio gives: ready tasks and the loop keep being polled
(weak fairness), the interval timer keeps firing, and `select!` draws at random
among its ready branches, so that bus events cannot starve the timer (strong
fairness of the wake on the timer). `PubFairness` and `WfFairness` assume that
spawned tasks keep being polled and, for a run, that exits of processes are
recorded and a dead daemon is started again; `WgFairness` the same for the actor,
launches, checks and exits. `MuxFairness` has strong fairness of a writer that
waits for a permit, because tokio's semaphores and channels serve their waiters
in turn, and weak fairness of sockets that are not stalled. Agents, operators,
edits, crashes, GitHub, pushes and pauses are never forced.

### Findings

- `runtime_timeout`: a run ends `timed_out`, its row saying that its session was
  stopped, while the agent lives and nobody watches it. The monitor copied the
  row before the launch, its stop found no session, and the dispatcher's
  `running` came before the monitor's transition. This needs the dispatcher's
  stamp to be no later than the monitor's reading: it is read before the
  database is opened and its write lock waited for (up to 5 s). The model has
  it with a coarse clock, on which both readings are equal.
- `publication_recovery`: the user guide promises that recovery leaves
  `publication_unknown` unless a lookup decides; the code settles
  `publication_failed` or `publication_refused` when the configuration, the
  account or the allowlist stand in the way before the lookup.

### Divergences without a run

Met while modelling; the models follow the code, and no property is stated that
it breaks.

- Two calls of `open` draw their ids under a lock but queue their Open frames
  after it (`relay_tunnel/mux.rs:248`): the daemon takes the late one for a reused
  id and ends the session.
- A bridge dropped while the Fin of its stream waits for room sends neither Fin
  nor Reset (`relay_tunnel/mux.rs:408`); the peer's stream stays half open.
- A writer asleep on the semaphore of a stream that is removed by a Reset is
  woken by nobody, not even by the end of the session (`relay_tunnel/mux.rs:366`).
- The desktop reports `pairing_rejected` whenever the first record it reads is
  not the answer to its hello, also after a rejoin (`relay_tunnel/desktop.rs:219`),
  and a presence lost to a full queue leaves both ends to their time-outs.
- The recovery's pause of a workflow run has one command id per run: a second
  restart finds its receipt and leaves the run running
  (`workflows/run/store.rs:1541`).
- A deadline timer whose commit is refused because the run moved drops the
  launch it was meant to leave alone; the launch goes on detached
  (`workflows/run/runtime.rs:306`).
- The release of a check's claim is refused when a sibling committed meanwhile,
  and the run pauses (`workflows/run/runtime/effects.rs:821`), where
  `docs/backend/workflows.md:438` says that contention does not pause the run.
- A Gate behind a region that has no Gate of its own does not find the receipt it
  recorded, and checks again (`workflows/run/runtime/policy.rs:114`).

## Proofs

Every safety property that a run checks and the code satisfies is also a theorem,
for every value of the constants within the named assumptions: any number of
runs, definitions, streams, connections, steps, questions and crashes, and any
published graph. Each proof has one inductive invariant; it says what the
properties leave unsaid, and was checked by TLC on a run before it was proved.
The argument is always one lemma per action, a lemma for the step of the module,
and a temporal theorem that combines them.

| module | theorem | states |
| --- | --- | --- |
| `RunLedgerProofs` | `TypeCorrect`, `NoOverlap`, `OccurrencesDecidedOnce`, `EventsStartOnce`, `FinalStatusStays`, `AuthorityIsKept`, `CapacityHolds`, `RefusalsKeptOnce` | the properties of `ledger_admission` and `ledger_reviews`, and `RefusalsCoalesce` |
| `RuntimeProofs` | `RuntimeImplementsLedger` | `RtSpec => Spec`: the process does to the ledger only what `RunLedger` allows |
| | `RuntimeIsSafe` | hence the ledger's properties hold of the process |
| | `RuntimeTypes`, `LaunchesOnce`, `NoAgentIsForgotten`, `OpenRunsAreTended` | the safety properties of `runtime_life` |
| `PublicationProofs` | `EffectsAreOnce` | the publication implements `ClaimOnce` for every item |
| | `PublicationTypes`, `PublishedIsThere`, `ReviewsNewestHead` | the other safety properties of `publication` |
| `WorkflowRunProofs` | `WorkflowTypes`, `AgentsStartOnce`, `UncertainEffectHolds`, `AnswersGoOnce`, `CancelLeavesNoIntent` | the safety properties of `workflow_run` |
| `WorkflowGraphProofs` | `RegionsStayWhole`, `GraphTypes`, `NoBranchIsLost`, `RegionsEndOnce`, `RepairWaits` | the invariant `WgInv` and the properties of `graph_regions` |
| `RelayRoomProofs` | `RoomTypes`, `NothingCrosses`, `NothingIsSkipped` | the properties of `relay_room` |
| `RelayMuxProofs` | `MuxTypes`, `CreditComesBack`, `NobodyIsAccused`, `EndsAreComplete` | the properties of `mux_session` |

**Ledger.** `LedgerInv` adds three facts: `RowsConfined` (an intent is only ever
saved in a *completed* row, and a URL only with an intent) because `transition`
and the triage decision overwrite the outcome of open rows; `RefusalRows` (a
decision points to a refusal row) because coalescing rewrites the row it points
to; `CursorsAhead` (the cursor is not behind any scheduled row, deleted ones
included) because admission compares with the cursor and not with deleted rows.
Each action establishes `Disciplined`, what a step does to old rows (`Onward`)
and to added rows; the invariant and the action properties follow from that. For
events a step does one of four things (`StepEvents`): nothing, an admission of a
key nobody had, a refusal recorded for the first time, or retention. Capacity is
a count over a batch: the candidates that a batch reserves are at different
places among the eligible ones, all below the capacity that was left
(`BatchFits`), so that they are no more than that capacity.

**Runtime.** A transaction of the ledger is allowed to anyone, but the process
calls `transition` with what it copied before. `ViewBehind` says that the
monitor's copies are never ahead of their rows, and `WorkIsBound` that a run
whose agent works was launched once and saved its session; with both, every
write of a stale copy is a step of `RunLedger`. `TaskFits`, `ChildOwned` and
`Tended` relate each row to the position of its task and to its agent. `spent`
names the writes and stops that failed, and the theorems make an exception for these.

**Publication.** `WholeRow` says which outcomes a row can have. Per run,
`TaskInv` says what its task may rely on at each of its positions: it works on
its own row (`OwnsRow`), the claim was won before a request can leave
(`ClaimsFirst`, `NoticesFirst`), and none left before the one place that sends
(`SendsOnce`), a recovered task included. `ReviewsNewestHead` supposes that no
push brings an earlier head back (`Advancing`, by an order of the heads that TLC
checks to exist on the instance); a branch that is forced back to an old head is
outside the theorem.

**Workflow run.** `RowInOrder` and `AttemptsShaped` say in which order steps and
attempts go, `LaunchesOnce` that a launch which has not started a process never
did, and `Marked` how many answers the agent was handed, from the mark of the
latest one: only the mark `started` leaves it open, and that is the case in which
the code asks the operator.

**Workflow graph.** `Ledger` is what holds of activations and forks. `Placed`: the
tokens of an activation are those of the fork around it and one more. `Enclosed`:
what goes on inside a region goes on while every region around is open. `Carried`:
a branch of an open fork has one carrier until it has arrived, and none then.
`Succeeded`: a fork has one successor. A carrier may be a whole nested
region, which is why the invariant speaks of all levels at once. Every action is
one of seven kinds of step of this ledger (nothing moves, an edge, an empty
fan-out, a fork opens, an arrival with or without its join, a region is
superseded, its repair), and the invariant is proved once per kind. `Fenced` is about the work: while the
snapshot of the actor that stopped a generation is the latest, nothing of that
generation is back at work (`KillsGeneration` establishes it, the commit of
`StopsFork` relies on it), and nothing of a generation that has its repair is, or
has a claim to be.

`Regular` is the assumption on the graphs: an edge stays in its region or goes to
the join of it, a branch starts inside and not at a join, and a repair is outside every
region. The definitions that `validate_regions` publishes are of this form
(`workflows/definition.rs:589`), with two exceptions that it does not see because
it looks at one fork after the other: a Pause outside a region whose `resume_to`
leads into one (the check for arrivals reads edges only), and two regions that
cross, where the join of a fork is inside the region of a fork inside it. What
the runtime does with those is neither modelled nor proved.

**Room.** `Seats` and `Origins` say who sits in the room and where what is on its
way came from; `Gapless` and `LastIs` are the adjacency argument of
`NothingIsSkipped`: two records of one sender with no other record between them
have consecutive numbers, and the last one waiting is the last one forwarded, so
that the next one fits behind it. A forward that does not fit ends the room, so
that no line with a gap goes on.

**Mux.** For each direction of a stream, `Inbox` says what the reader has before it,
`Order` that the frames on their way come in order and each once as long as
nothing is lost, and `Window` counts the permits: free, held by the writer,
unread at the other end, or on the way back. That the peer is never accused of
overrunning its window is this count. `Start`, `Answer` and `Opening` say that the
desktop's entry waits for an answer exactly while its opener does, although an
answer, a Reset and data take two queues. `RelayMuxBridges` has the invariant and
the steps of the bridges, `RelayMuxProofs` the rest.

**Assumptions.** The named assumptions bound the numbers, make the sets of the
ledger finite, say that what the callers ask of `transition` is in `Targets`, that
different definitions have different places in the order of a batch (`Rank`),
and, for the runtime, that rows keep their stamps, which the monitor compares.
The strongest is `Regular`. No proof uses fairness.

**Only model-checked.** Liveness is beyond the proof system: `OpenRunSettles`,
`DueIsDecided`, `PendingSettles`, `WriterServed`, `UnboundChildEnds`,
`AnswerIsDelivered`, `StopSettles` and `SlotIsTaken`. The two violated properties are
shown by their runs. That `Regular` follows from the validator was read, not
proved: the validator is a search over a graph and is not modelled; TLC evaluates
the assumption on the plans of the runs.

## Abstractions

- Ids, prompts, reasons and output text are left out; the case folding of event
  keys is an assumption on `Issues`. A run id is a position, as UUIDv7 ids are
  unique and ordered.
- `config.max_concurrent_runs` is constant; lowering it while runs are open
  leaves more runs open than the new limit until they end.
- Time is a coarse clock. An admission reads it at its commit. `interrupt_open`,
  claims and settlements never fail on it, because the code takes the later of
  the reading and the row's stamp.
- Retention deletes every row it may in one step; the code deletes up to 256 per
  call and goes on at the next tick.
- A repeated triage decision, and a claim or a settlement that the code ignores,
  change nothing and are not steps of their own. An open transaction is
  never observed half done (SQLite).
- The reviews are dispatched in `EventPublication`, the other runs in
  `AutomationRuntime`; the two share `RunLedger` and are not composed.
- Schedules are finite sets of occurrences; the poller is any issue at any wake.
- Triage: the policy, its repository on the allowlist and the account are one
  condition (`allow`); a decision that cannot be published waits.
- RelayMux: Ping, Pong and the credential are left out; an end that closes drops
  its queues at once; the frame a writer task holds counts as on the wire.
- RelayRoom: both ends hold the same pairing; waits of ten seconds expire a
  bounded number of times; rate limits are left out.
- WorkflowRun: PTY agents of contract 5 and later only; `interrupt_agent_session`
  and `MarkEffect` do not fail; a commit and its wake are one step; revisions of
  plans and stories, budgets, worktrees, story gates, ACP agents and typed
  commands are left out. A terminal's child dies with the daemon, unrecorded.
- WorkflowGraph: the life of an attempt is cut to launch, report and exit; one
  required check; no Judge, approval, IfElse, input request, Call, StoryDispatch,
  command or notice nodes; the check that a predecessor completed is left out;
  a crash and the reconciliation after it are one action; `pause_failure` is
  atomic; an operator settles an effect only when no launch is in flight; `LetsGo`
  is the dropped launch described above.

## Not modelled

The repository has over 400 000 lines of implementation, most of it
conversions, screen parsing, HTTP handlers, settings and views without a protocol
of their own; a model of them would restate them. What is modelled was chosen for
its concurrency, its crashes and its irreversible effects. Not modelled although
they have a protocol: the injection queue of PTY sessions, the OAuth refresh,
the tunnel supervisor, the circuit breaker, the Telegram offset, idle close, and
the fan-out of notifications. `PROJECT.json` has the reason for each component.
Within the modelled ones: the filters of intake and the bus lag of its snapshots
(`automations/runtime.rs:93`), cron and time zones, API conversions.

## Plan

1. Done: the automations with triage; workflow runs and their regions; the relay
   tunnel; a theorem for every safety property the code satisfies, and the two
   refinements.
2. Models: the runtime composed with the publication, whose reviews and
   notices share the loop; several attempts per step; the validator, to prove
   `Regular` of what it publishes.
3. Other components, one module each: OAuth refresh (one refresh in flight,
   rotated tokens never reused), tunnel supervisor (stop wins over restart),
   injection queue.
