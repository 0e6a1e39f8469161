------------------------- MODULE WorkflowGraphProofs -------------------------
(***************************************************************************)
(* What holds of the regions of every definition that is Regular, however    *)
(* many activations, forks and repairs a run has.  The first part states the *)
(* inductive invariant; the second says what each action does to the token   *)
(* ledger, as one of seven kinds of step; the third shows that each kind of  *)
(* step keeps the ledger whole; the last is about agents, launches and       *)
(* checks, which is what the repair waits for.                               *)
(***************************************************************************)
EXTENDS WorkflowGraph, FiniteSetTheorems, SequenceTheorems, NaturalsInduction, WellFoundedInduction, TLAPS

-----------------------------------------------------------------------------
(* The inductive invariant. *)

Where      == Plans[run.plan].region
Names      == DOMAIN Graph
Settled    == Outcomes \cup {"none"}
Alive(i)   == acts[i].st \in {"ready", "running", "paused"}
Toks(i)    == acts[i].toks

\* Something goes on at i: the activation, or the region it has opened.
Runs(i)    == Alive(i) \/ forks[i].st = "open"

ActRecs  == [node : Names, st : {"ready", "running", "paused", "completed", "superseded"},
             toks : Seq(Slots \X Nat), claim : {"none", "mine", "other"}, wait : BOOLEAN,
             join : Nat, heir : Nat]
ForkRecs == [st : {"none", "open", "joined", "cancelling", "superseded"}, arr : Seq(Settled), empty : Settled]

RunRecs  == {r \in [plan : DOMAIN Plans, status : {"running", "paused", "cancelled"}, loops : Nat,
                    receipt : {"none", "pass", "fail"}] : r.loops <= Plans[r.plan].loops}

RunTypes == run \in RunRecs

LedgerTypes ==
  /\ acts \in Seq(ActRecs) /\ Len(acts) \in 1..MaxActs /\ forks \in [Slots -> ForkRecs]
  /\ \A i \in Acts : acts[i].wait \/ acts[i].claim # "none" => Branch(i)

\* The tokens of an activation are those of the fork of its last token, and that token; its
\* node is in the region of that fork.
Placed ==
  /\ \A i \in Acts : \A k \in 1..Len(Toks(i)) :
       LET f == Toks(i)[k][1] IN
       /\ f \in Acts /\ forks[f].st # "none" /\ Toks(i)[k][2] \in Branches(f)
       /\ Len(Toks(f)) = k - 1 /\ \A m \in 1..(k - 1) : Toks(f)[m] = Toks(i)[m]
  /\ \A i \in Acts : Where[acts[i].node] = IF Branch(i) THEN acts[Token(i)[1]].node ELSE "none"

\* A fork is opened by an activation that is over, and cancelled only with a repair to go to.
Rooted ==
  \A f \in Slots : forks[f].st # "none" =>
    /\ f \in Acts /\ acts[f].st = "completed" /\ Kind(f) \in {"fork", "foreach"}
    /\ forks[f].st = "cancelling" => Kind(f) = "fork" /\ Node(f).repair # "none"
    /\ Branches(f) = {} => forks[f].empty \in Outcomes

\* What goes on inside a region goes on while the region, and every region around, is open;
\* what is superseded is in a region that is.
Enclosed ==
  \A i \in Acts :
    /\ Runs(i) => \A k \in 1..Len(Toks(i)) : forks[Toks(i)[k][1]].st = "open"
    /\ acts[i].st = "superseded" => Branch(i) /\ forks[Token(i)[1]].st \in {"cancelling", "superseded"}

\* x can still settle branch b of fork f.
Carries(x, f, b) == x \in Acts /\ Branch(x) /\ Token(x) = <<f, b>> /\ Runs(x)

CarriedAt(f, b) ==
  /\ forks[f].arr[b] = "none" => \E x \in Acts : Carries(x, f, b)
  /\ forks[f].arr[b] # "none" => \A x \in Acts : ~ Carries(x, f, b)
  /\ \A x, y \in Acts : Carries(x, f, b) /\ Carries(y, f, b) => x = y

Carried == \A f \in Slots : forks[f].st = "open" => \A b \in Branches(f) : CarriedAt(f, b)

\* The one successor of a region: its join, or the repair of a region that nothing is around.
Succeeded ==
  /\ \A i \in Acts : acts[i].join # 0 =>
       LET f == acts[i].join IN
       /\ f \in Acts /\ Kind(i) = "join" /\ acts[i].heir = 0
       /\ forks[f].st = "joined" \/ (forks[f].st = "superseded" /\ Branch(f))
       /\ \A b \in Branches(f) : forks[f].arr[b] # "none"
  /\ \A i \in Acts : Kind(i) = "join" => acts[i].join # 0
  /\ \A i \in Acts : acts[i].heir # 0 =>
       acts[i].heir \in Acts /\ forks[acts[i].heir].st = "superseded" /\ ~ Branch(acts[i].heir)
  /\ \A i, j \in Acts : acts[i].join # 0 /\ acts[i].join = acts[j].join => i = j
  /\ \A i, j \in Acts : acts[i].heir # 0 /\ acts[i].heir = acts[j].heir => i = j

\* Only a Pause holds the run, and goes on by its one edge.
Held == \A i \in Acts : acts[i].st = "paused" => Kind(i) = "pause"

Ledger == LedgerTypes /\ Placed /\ Rooted /\ Enclosed /\ Carried /\ Succeeded /\ Held

AttRecs   == [st : {"none", "running", "reported", "interrupted"},
              out : {"none", "completed", "fix", "failed", "interrupted"}, bound : BOOLEAN]
ChkRecs   == {c \in [at : {"none", "exec", "record", "bind", "look", "release"},
                     out : {"none", "pass", "fail"}, res : {"ok", "err", "contended"}] :
                c.at \in {"record", "bind"} => c.out # "none"}
Bindings  == [act : Slots, out : {"pass", "fail"}]
ActorRecs == [pc : {"turn", "asleep", "driving", "stopping"}, at : Slots]

WorkTypes ==
  /\ att \in [Slots -> AttRecs] /\ chk \in [Slots -> ChkRecs]
  /\ eff \in [Slots -> {"none", "intended", "succeeded", "failed", "uncertain"}]
  /\ lau \in [Slots -> {"none", "check", "spawn", "bind"}]
  /\ proc \in [Slots -> {"none", "live", "gone", "dead", "lost"}]
  /\ checks \in Seq(Bindings) /\ repeats \in [Names -> Nat] /\ actor \in ActorRecs

\* A launch has an open effect and no agent yet; a live agent is bound, or about to be.
Launching ==
  \A i \in Slots :
    /\ lau[i] # "none" => eff[i] \in {"intended", "uncertain"} /\ ~ att[i].bound
    /\ proc[i] = "live" => lau[i] = "bind" \/ att[i].bound
    /\ att[i].bound => eff[i] = "succeeded" /\ att[i].st # "none"

\* While the actor's snapshot is the latest, nothing of the generation it stopped is back at
\* work; and nothing of a generation that has its repair is, or has a claim to be.
Fenced ==
  /\ actor.pc = "stopping" /\ View \in fresh =>
       actor.at \in Acts /\ forks[actor.at].st = "cancelling" /\ \A j \in Gen(actor.at) : ~ Live(j)
  /\ \A i \in Acts : acts[i].heir # 0 => \A j \in Gen(acts[i].heir) : ~ Live(j) /\ acts[j].claim = "none"

WgInv == RunTypes /\ Ledger /\ WorkTypes /\ Launching /\ Fenced

-----------------------------------------------------------------------------
(* Steps of the ledger. *)

\* n activations are added; those there are keep their node, tokens and successors.
Keeps(n) ==
  /\ run'.plan = run.plan /\ LedgerTypes' /\ Len(acts') = Len(acts) + n
  /\ \A j \in Acts : /\ acts'[j].node = acts[j].node /\ acts'[j].toks = acts[j].toks
                     /\ acts'[j].join = acts[j].join /\ acts'[j].heir = acts[j].heir
ClaimsKept   == \A j \in Acts : acts'[j].claim \in {acts[j].claim, "none"}
OtherActs(i)  == \A j \in Acts \ {i} : acts'[j].st = acts[j].st
OtherForks(f) == \A g \in Slots \ {f} : forks'[g] = forks[g]
Last          == Len(acts) + 1

\* i is over, and the activation added has its tokens.
Passes(i) ==
  /\ i \in Acts /\ Alive(i) /\ Keeps(1) /\ ClaimsKept /\ acts'[i].st = "completed" /\ OtherActs(i)
  /\ acts'[Last].st = "ready" /\ acts'[Last].toks = Toks(i) /\ acts'[Last].heir = 0
  /\ acts'[Last].node \in Names /\ Where[acts'[Last].node] = Where[acts[i].node]

\* Nothing that matters to the regions happens.
StayStep ==
  /\ Keeps(0) /\ forks' = forks
  /\ \A j \in Acts : \/ acts'[j].st = acts[j].st
                     \/ Alive(j) /\ acts'[j].st \in {"ready", "running", "paused"} /\ (acts'[j].st = "paused" => Kind(j) = "pause")
                     \/ Alive(j) /\ ~ Branch(j) /\ acts'[j].st = "completed"
EdgeStep(i) ==
  /\ Passes(i) /\ forks' = forks /\ acts'[Last].join = 0 /\ Graph[acts'[Last].node].kind # "join"
EmptyStep(i) ==
  /\ Passes(i) /\ Kind(i) = "foreach" /\ Graph[acts'[Last].node].kind = "join" /\ acts'[Last].join = i /\ OtherForks(i)
  /\ forks'[i].st = "joined" /\ forks'[i].arr = <<>> /\ forks'[i].empty \in Outcomes
OpenStep(i) ==
  /\ i \in Acts /\ Alive(i) /\ Kind(i) \in {"fork", "foreach"}
  /\ \E n \in Nat \ {0} :
       /\ Keeps(n) /\ ClaimsKept /\ acts'[i].st = "completed" /\ OtherActs(i)
       /\ OtherForks(i) /\ forks'[i].st = "open" /\ Branches(i)' = 1..n
       /\ \A b \in 1..n :
            /\ forks'[i].arr[b] = "none"
            /\ acts'[Len(acts) + b].st = "ready" /\ acts'[Len(acts) + b].toks = Append(Toks(i), <<i, b>>)
            /\ acts'[Len(acts) + b].join = 0 /\ acts'[Len(acts) + b].heir = 0
            /\ acts'[Len(acts) + b].node \in Names /\ Where[acts'[Len(acts) + b].node] = acts[i].node
            /\ Graph[acts'[Len(acts) + b].node].kind # "join"

\* Branch b of f is settled by i.
Settles(i, f, b) ==
  /\ i \in Acts /\ Branch(i) /\ Alive(i) /\ Token(i) = <<f, b>>
  /\ forks[f].st = "open" /\ forks[f].arr[b] = "none" /\ ClaimsKept
  /\ acts'[i].st = "completed" /\ OtherActs(i) /\ OtherForks(f)
  /\ forks'[f].empty = forks[f].empty /\ Branches(f)' = Branches(f) /\ forks'[f].arr[b] \in Outcomes
  /\ \A c \in Branches(f) \ {b} : forks'[f].arr[c] = forks[f].arr[c]
ArriveStep(i, f, b) == Settles(i, f, b) /\ Keeps(0) /\ forks'[f].st = "open"
JoinStep(i, f, b) ==
  /\ Settles(i, f, b) /\ Keeps(1) /\ forks'[f].st = "joined" /\ \A c \in Branches(f) : forks'[f].arr[c] # "none"
  /\ acts'[Last].st = "ready" /\ acts'[Last].toks = Toks(f) /\ acts'[Last].join = f /\ acts'[Last].heir = 0
  /\ acts'[Last].node \in Names /\ Where[acts'[Last].node] = Where[acts[f].node] /\ Graph[acts'[Last].node].kind = "join"

SupersedeStep(f) ==
  /\ f \in Acts /\ forks[f].st = "open" /\ Kind(f) = "fork" /\ Node(f).repair # "none"
  /\ Keeps(0) /\ ClaimsKept
  /\ \A g \in Slots : /\ forks'[g].arr = forks[g].arr /\ forks'[g].empty = forks[g].empty
                      /\ forks'[g].st = IF g = f THEN "cancelling"
                                        ELSE IF g \in Acts /\ In(g, f) /\ forks[g].st # "none" THEN "superseded"
                                        ELSE forks[g].st
  /\ \A j \in Acts : acts'[j].st = IF In(j, f) /\ acts[j].st # "completed" THEN "superseded" ELSE acts[j].st

RepairStep(f) ==
  /\ f \in Acts /\ forks[f].st = "cancelling" /\ Keeps(1) /\ ClaimsKept
  /\ \A j \in Acts : acts'[j].st = acts[j].st
  /\ \A j \in Gen(f) : acts'[j].claim = "none"
  /\ OtherForks(f) /\ forks'[f].st = "superseded" /\ forks'[f].arr = forks[f].arr /\ forks'[f].empty = forks[f].empty
  /\ acts'[Last].st = "ready" /\ acts'[Last].toks = <<>> /\ acts'[Last].join = 0 /\ acts'[Last].heir = f
  /\ acts'[Last].node \in Names /\ Where[acts'[Last].node] = "none" /\ Graph[acts'[Last].node].kind # "join"

PlainStep ==
  \/ StayStep
  \/ \E i \in Acts : EdgeStep(i) \/ EmptyStep(i) \/ OpenStep(i)
  \/ \E i, f \in Acts : \E b \in Nat : ArriveStep(i, f, b) \/ JoinStep(i, f, b)
  \/ \E f \in Acts : SupersedeStep(f)
LedgerStep == PlainStep \/ \E f \in Acts : RepairStep(f)

-----------------------------------------------------------------------------
(* Facts about one state of the ledger. *)

\* The plan of a run is one of the plans, and its regions are nested.
LEMMA PlanFacts ==
  ASSUME RunTypes
  PROVE  /\ run.plan \in DOMAIN Plans /\ Regular(Graph, Where) /\ MaxSlots \in Nat
         /\ MaxActs \in 1..MaxSlots /\ MaxLoops \in Nat /\ MaxParallel \in Nat \ {0}
  BY PlansAssumption DEF RunTypes, RunRecs, Graph, Where, MaxActs, MaxLoops, MaxParallel

\* A plan is never exchanged.
LEMMA PlanKept ==
  ASSUME run'.plan = run.plan
  PROVE  Graph' = Graph /\ Where' = Where /\ MaxActs' = MaxActs /\ MaxLoops' = MaxLoops /\ Names' = Names
  BY DEF Graph, Where, MaxActs, MaxLoops, Names

\* The fields of activations and forks.
LEMMA Fields ==
  ASSUME RunTypes, LedgerTypes
  PROVE  /\ Acts = 1..Len(acts) /\ Len(acts) \in Nat \ {0} /\ Acts \subseteq Slots /\ Slots = 1..MaxSlots /\ MaxSlots \in Nat
         /\ \A i \in Acts : /\ acts[i].node \in Names /\ acts[i].toks \in Seq(Slots \X Nat)
                            /\ acts[i].st \in {"ready", "running", "paused", "completed", "superseded"}
                            /\ acts[i].join \in Nat /\ acts[i].heir \in Nat
                            /\ acts[i].claim \in {"none", "mine", "other"} /\ acts[i].wait \in BOOLEAN
         /\ \A f \in Slots : /\ forks[f].st \in {"none", "open", "joined", "cancelling", "superseded"}
                             /\ forks[f].arr \in Seq(Settled) /\ forks[f].empty \in Settled
                             /\ Branches(f) = 1..Len(forks[f].arr)
<1>1. Acts = 1..Len(acts) /\ Len(acts) \in Nat \ {0} /\ Acts \subseteq Slots /\ Slots = 1..MaxSlots /\ MaxSlots \in Nat
  BY PlanFacts DEF LedgerTypes, Acts, Slots
<1>2. ASSUME NEW i \in Acts
      PROVE  acts[i] \in ActRecs
  BY <1>1, <1>2 DEF LedgerTypes
<1>3. ASSUME NEW f \in Slots
      PROVE  forks[f] \in ForkRecs
  BY <1>3 DEF LedgerTypes
<1> QED
  BY <1>1, <1>2, <1>3 DEF ActRecs, ForkRecs, Branches

\* Tokens: a fork around an activation is around it at one place, and the chain of the forks
\* around it is nested.
LEMMA Nesting ==
  ASSUME RunTypes, LedgerTypes, Placed
  PROVE  /\ \A i \in Acts, f \in Slots : In(i, f) <=> \E k \in 1..Len(Toks(i)) : Toks(i)[k][1] = f
         /\ \A i \in Acts, f \in Slots : In(i, f) => f \in Acts /\ forks[f].st # "none" /\ Branch(i)
         /\ \A i \in Acts : ~ In(i, i)
         /\ \A i \in Acts : Branch(i) <=> Len(Toks(i)) # 0
         /\ \A i \in Acts : Branch(i) => /\ Len(Toks(i)) \in 1..Len(Toks(i)) /\ Token(i) = Toks(i)[Len(Toks(i))]
                                         /\ Token(i) = <<Token(i)[1], Token(i)[2]>> /\ Token(i)[1] \in Acts
                                         /\ Token(i)[2] \in Nat /\ In(i, Token(i)[1])
         /\ \A i \in Acts, f, g \in Slots : In(i, g) /\ In(g, f) => In(i, f)
         /\ \A i \in Acts, f \in Slots : In(i, f) => f = Token(i)[1] \/ In(Token(i)[1], f)
<1>1. /\ \A i \in Acts : Toks(i) \in Seq(Slots \X Nat) /\ DOMAIN acts[i].toks = 1..Len(Toks(i)) /\ Len(Toks(i)) \in Nat
      /\ Acts \subseteq Slots
  BY Fields DEF Toks
<1>2. \A i \in Acts, f \in Slots : In(i, f) <=> \E k \in 1..Len(Toks(i)) : Toks(i)[k][1] = f
  BY <1>1 DEF In, Toks
<1>3. \A i \in Acts : Branch(i) <=> Len(Toks(i)) # 0
  BY <1>1 DEF Branch, Toks
<1>4. ASSUME NEW i \in Acts, NEW f \in Slots, In(i, f)
      PROVE  f \in Acts /\ forks[f].st # "none" /\ Branch(i)
  <2>1. PICK k \in 1..Len(Toks(i)) : Toks(i)[k][1] = f
    BY <1>2, <1>4
  <2>2. f \in Acts /\ forks[f].st # "none"
    BY <1>4, <2>1 DEF Placed
  <2> QED
    BY <1>1, <1>3, <1>4, <2>1, <2>2
<1>5. ASSUME NEW i \in Acts, In(i, i)
      PROVE  FALSE
  <2>1. PICK k \in 1..Len(Toks(i)) : Toks(i)[k][1] = i
    BY <1>1, <1>2, <1>5
  <2>2. Len(Toks(i)) = k - 1
    BY <1>5, <2>1 DEF Placed
  <2> QED
    BY <1>1, <1>5, <2>1, <2>2
<1>6. \A i \in Acts : Branch(i) => /\ Len(Toks(i)) \in 1..Len(Toks(i)) /\ Token(i) = Toks(i)[Len(Toks(i))]
                                   /\ Token(i) = <<Token(i)[1], Token(i)[2]>> /\ Token(i)[1] \in Slots
                                   /\ Token(i)[2] \in Nat
  BY <1>1, <1>3 DEF Token, Toks
<1>7. \A i \in Acts : Branch(i) => In(i, Token(i)[1]) /\ Token(i)[1] \in Acts
  BY <1>2, <1>4, <1>6
<1>8. ASSUME NEW i \in Acts, NEW f \in Slots, NEW g \in Slots, In(i, g), In(g, f)
      PROVE  In(i, f)
  <2>1. PICK k \in 1..Len(Toks(i)) : Toks(i)[k][1] = g
    BY <1>2, <1>8
  <2>2. g \in Acts /\ Len(Toks(g)) = k - 1 /\ \A m \in 1..(k - 1) : Toks(g)[m] = Toks(i)[m]
    BY <1>8, <2>1 DEF Placed
  <2>3. PICK m \in 1..Len(Toks(g)) : Toks(g)[m][1] = f
    BY <1>2, <1>8, <2>2
  <2>4. Len(Toks(i)) \in Nat
    BY <1>1
  <2>5. m \in 1..(k - 1)
    BY <2>2, <2>3
  <2>6. m \in 1..Len(Toks(i))
    BY <2>4, <2>5
  <2>7. Toks(i)[m][1] = f
    BY <2>2, <2>3, <2>5
  <2> QED
    BY <1>2, <1>8, <2>6, <2>7
<1>9. ASSUME NEW i \in Acts, NEW f \in Slots, In(i, f), f # Token(i)[1]
      PROVE  In(Token(i)[1], f)
  <2>1. PICK k \in 1..Len(Toks(i)) : Toks(i)[k][1] = f
    BY <1>2, <1>9
  <2> DEFINE n == Len(Toks(i))
             g == Token(i)[1]
  <2>2. Branch(i) /\ n \in Nat /\ k \in 1..(n - 1) /\ g = Toks(i)[n][1] /\ n \in 1..n
    BY <1>1, <1>3, <1>6, <1>9, <2>1
  <2>3. g \in Acts /\ Len(Toks(g)) = n - 1 /\ \A m \in 1..(n - 1) : Toks(g)[m] = Toks(i)[m]
    <3>1. n \in 1..Len(Toks(i)) /\ Toks(i)[n][1] = g
      BY <2>2
    <3> HIDE DEF g, n
    <3> QED
      BY <1>9, <3>1 DEF Placed
  <2>4. k \in 1..Len(Toks(g)) /\ Toks(g)[k][1] = f
    BY <2>1, <2>2, <2>3
  <2> QED
    BY <1>2, <1>9, <2>3, <2>4
<1> QED
  BY <1>2, <1>3, <1>4, <1>5, <1>6, <1>7, <1>8, <1>9

\* What a definition promises of its nodes.
LEMMA NodeFacts ==
  ASSUME RunTypes, NEW n \in Names
  PROVE  /\ n # "none" /\ Graph[n].kind \in Kinds
         /\ \A l \in Labels(Graph[n].kind) :
              /\ Graph[n].next[l] \in Names
              /\ \/ Where[Graph[n].next[l]] = Where[n] /\ Graph[Graph[n].next[l]].kind # "join"
                 \/ Where[n] # "none" /\ Graph[n].next[l] = Graph[Where[n]].join
         /\ Where[n] # "none" => Where[n] \in Names /\ Graph[Where[n]].kind \in {"fork", "foreach"}
         /\ Graph[n].kind \in {"end", "loop", "work"} => Where[n] = "none"
         /\ Graph[n].kind \in {"fork", "foreach"} =>
              /\ Graph[n].join \in Names /\ Graph[Graph[n].join].kind = "join" /\ Where[Graph[n].join] = Where[n]
         /\ Graph[n].kind = "foreach" =>
              /\ Graph[n].body \in Names /\ Where[Graph[n].body] = n /\ Graph[Graph[n].body].kind # "join"
              /\ Graph[n].sizes \subseteq Nat /\ Graph[n].empty \in Outcomes
         /\ Graph[n].kind = "fork" =>
              /\ Graph[n].branches # <<>> /\ Len(Graph[n].branches) \in Nat \ {0}
              /\ DOMAIN Graph[n].branches = 1..Len(Graph[n].branches)
              /\ \A b \in DOMAIN Graph[n].branches : LET t == Graph[n].branches[b].to IN
                   t \in Names /\ Where[t] = n /\ Graph[t].kind # "join"
              /\ Graph[n].repair # "none" =>
                   /\ Graph[n].repair \in Names /\ Where[Graph[n].repair] = "none"
                   /\ Graph[Graph[n].repair].kind = "work" /\ Where[n] = "none"
<1> DEFINE g == Graph
           r == Where
           Forks == {m \in Names : g[m].kind \in {"fork", "foreach"}}
           Inside(q) == {t \in Names : r[t] = q /\ g[t].kind # "join"}
<1>1. Regular(g, r)
  BY PlanFacts
<1>2. /\ r \in [Names -> Forks \cup {"none"}] /\ "none" \notin Names
      /\ g[n].kind \in Kinds /\ (g[n].kind \in {"end", "loop", "work"} => r[n] = "none")
      /\ \A l \in Labels(g[n].kind) :
           g[n].next[l] \in Inside(r[n]) \/ (r[n] # "none" /\ g[n].next[l] = g[r[n]].join)
      /\ \A m \in Forks : g[m].join \in Names /\ g[g[m].join].kind = "join" /\ r[g[m].join] = r[m]
      /\ n \in Forks /\ g[n].kind = "foreach" =>
          g[n].body \in Inside(n) /\ g[n].sizes \subseteq Nat /\ g[n].empty \in Outcomes
      /\ n \in Forks /\ g[n].kind = "fork" =>
          /\ g[n].branches \in Seq([to : Inside(n), req : BOOLEAN]) \ {<<>>}
          /\ g[n].repair # "none" =>
               g[n].repair \in Inside("none") /\ g[g[n].repair].kind = "work" /\ r[n] = "none"
  <2> HIDE DEF g, r
  <2> QED
    BY <1>1, Zenon DEF Regular, Names, g
<1>3. r[n] # "none" => r[n] \in Forks
  BY <1>2
<1>4. ASSUME g[n].kind = "fork"
      PROVE  /\ Len(g[n].branches) \in Nat \ {0} /\ DOMAIN g[n].branches = 1..Len(g[n].branches)
             /\ \A b \in DOMAIN g[n].branches : g[n].branches[b].to \in Inside(n)
  <2>1. ASSUME NEW R, NEW s \in Seq(R), s # <<>>
        PROVE  Len(s) \in Nat \ {0} /\ DOMAIN s = 1..Len(s) /\ \A b \in DOMAIN s : s[b] \in R
    BY <2>1
  <2>2. g[n].branches \in Seq([to : Inside(n), req : BOOLEAN]) /\ g[n].branches # <<>>
    BY <1>2, <1>4
  <2>3. \A b \in DOMAIN g[n].branches : g[n].branches[b] \in [to : Inside(n), req : BOOLEAN]
    BY <2>1, <2>2
  <2> HIDE DEF g, Inside
  <2> QED
    BY <2>1, <2>2, <2>3
<1>5. \A l \in Labels(g[n].kind) :
              /\ g[n].next[l] \in Names
              /\ \/ r[g[n].next[l]] = r[n] /\ g[g[n].next[l]].kind # "join"
                 \/ r[n] # "none" /\ g[n].next[l] = g[r[n]].join
  <2> HIDE DEF g, r
  <2> QED
  BY <1>2, <1>3
<1> HIDE DEF g, r
<1>6. /\ n # "none" /\ g[n].kind \in Kinds
      /\ r[n] # "none" => r[n] \in Names /\ g[r[n]].kind \in {"fork", "foreach"}
      /\ g[n].kind \in {"end", "loop", "work"} => r[n] = "none"
  BY <1>2, <1>3
<1>7. g[n].kind \in {"fork", "foreach"} =>
              /\ g[n].join \in Names /\ g[g[n].join].kind = "join" /\ r[g[n].join] = r[n]
  BY <1>2
<1>8. g[n].kind = "foreach" =>
              /\ g[n].body \in Names /\ r[g[n].body] = n /\ g[g[n].body].kind # "join"
              /\ g[n].sizes \subseteq Nat /\ g[n].empty \in Outcomes
  BY <1>2
<1>9. g[n].kind = "fork" =>
              /\ g[n].branches # <<>>
              /\ g[n].repair # "none" =>
                   /\ g[n].repair \in Names /\ r[g[n].repair] = "none"
                   /\ g[g[n].repair].kind = "work" /\ r[n] = "none"
  BY <1>2
<1> QED
  BY <1>4, <1>5, <1>6, <1>7, <1>8, <1>9 DEF g, r

\* A fork with a repair is outside every region.
LEMMA RepairableIsOutside ==
  ASSUME RunTypes, LedgerTypes, Placed, NEW f \in Acts, Kind(f) = "fork", Node(f).repair # "none"
  PROVE  ~ Branch(f)
<1>1. acts[f].node \in Names
  BY Fields
<1>2. Where[acts[f].node] = "none"
  BY <1>1, NodeFacts DEF Kind, Node
<1>3. Branch(f) => acts[Token(f)[1]].node \in Names /\ Token(f)[1] \in Acts
  BY Fields, Nesting
<1>4. Branch(f) => acts[Token(f)[1]].node # "none"
  BY <1>3, NodeFacts
<1> QED
  BY <1>2, <1>4 DEF Placed

\* An activation that goes on inside a region, at whatever depth, means that a branch of the
\* region is still carried, by it or by a region around it.
LEMMA CarriedFromInside ==
  ASSUME RunTypes, LedgerTypes, Placed, Enclosed, NEW j \in Acts, NEW f \in Slots, In(j, f), Runs(j)
  PROVE  \E x \in Acts : \E b \in Branches(f) : Carries(x, f, b) /\ (x = j \/ forks[x].st = "open")
<1>1. PICK k \in 1..Len(Toks(j)) : Toks(j)[k][1] = f
  BY Nesting
<1>2. Len(Toks(j)) \in Nat /\ Branch(j) /\ Acts \subseteq Slots /\ Toks(j) \in Seq(Slots \X Nat)
  <2>1. Acts \subseteq Slots /\ acts[j].toks \in Seq(Slots \X Nat)
    BY Fields
  <2>2. Branch(j)
    BY Nesting
  <2> QED
    BY <2>1, <2>2 DEF Toks
<1>3. Toks(j)[k][2] \in Branches(f) /\ Toks(j)[k] = <<f, Toks(j)[k][2]>>
  BY <1>1, <1>2 DEF Placed
<1>4. CASE k = Len(Toks(j))
  <2>1. Token(j) = <<f, Toks(j)[k][2]>>
    BY <1>2, <1>3, <1>4, Nesting
  <2> QED
    BY <1>2, <1>3, <2>1 DEF Carries
<1>5. CASE k # Len(Toks(j))
  <2> DEFINE g == Toks(j)[k + 1][1]
  <2>1. k + 1 \in 1..Len(Toks(j)) /\ k \in 1..k
    BY <1>2, <1>5
  <2>2. g \in Acts /\ Len(Toks(g)) = (k + 1) - 1 /\ Toks(g)[k] = Toks(j)[k] /\ forks[g].st = "open"
    <3>1. (k + 1) - 1 = k
      OBVIOUS
    <3> QED
      BY <2>1, <3>1 DEF Placed, Enclosed
  <2>3. Len(Toks(g)) = k /\ Branch(g) /\ Token(g) = Toks(g)[k]
    BY <1>1, <2>2, Nesting
  <2> QED
    BY <1>3, <2>2, <2>3 DEF Carries, Runs
<1> QED
  BY <1>4, <1>5

-----------------------------------------------------------------------------
(* What all steps have in common: the ledger grows. *)

\* What has been opened or closed stays so; what is over stays over.
OldStays ==
  /\ \A f \in Slots : forks[f].st # "none" =>
       forks'[f].st # "none" /\ Branches(f)' = Branches(f) /\ forks'[f].empty = forks[f].empty
  /\ \A i \in Acts : acts[i].st = "completed" => acts'[i].st = "completed"
  /\ \A f \in Slots : forks[f].st \in {"joined", "superseded"} =>
       forks'[f].arr = forks[f].arr /\ (forks'[f].st = forks[f].st \/ (forks'[f].st = "superseded" /\ Branch(f)))

\* What is new is beside something that runs, or outside every region, or in a region opened by
\* something that runs.
NewTokens ==
  \A n \in Acts' \ Acts :
    \/ \E i \in Acts : /\ acts'[n].toks = Toks(i) /\ (Branch(i) => Runs(i))
                       /\ Where[acts'[n].node] = Where[acts[i].node]
    \/ \E i \in Acts : \E b \in Nat :
         /\ acts'[n].toks = Append(Toks(i), <<i, b>>) /\ Alive(i)
         /\ forks'[i].st # "none" /\ b \in Branches(i)' /\ Where[acts'[n].node] = acts[i].node

NewForks ==
  /\ \A f \in Slots : forks[f].st = "none" /\ forks'[f].st # "none" =>
       /\ f \in Acts /\ acts'[f].st = "completed" /\ Kind(f) \in {"fork", "foreach"}
       /\ Branches(f)' = {} => forks'[f].empty \in Outcomes
  /\ \A f \in Slots : forks'[f].st = "cancelling" =>
       forks[f].st = "cancelling" \/ (f \in Acts /\ Kind(f) = "fork" /\ Node(f).repair # "none")

\* A join is new with the end of its region, a repair with the stop of its.
NewSuccessors ==
  /\ \A n \in Acts' \ Acts : LET f == acts'[n].join IN
       /\ f = 0 => Kind(n)' # "join"
       /\ f # 0 => /\ n = Last /\ acts'[n].heir = 0 /\ Kind(n)' = "join" /\ f \in Acts
                   /\ forks[f].st \in {"none", "open"} /\ forks'[f].st = "joined"
                   /\ \A b \in DOMAIN forks'[f].arr : forks'[f].arr[b] # "none"
  /\ \A n \in Acts' \ Acts : LET f == acts'[n].heir IN
       f # 0 => /\ n = Last /\ f \in Acts /\ ~ Branch(f)
                /\ forks[f].st = "cancelling" /\ forks'[f].st = "superseded"

Grows == (\E n \in Nat : Keeps(n)) /\ OldStays /\ NewTokens /\ NewForks /\ NewSuccessors

\* The activations after a step.
LEMMA ActsAfter ==
  ASSUME RunTypes, LedgerTypes, NEW n \in Nat, Keeps(n)
  PROVE  /\ Acts' = 1..(Len(acts) + n) /\ Acts \subseteq Acts' /\ Acts' \ Acts = (Len(acts) + 1)..(Len(acts) + n)
         /\ Acts' \subseteq Slots /\ Graph' = Graph /\ Where' = Where /\ Names' = Names
         /\ \A j \in Acts : acts'[j].node = acts[j].node /\ Toks(j)' = Toks(j) /\ (Branch(j) <=> Branch(j)')
                            /\ Token(j)' = Token(j) /\ Kind(j)' = Kind(j) /\ Node(j)' = Node(j)
         /\ \A j \in Acts : \A f : In(j, f)' <=> In(j, f)
<1>1. Graph' = Graph /\ Where' = Where /\ Names' = Names /\ MaxActs' = MaxActs
  BY PlanKept DEF Keeps
<1>2. Len(acts) \in Nat /\ Acts = 1..Len(acts) /\ Acts \subseteq Slots
  BY Fields
<1>3. acts' \in Seq(ActRecs') /\ Len(acts') = Len(acts) + n /\ Len(acts') \in 1..MaxActs' /\ MaxActs \in 1..MaxSlots /\ MaxSlots \in Nat
  BY PlanFacts DEF Keeps, LedgerTypes
<1>4. Acts' = 1..(Len(acts) + n)
  BY <1>3 DEF Acts
<1>5. Acts' \subseteq Slots
  BY <1>1, <1>2, <1>3, <1>4 DEF Slots
<1>6. \A j \in Acts : /\ acts'[j].node = acts[j].node /\ acts'[j].toks = acts[j].toks
  BY DEF Keeps
<1> QED
  BY <1>1, <1>2, <1>4, <1>5, <1>6 DEF Toks, Branch, Token, Kind, Node, In

\* Growth keeps every activation at its place.
LEMMA GrowsPlaced ==
  ASSUME RunTypes, LedgerTypes, Placed, Grows
  PROVE  Placed'
<1>1. PICK n \in Nat : Keeps(n)
  BY DEF Grows
<1>2. /\ Acts \subseteq Acts' /\ Acts' \subseteq Slots /\ Where' = Where
      /\ \A j \in Acts : acts'[j].node = acts[j].node /\ Toks(j)' = Toks(j) /\ (Branch(j) <=> Branch(j)') /\ Token(j)' = Token(j)
  BY <1>1, ActsAfter
<1>3. Acts \subseteq Slots /\ \A j \in Acts : Toks(j) \in Seq(Slots \X Nat) /\ Len(Toks(j)) \in Nat
  BY Fields DEF Toks
<1>4. \A f \in Slots : forks[f].st # "none" => forks'[f].st # "none" /\ Branches(f)' = Branches(f)
  BY DEF Grows, OldStays
<1>5. ASSUME NEW i \in Acts, NEW k \in 1..Len(Toks(i)), NEW f, f = Toks(i)[k][1]
      PROVE  /\ f \in Acts /\ forks'[f].st # "none" /\ Toks(i)[k][2] \in Branches(f)'
             /\ Len(Toks(f)') = k - 1 /\ \A m \in 1..(k - 1) : Toks(f)'[m] = Toks(i)[m]
  <2>1. /\ f \in Acts /\ forks[f].st # "none" /\ Toks(i)[k][2] \in Branches(f)
        /\ Len(Toks(f)) = k - 1 /\ \A m \in 1..(k - 1) : Toks(f)[m] = Toks(i)[m]
    BY <1>5 DEF Placed
  <2>2. f \in Slots /\ forks'[f].st # "none" /\ Branches(f)' = Branches(f) /\ Toks(f)' = Toks(f)
    BY <1>2, <1>3, <1>4, <2>1
  <2> QED
    BY <2>1, <2>2
<1>6. ASSUME NEW i \in Acts', NEW k \in 1..Len(Toks(i)'), NEW f, f = Toks(i)'[k][1]
      PROVE  /\ f \in Acts' /\ forks'[f].st # "none" /\ Toks(i)'[k][2] \in Branches(f)'
             /\ Len(Toks(f)') = k - 1 /\ \A m \in 1..(k - 1) : Toks(f)'[m] = Toks(i)'[m]
  <2>1. CASE i \in Acts
    <3>1. Toks(i)' = Toks(i)
      BY <1>2, <2>1
    <3>2. k \in 1..Len(Toks(i))
      BY <1>6, <3>1
    <3> QED
      BY <1>2, <1>5, <1>6, <2>1, <3>1, <3>2
  <2>2. ASSUME NEW j \in Acts, Toks(i)' = Toks(j)
        PROVE  /\ f \in Acts' /\ forks'[f].st # "none" /\ Toks(i)'[k][2] \in Branches(f)'
               /\ Len(Toks(f)') = k - 1 /\ \A m \in 1..(k - 1) : Toks(f)'[m] = Toks(i)'[m]
    <3>1. k \in 1..Len(Toks(j))
      BY <1>6, <2>2
    <3>2. f = Toks(j)[k][1]
      BY <1>6, <2>2
    <3>3. /\ f \in Acts /\ forks'[f].st # "none" /\ Toks(j)[k][2] \in Branches(f)'
          /\ Len(Toks(f)') = k - 1 /\ \A m \in 1..(k - 1) : Toks(f)'[m] = Toks(j)[m]
      BY <1>5, <2>2, <3>1, <3>2
    <3> QED
      BY <1>2, <2>2, <3>3
  <2>3. ASSUME NEW j \in Acts, NEW b \in Nat, Toks(i)' = Append(Toks(j), <<j, b>>), forks'[j].st # "none", b \in Branches(j)'
        PROVE  /\ f \in Acts' /\ forks'[f].st # "none" /\ Toks(i)'[k][2] \in Branches(f)'
               /\ Len(Toks(f)') = k - 1 /\ \A m \in 1..(k - 1) : Toks(f)'[m] = Toks(i)'[m]
    <3>1. /\ Len(Toks(i)') = Len(Toks(j)) + 1 /\ Toks(i)'[Len(Toks(j)) + 1] = <<j, b>>
          /\ \A m \in 1..Len(Toks(j)) : Toks(i)'[m] = Toks(j)[m]
      BY <1>3, <2>3
    <3>2. CASE k = Len(Toks(j)) + 1
      <4>0. Toks(i)'[k] = <<j, b>>
        BY <3>1, <3>2
      <4>1. f = j /\ Toks(i)'[k][2] = b /\ k - 1 = Len(Toks(j)) /\ Toks(j)' = Toks(j)
        BY <1>2, <1>3, <1>6, <2>3, <3>2, <4>0
      <4> QED
        BY <1>2, <2>3, <3>1, <4>1
    <3>3. CASE k # Len(Toks(j)) + 1
      <4>1. k \in 1..Len(Toks(j)) /\ Toks(i)'[k] = Toks(j)[k] /\ \A m \in 1..(k - 1) : Toks(i)'[m] = Toks(j)[m]
        BY <1>3, <1>6, <2>3, <3>1, <3>3
      <4>2. /\ f = Toks(j)[k][1] /\ f \in Acts /\ forks'[f].st # "none" /\ Toks(j)[k][2] \in Branches(f)'
            /\ Len(Toks(f)') = k - 1 /\ \A m \in 1..(k - 1) : Toks(f)'[m] = Toks(j)[m]
        BY <1>5, <1>6, <2>3, <4>1
      <4>3. /\ f \in Acts' /\ forks'[f].st # "none" /\ Toks(i)'[k][2] \in Branches(f)'
            /\ Len(Toks(f)') = k - 1 /\ \A m \in 1..(k - 1) : Toks(f)'[m] = Toks(i)'[m]
        BY <1>2, <4>1, <4>2
      <4> QED
        BY <4>3
    <3> QED
      BY <3>2, <3>3
  <2>4. i \in Acts \/ (\E j \in Acts : Toks(i)' = Toks(j))
        \/ \E j \in Acts : \E b \in Nat : Toks(i)' = Append(Toks(j), <<j, b>>) /\ forks'[j].st # "none" /\ b \in Branches(j)'
    BY <1>6 DEF Grows, NewTokens, Toks
  <2> QED
    BY <2>1, <2>2, <2>3, <2>4
<1>7. ASSUME NEW i \in Acts'
      PROVE  (Where[acts[i].node] = IF Branch(i) THEN acts[Token(i)[1]].node ELSE "none")'
  <2>1. \A j \in Acts : /\ Where[acts[j].node] = IF Branch(j) THEN acts[Token(j)[1]].node ELSE "none"
                        /\ Branch(j) => Token(j)[1] \in Acts
    BY Nesting DEF Placed
  <2>2. CASE i \in Acts
    BY <1>2, <2>1, <2>2
  <2>3. ASSUME NEW j \in Acts, acts'[i].toks = Toks(j), Where[acts'[i].node] = Where[acts[j].node]
        PROVE  (Where[acts[i].node] = IF Branch(i) THEN acts[Token(i)[1]].node ELSE "none")'
    <3>1. (Branch(i)' <=> Branch(j)) /\ Token(i)' = Token(j)
      BY <2>3 DEF Branch, Token, Toks
    <3> QED
      BY <1>2, <2>1, <2>3, <3>1
  <2>4. ASSUME NEW j \in Acts, NEW b \in Nat, acts'[i].toks = Append(Toks(j), <<j, b>>), Where[acts'[i].node] = acts[j].node
        PROVE  (Where[acts[i].node] = IF Branch(i) THEN acts[Token(i)[1]].node ELSE "none")'
    <3>1. Len(acts'[i].toks) = Len(Toks(j)) + 1 /\ acts'[i].toks[Len(Toks(j)) + 1] = <<j, b>>
      BY <1>3, <2>4
    <3>2. Branch(i)' /\ Token(i)' = <<j, b>>
      <4>1. acts'[i].toks # <<>>
        BY <1>3, <3>1
      <4> QED
        BY <3>1, <4>1 DEF Branch, Token
    <3> QED
      BY <1>2, <2>4, <3>2
  <2> QED
    BY <1>7, <2>2, <2>3, <2>4 DEF Grows, NewTokens
<1> QED
  BY <1>6, <1>7 DEF Placed

\* Growth opens forks only for activations that are over.
LEMMA GrowsRooted ==
  ASSUME RunTypes, LedgerTypes, Rooted, Grows
  PROVE  Rooted'
<1>1. PICK n \in Nat : Keeps(n)
  BY DEF Grows
<1>2. Acts \subseteq Acts' /\ \A j \in Acts : Kind(j)' = Kind(j) /\ Node(j)' = Node(j)
  BY <1>1, ActsAfter
<1>3. ASSUME NEW f \in Slots, forks'[f].st # "none"
      PROVE  /\ f \in Acts /\ acts'[f].st = "completed" /\ Kind(f) \in {"fork", "foreach"}
             /\ forks'[f].st = "cancelling" => Kind(f) = "fork" /\ Node(f).repair # "none"
             /\ Branches(f)' = {} => forks'[f].empty \in Outcomes
  BY <1>3 DEF Grows, OldStays, NewForks, Rooted
<1>4. ASSUME NEW f \in Slots, forks'[f].st # "none"
      PROVE  /\ f \in Acts' /\ acts'[f].st = "completed" /\ Kind(f)' \in {"fork", "foreach"}
             /\ forks'[f].st = "cancelling" => Kind(f)' = "fork" /\ Node(f)'.repair # "none"
             /\ Branches(f)' = {} => forks'[f].empty \in Outcomes
  BY <1>2, <1>3, <1>4
<1> QED
  BY <1>4 DEF Rooted

\* A generation whose region is no longer open does not grow.
LEMMA GenerationIsClosed ==
  ASSUME RunTypes, LedgerTypes, Placed, Rooted, Enclosed, Grows, NEW f \in Slots, forks[f].st \in {"cancelling", "superseded"}
  PROVE  Gen(f)' = Gen(f)
<1>1. PICK n \in Nat : Keeps(n)
  BY DEF Grows
<1>2. Acts \subseteq Acts' /\ \A j \in Acts : In(j, f)' <=> In(j, f)
  BY <1>1, ActsAfter
<1>3. \A j \in Acts : Toks(j) \in Seq(Slots \X Nat) /\ Len(Toks(j)) \in Nat
  BY Fields DEF Toks
<1>4. ASSUME NEW i \in Acts' \ Acts, In(i, f)'
      PROVE  FALSE
  <2>1. PICK k \in DOMAIN acts'[i].toks : acts'[i].toks[k][1] = f
    BY <1>4 DEF In
  <2>2. ASSUME NEW j \in Acts, acts'[i].toks = Toks(j), Branch(j) => Runs(j)
        PROVE  FALSE
    <3>1. k \in 1..Len(Toks(j)) /\ Toks(j)[k][1] = f
      BY <1>3, <2>1, <2>2
    <3>2. Branch(j)
      BY <1>3, <2>2, <3>1, Nesting
    <3> QED
      BY <2>2, <3>1, <3>2 DEF Enclosed
  <2>3. ASSUME NEW j \in Acts, NEW b \in Nat, acts'[i].toks = Append(Toks(j), <<j, b>>), Alive(j)
        PROVE  FALSE
    <3>1. /\ k \in 1..(Len(Toks(j)) + 1)
          /\ acts'[i].toks[Len(Toks(j)) + 1] = <<j, b>>
          /\ \A m \in 1..Len(Toks(j)) : acts'[i].toks[m] = Toks(j)[m]
      BY <1>3, <2>1, <2>3
    <3>2. CASE k \in 1..Len(Toks(j))
      <4>1. Toks(j)[k][1] = f
        BY <2>1, <3>1, <3>2
      <4> QED
        BY <2>3, <3>2, <4>1 DEF Enclosed, Runs
    <3>3. CASE k = Len(Toks(j)) + 1
      <4>1. f = j
        BY <2>1, <3>1, <3>3
      <4> QED
        BY <2>3, <4>1 DEF Rooted, Alive
    <3> QED
      BY <1>3, <2>3, <3>1, <3>2, <3>3
  <2> QED
    BY <1>4, <2>2, <2>3 DEF Grows, NewTokens
<1> QED
  BY <1>2, <1>4 DEF Gen

\* Growth adds a join only to a region that had none, and a repair only to one that had neither.
LEMMA GrowsSucceeded ==
  ASSUME RunTypes, LedgerTypes, Succeeded, Grows
  PROVE  Succeeded'
<1>1. PICK n \in Nat : Keeps(n)
  BY DEF Grows
<1>2. /\ Acts \subseteq Acts' /\ Acts' \subseteq Slots
      /\ \A j \in Acts : Kind(j)' = Kind(j) /\ (Branch(j) <=> Branch(j)')
      /\ \A j \in Acts : acts'[j].join = acts[j].join /\ acts'[j].heir = acts[j].heir
  BY <1>1, ActsAfter DEF Keeps
<1>3. ASSUME NEW i \in Acts, NEW f, f = acts[i].join, f # 0
      PROVE  /\ f \in Acts /\ Kind(i) = "join" /\ acts[i].heir = 0 /\ forks[f].st \in {"joined", "superseded"}
             /\ forks'[f].st = "joined" \/ (forks'[f].st = "superseded" /\ Branch(f))
             /\ \A b \in DOMAIN forks'[f].arr : forks'[f].arr[b] # "none"
  <2>1. /\ f \in Acts /\ Kind(i) = "join" /\ acts[i].heir = 0
        /\ forks[f].st = "joined" \/ (forks[f].st = "superseded" /\ Branch(f))
        /\ \A b \in DOMAIN forks[f].arr : forks[f].arr[b] # "none"
    BY <1>3 DEF Succeeded, Branches
  <2>2. f \in Slots
    BY <2>1, Fields
  <2>3. forks'[f].arr = forks[f].arr /\ (forks'[f].st = forks[f].st \/ (forks'[f].st = "superseded" /\ Branch(f)))
    BY <2>1, <2>2 DEF Grows, OldStays
  <2> QED
    BY <2>1, <2>3
<1>4. ASSUME NEW i \in Acts, NEW f, f = acts[i].heir, f # 0
      PROVE  f \in Acts /\ ~ Branch(f) /\ forks[f].st = "superseded" /\ forks'[f].st = "superseded"
  <2>1. f \in Acts /\ ~ Branch(f) /\ forks[f].st = "superseded"
    BY <1>4 DEF Succeeded
  <2>2. f \in Slots
    BY <2>1, Fields
  <2> QED
    BY <2>1, <2>2 DEF Grows, OldStays
<1>5. ASSUME NEW i \in Acts' \ Acts, NEW f, f = acts'[i].join
      PROVE  /\ f = 0 => Kind(i)' # "join"
             /\ f # 0 => /\ i = Last /\ acts'[i].heir = 0 /\ Kind(i)' = "join" /\ f \in Acts
                         /\ forks[f].st \in {"none", "open"} /\ forks'[f].st = "joined"
                         /\ \A b \in DOMAIN forks'[f].arr : forks'[f].arr[b] # "none"
  BY <1>5 DEF Grows, NewSuccessors
<1>6. ASSUME NEW i \in Acts' \ Acts, NEW f, f = acts'[i].heir, f # 0
      PROVE  i = Last /\ f \in Acts /\ ~ Branch(f) /\ forks[f].st = "cancelling" /\ forks'[f].st = "superseded"
  BY <1>6 DEF Grows, NewSuccessors
<1>7. ASSUME NEW i \in Acts', acts'[i].join # 0
      PROVE  LET f == acts'[i].join IN
             /\ f \in Acts' /\ Kind(i)' = "join" /\ acts'[i].heir = 0
             /\ forks'[f].st = "joined" \/ (forks'[f].st = "superseded" /\ f \in Acts /\ Branch(f))
             /\ \A b \in DOMAIN forks'[f].arr : forks'[f].arr[b] # "none"
  <2>1. CASE i \in Acts
    BY <1>2, <1>3, <1>7, <2>1
  <2>2. CASE i \notin Acts
    BY <1>2, <1>5, <1>7, <2>2
  <2> QED
    BY <2>1, <2>2
<1>8. ASSUME NEW i \in Acts', Kind(i)' = "join"
      PROVE  acts'[i].join # 0
  <2>1. CASE i \in Acts
    BY <1>2, <1>8, <2>1 DEF Succeeded
  <2>2. CASE i \notin Acts
    BY <1>5, <1>8, <2>2
  <2> QED
    BY <2>1, <2>2
<1>9. ASSUME NEW i \in Acts', acts'[i].heir # 0
      PROVE  acts'[i].heir \in Acts /\ forks'[acts'[i].heir].st = "superseded" /\ ~ Branch(acts'[i].heir)
  <2>1. CASE i \in Acts
    BY <1>2, <1>4, <1>9, <2>1
  <2>2. CASE i \notin Acts
    BY <1>6, <1>9, <2>2
  <2> QED
    BY <2>1, <2>2
<1>10. ASSUME NEW i \in Acts', NEW j \in Acts', acts'[i].join # 0, acts'[i].join = acts'[j].join
       PROVE  i = j
  <2>1. CASE i \in Acts /\ j \in Acts
    BY <1>2, <1>10, <2>1 DEF Succeeded
  <2>2. CASE i \in Acts /\ j \notin Acts
    BY <1>2, <1>3, <1>5, <1>10, <2>2
  <2>3. CASE i \notin Acts /\ j \in Acts
    BY <1>2, <1>3, <1>5, <1>10, <2>3
  <2>4. CASE i \notin Acts /\ j \notin Acts
    BY <1>5, <1>10, <2>4
  <2> QED
    BY <2>1, <2>2, <2>3, <2>4
<1>11. ASSUME NEW i \in Acts', NEW j \in Acts', acts'[i].heir # 0, acts'[i].heir = acts'[j].heir
       PROVE  i = j
  <2>1. CASE i \in Acts /\ j \in Acts
    BY <1>2, <1>11, <2>1 DEF Succeeded
  <2>2. CASE i \in Acts /\ j \notin Acts
    BY <1>2, <1>4, <1>6, <1>11, <2>2
  <2>3. CASE i \notin Acts /\ j \in Acts
    BY <1>2, <1>4, <1>6, <1>11, <2>3
  <2>4. CASE i \notin Acts /\ j \notin Acts
    BY <1>6, <1>11, <2>4
  <2> QED
    BY <2>1, <2>2, <2>3, <2>4
<1>12. \A i \in Acts' : acts'[i].join # 0 =>
         /\ acts'[i].join \in Acts' /\ Kind(i)' = "join" /\ acts'[i].heir = 0
         /\ forks'[acts'[i].join].st = "joined" \/ (forks'[acts'[i].join].st = "superseded" /\ Branch(acts[i].join)')
         /\ \A b \in Branches(acts[i].join)' : forks'[acts'[i].join].arr[b] # "none"
  <2>1. \A i \in Acts' : acts'[i].join \in Acts => (Branch(acts[i].join)' <=> Branch(acts'[i].join))
    BY <1>2 DEF Branch
  <2> QED
    BY <1>7, <2>1 DEF Branches
<1>13. \A i \in Acts' : acts'[i].heir # 0 =>
         acts'[i].heir \in Acts' /\ forks'[acts'[i].heir].st = "superseded" /\ ~ Branch(acts[i].heir)'
  <2>1. \A i \in Acts' : acts'[i].heir \in Acts => (Branch(acts[i].heir)' <=> Branch(acts'[i].heir))
    BY <1>2 DEF Branch
  <2> QED
    BY <1>2, <1>9, <2>1
<1> QED
  BY <1>8, <1>10, <1>11, <1>12, <1>13 DEF Succeeded

-----------------------------------------------------------------------------
(* Each kind of step grows the ledger, and keeps regions enclosed and branches carried. *)

\* A branch that one activation stops carrying and a new one takes over
\* is carried still.
LEMMA HandedOver ==
  ASSUME Acts \subseteq Acts', NEW f, NEW b, CarriedAt(f, b), forks'[f].arr[b] = forks[f].arr[b],
         NEW old, NEW new, new \notin Acts, Carries(old, f, b) => new \in Acts',
         \A x \in Acts : Carries(x, f, b)' <=> Carries(x, f, b) /\ x # old,
         \A x \in Acts' \ Acts : Carries(x, f, b)' <=> x = new /\ Carries(old, f, b)
  PROVE  CarriedAt(f, b)'
<1>1. Carries(old, f, b) => old \in Acts
  BY DEF Carries
<1>2. ASSUME forks'[f].arr[b] = "none"
      PROVE  \E x \in Acts' : Carries(x, f, b)'
  <2>1. PICK x \in Acts : Carries(x, f, b)
    BY <1>2 DEF CarriedAt
  <2>2. CASE x = old
    BY <2>1, <2>2
  <2>3. CASE x # old
    BY <2>1, <2>3
  <2> QED
    BY <2>2, <2>3
<1>3. ASSUME forks'[f].arr[b] # "none", NEW x \in Acts', Carries(x, f, b)'
      PROVE  FALSE
  BY <1>1, <1>3 DEF CarriedAt
<1>4. ASSUME NEW x \in Acts', NEW y \in Acts', Carries(x, f, b)', Carries(y, f, b)'
      PROVE  x = y
  <2>1. CASE x \in Acts /\ y \in Acts
    BY <1>4, <2>1 DEF CarriedAt
  <2>2. CASE x \in Acts /\ y \notin Acts
    BY <1>1, <1>4, <2>2 DEF CarriedAt
  <2>3. CASE x \notin Acts /\ y \in Acts
    BY <1>1, <1>4, <2>3 DEF CarriedAt
  <2>4. CASE x \notin Acts /\ y \notin Acts
    BY <1>4, <2>4
  <2> QED
    BY <2>1, <2>2, <2>3, <2>4
<1> QED
  BY <1>2, <1>3, <1>4 DEF CarriedAt

\* And so is a branch that nothing happens to.
LEMMA CarriedOn ==
  ASSUME Acts \subseteq Acts', NEW f, NEW b, CarriedAt(f, b), forks'[f].arr[b] = forks[f].arr[b],
         \A x \in Acts : Carries(x, f, b)' <=> Carries(x, f, b),
         \A x \in Acts' \ Acts : ~ Carries(x, f, b)'
  PROVE  CarriedAt(f, b)'
<1>1. ASSUME forks'[f].arr[b] = "none"
      PROVE  \E x \in Acts' : Carries(x, f, b)'
  BY <1>1 DEF CarriedAt
<1>2. ASSUME forks'[f].arr[b] # "none", NEW x \in Acts', Carries(x, f, b)'
      PROVE  FALSE
  BY <1>2 DEF CarriedAt
<1>3. ASSUME NEW x \in Acts', NEW y \in Acts', Carries(x, f, b)', Carries(y, f, b)'
      PROVE  x = y
  BY <1>3 DEF CarriedAt
<1> QED
  BY <1>1, <1>2, <1>3 DEF CarriedAt

\* What is enclosed, from what each activation is.
LEMMA EnclosedFrom ==
  ASSUME RunTypes, LedgerTypes, Placed, NEW n \in Nat, Keeps(n),
         \A x \in Acts : Runs(x)' => \A f \in Slots : In(x, f) => forks'[f].st = "open",
         \A x \in Acts : acts'[x].st = "superseded" =>
           Branch(x) /\ forks'[Token(x)[1]].st \in {"cancelling", "superseded"},
         \A x \in Acts' \ Acts : acts'[x].st # "superseded",
         \A x \in Acts' \ Acts : \A k \in DOMAIN acts'[x].toks : forks'[acts'[x].toks[k][1]].st = "open"
  PROVE  Enclosed'
<1>1. /\ Acts \subseteq Acts' /\ \A j \in Acts : Toks(j)' = Toks(j) /\ (Branch(j) <=> Branch(j)') /\ Token(j)' = Token(j)
  BY ActsAfter
<1>2. \A x \in Acts : Toks(x) \in Seq(Slots \X Nat)
  BY Fields DEF Toks
<1>3. ASSUME NEW x \in Acts', Runs(x)', NEW k \in 1..Len(Toks(x)')
      PROVE  forks'[Toks(x)'[k][1]].st = "open"
  <2>1. CASE x \in Acts
    <3>1. Toks(x)' = Toks(x) /\ k \in 1..Len(Toks(x)) /\ Toks(x)[k][1] \in Slots
      BY <1>1, <1>2, <1>3, <2>1
    <3>2. In(x, Toks(x)[k][1])
      BY <2>1, <3>1, Nesting
    <3> QED
      BY <1>3, <2>1, <3>1, <3>2
  <2>2. CASE x \notin Acts
    <3>1. LedgerTypes'
      BY DEF Keeps
    <3>2. acts'[x] \in ActRecs'
      BY <1>3, <3>1 DEF LedgerTypes, Acts
    <3>3. acts'[x].toks \in Seq(Slots \X Nat)
      BY <3>2 DEF ActRecs, Slots
    <3> QED
      BY <1>3, <2>2, <3>3 DEF Toks
  <2> QED
    BY <2>1, <2>2
<1>4. ASSUME NEW x \in Acts', acts'[x].st = "superseded"
      PROVE  Branch(x)' /\ forks'[Token(x)[1]'].st \in {"cancelling", "superseded"}
  BY <1>1, <1>4
<1> QED
  BY <1>3, <1>4 DEF Enclosed

\* A step that changes nothing of the regions.
LEMMA StayKeeps ==
  ASSUME RunTypes, LedgerTypes, Placed, Rooted, Enclosed, Carried, StayStep
  PROVE  Grows /\ Enclosed' /\ Carried'
<1>1. 0 \in Nat /\ Keeps(0) /\ forks' = forks
  BY DEF StayStep
<1>2. /\ Acts' = Acts /\ Acts \subseteq Slots
      /\ \A j \in Acts : Toks(j)' = Toks(j) /\ (Branch(j) <=> Branch(j)') /\ Token(j)' = Token(j)
  <2>1. Acts' = 1..(Len(acts) + 0) /\ Acts = 1..Len(acts) /\ Len(acts) \in Nat /\ Acts \subseteq Slots
    BY <1>1, ActsAfter, Fields
  <2> QED
    BY <1>1, <2>1, ActsAfter
<1>3. Grows
  <2>1. OldStays
    BY <1>1 DEF OldStays, StayStep, Branches, Alive
  <2>2. NewTokens /\ NewSuccessors
    BY <1>2 DEF NewTokens, NewSuccessors
  <2>3. NewForks
    BY <1>1, Zenon DEF NewForks, Rooted
  <2> QED
    BY <1>1, <2>1, <2>2, <2>3 DEF Grows
<1>4. \A x \in Acts : /\ Runs(x)' => Runs(x)
                      /\ Branch(x) => (Runs(x)' <=> Runs(x))
  BY <1>1 DEF StayStep, Runs, Alive
<1>5. Enclosed'
  <2>1. ASSUME NEW x \in Acts, Runs(x)', NEW f \in Slots, In(x, f)
        PROVE  forks'[f].st = "open"
    <3>1. PICK k \in 1..Len(Toks(x)) : Toks(x)[k][1] = f
      BY <2>1, Nesting
    <3> QED
      BY <1>1, <1>4, <2>1, <3>1 DEF Enclosed
  <2>2. ASSUME NEW x \in Acts, acts'[x].st = "superseded"
        PROVE  Branch(x) /\ forks'[Token(x)[1]].st \in {"cancelling", "superseded"}
    BY <1>1, <2>2 DEF Enclosed, StayStep
  <2> QED
    BY <1>1, <1>2, <2>1, <2>2, EnclosedFrom
<1>6. Carried'
  <2>1. ASSUME NEW f \in Slots, forks'[f].st = "open", NEW b \in Branches(f)'
        PROVE  CarriedAt(f, b)'
    <3>1. CarriedAt(f, b) /\ forks'[f].arr[b] = forks[f].arr[b]
      BY <1>1, <2>1 DEF Carried, Branches
    <3>2. \A x \in Acts : Carries(x, f, b)' <=> Carries(x, f, b)
      BY <1>2, <1>4 DEF Carries
    <3> QED
      BY <1>2, <3>1, <3>2, CarriedOn
  <2> QED
    BY <2>1 DEF Carried, Slots
<1> QED
  BY <1>3, <1>5, <1>6

\* An activation passes its tokens on.
LEMMA PassKeeps ==
  ASSUME RunTypes, LedgerTypes, Placed, Rooted, Enclosed, Carried, NEW i, Passes(i),
         OtherForks(i), forks'[i].st # "open"
  PROVE  /\ NewTokens /\ Enclosed' /\ Carried' /\ forks[i].st = "none" /\ i \in Slots
         /\ Acts' \ Acts = {Last} /\ \A j \in Acts : acts[j].st = "completed" => acts'[j].st = "completed"
<1>1. 1 \in Nat /\ Keeps(1) /\ i \in Acts /\ Alive(i)
  BY DEF Passes
<1>2. /\ Acts \subseteq Acts' /\ Acts' \ Acts = {Last} /\ Acts \subseteq Slots
      /\ \A j \in Acts : Toks(j)' = Toks(j) /\ (Branch(j) <=> Branch(j)') /\ Token(j)' = Token(j)
  <2>1. Acts' \ Acts = (Len(acts) + 1)..(Len(acts) + 1) /\ Len(acts) \in Nat /\ Acts \subseteq Slots
    BY <1>1, ActsAfter, Fields
  <2> QED
    BY <1>1, <2>1, ActsAfter DEF Last
<1>3. i \in Slots /\ forks[i].st = "none" /\ acts'[i].st = "completed"
  BY <1>1, <1>2 DEF Rooted, Alive, Passes
<1>4. /\ \A j \in Acts : acts[j].st = "completed" => acts'[j].st = "completed"
      /\ \A j \in Acts : acts'[j].st = "superseded" => acts[j].st = "superseded"
      /\ \A j \in Acts : Runs(j)' <=> Runs(j) /\ j # i
  BY <1>1, <1>2, <1>3 DEF Passes, OtherActs, OtherForks, Runs, Alive
<1>5. acts'[Last].toks = Toks(i) /\ acts'[Last].st = "ready"
      /\ \A n \in {Last} : Runs(n)' /\ (Branch(n)' <=> Branch(i)) /\ Token(n)' = Token(i)
  BY DEF Passes, Runs, Alive, Toks, Branch, Token
<1>6. NewTokens
  BY <1>1, <1>2 DEF NewTokens, Passes, Runs
<1>7. ASSUME NEW x \in Acts, Runs(x), NEW f \in Slots, In(x, f)
      PROVE  forks[f].st = "open" /\ forks'[f].st = "open"
  <2>1. PICK k \in 1..Len(Toks(x)) : Toks(x)[k][1] = f
    BY <1>7, Nesting
  <2>2. forks[f].st = "open" /\ f # i
    BY <1>3, <1>7, <2>1 DEF Enclosed
  <2> QED
    BY <2>2 DEF OtherForks
<1>8. ASSUME NEW x \in Acts, acts'[x].st = "superseded"
      PROVE  Branch(x) /\ forks'[Token(x)[1]].st \in {"cancelling", "superseded"}
  <2>1. Branch(x) /\ forks[Token(x)[1]].st \in {"cancelling", "superseded"} /\ Token(x)[1] \in Slots
    BY <1>2, <1>4, <1>8, Nesting DEF Enclosed
  <2> QED
    BY <1>3, <2>1 DEF OtherForks
<1>9. ASSUME NEW x \in Acts' \ Acts, NEW k \in DOMAIN acts'[x].toks
      PROVE  forks'[acts'[x].toks[k][1]].st = "open"
  <2>1. x = Last /\ k \in DOMAIN acts[i].toks /\ acts'[x].toks[k][1] = acts[i].toks[k][1]
    BY <1>2, <1>5, <1>9 DEF Toks
  <2>2. acts[i].toks \in Seq(Slots \X Nat)
    BY <1>1, Fields
  <2>3. acts[i].toks[k][1] \in Slots
    BY <2>1, <2>2
  <2>4. In(i, acts[i].toks[k][1])
    BY <2>1 DEF In
  <2> QED
    BY <1>1, <1>7, <2>1, <2>3, <2>4 DEF Runs
<1>10. Enclosed'
  <2>1. \A x \in Acts' \ Acts : acts'[x].st # "superseded"
    BY <1>2, <1>5
  <2> QED
    BY <1>1, <1>4, <1>7, <1>8, <1>9, <2>1, EnclosedFrom
<1>11. Carried'
  <2>1. ASSUME NEW f \in Slots, forks'[f].st = "open", NEW b \in Branches(f)'
        PROVE  CarriedAt(f, b)'
    <3>1. forks[f] = forks'[f]
      BY <2>1 DEF OtherForks
    <3>2. CarriedAt(f, b) /\ forks'[f].arr[b] = forks[f].arr[b]
      BY <2>1, <3>1 DEF Carried, Branches
    <3>3. \A x \in Acts : Carries(x, f, b)' <=> Carries(x, f, b) /\ x # i
      BY <1>2, <1>4 DEF Carries
    <3>4. \A x \in Acts' \ Acts : Carries(x, f, b)' <=> x = Last /\ Carries(i, f, b)
      BY <1>1, <1>2, <1>5 DEF Carries, Runs
    <3>5. Last \in Acts' /\ Last \notin Acts
      BY <1>2
    <3> QED
      BY <1>2, <3>2, <3>3, <3>4, <3>5, HandedOver
  <2> QED
    BY <2>1 DEF Carried, Slots
<1> QED
  BY <1>2, <1>3, <1>4, <1>6, <1>10, <1>11

LEMMA EdgeKeeps ==
  ASSUME RunTypes, LedgerTypes, Placed, Rooted, Enclosed, Carried, NEW i, EdgeStep(i)
  PROVE  Grows /\ Enclosed' /\ Carried'
<1>1. Passes(i) /\ forks' = forks /\ OtherForks(i) /\ i \in Acts /\ Alive(i) /\ 1 \in Nat /\ Keeps(1)
  BY DEF EdgeStep, OtherForks, Passes
<1>2. i \in Slots /\ forks[i].st = "none"
  BY <1>1, Fields DEF Rooted, Alive
<1>3. /\ NewTokens /\ Enclosed' /\ Carried' /\ Acts' \ Acts = {Last}
      /\ \A j \in Acts : acts[j].st = "completed" => acts'[j].st = "completed"
  BY <1>1, <1>2, PassKeeps
<1>4. OldStays
  BY <1>1, <1>3 DEF OldStays, Branches
<1>5. NewForks
  BY <1>1, Zenon DEF NewForks, Rooted
<1>6. NewSuccessors
  BY <1>1, <1>3, ActsAfter DEF NewSuccessors, EdgeStep, Passes, Kind, Node
<1> QED
  BY <1>1, <1>3, <1>4, <1>5, <1>6 DEF Grows

LEMMA EmptyKeeps ==
  ASSUME RunTypes, LedgerTypes, Placed, Rooted, Enclosed, Carried, NEW i, EmptyStep(i)
  PROVE  Grows /\ Enclosed' /\ Carried'
<1>1. Passes(i) /\ forks'[i].st = "joined" /\ OtherForks(i) /\ i \in Acts /\ Alive(i) /\ 1 \in Nat /\ Keeps(1)
  BY DEF EmptyStep, Passes
<1>2. /\ NewTokens /\ Enclosed' /\ Carried' /\ Acts' \ Acts = {Last} /\ i \in Slots /\ forks[i].st = "none"
      /\ \A j \in Acts : acts[j].st = "completed" => acts'[j].st = "completed"
  BY <1>1, PassKeeps
<1>3. OldStays
  BY <1>1, <1>2 DEF OldStays, Branches, OtherForks
<1>4. NewForks
  BY <1>1, <1>2 DEF NewForks, EmptyStep, OtherForks, Passes
<1>5. NewSuccessors
  <2>1. acts'[Last].join = i /\ acts'[Last].heir = 0 /\ i # 0 /\ \A n \in {Last} : Kind(n)' = "join"
    BY <1>1, <1>2, ActsAfter DEF EmptyStep, Passes, Slots, Kind, Node
  <2>2. \A b \in DOMAIN forks'[i].arr : forks'[i].arr[b] # "none"
    BY DEF EmptyStep
  <2> QED
    BY <1>1, <1>2, <2>1, <2>2 DEF NewSuccessors
<1> QED
  BY <1>1, <1>2, <1>3, <1>4, <1>5 DEF Grows

\* A fork is opened: each of its branches is carried by the activation that starts it.
LEMMA OpenKeeps ==
  ASSUME RunTypes, LedgerTypes, Placed, Rooted, Enclosed, Carried, NEW i, OpenStep(i)
  PROVE  Grows /\ Enclosed' /\ Carried'
<1>1. i \in Acts /\ Alive(i) /\ Kind(i) \in {"fork", "foreach"}
  BY DEF OpenStep
<1>2. PICK n \in Nat \ {0} :
        /\ Keeps(n) /\ ClaimsKept /\ acts'[i].st = "completed" /\ OtherActs(i)
        /\ OtherForks(i) /\ forks'[i].st = "open" /\ Branches(i)' = 1..n
        /\ \A b \in 1..n :
             /\ forks'[i].arr[b] = "none"
             /\ acts'[Len(acts) + b].st = "ready" /\ acts'[Len(acts) + b].toks = Append(Toks(i), <<i, b>>)
             /\ acts'[Len(acts) + b].join = 0 /\ acts'[Len(acts) + b].heir = 0
             /\ acts'[Len(acts) + b].node \in Names /\ Where[acts'[Len(acts) + b].node] = acts[i].node
             /\ Graph[acts'[Len(acts) + b].node].kind # "join"
  BY DEF OpenStep
<1>3. /\ Acts \subseteq Acts' /\ Acts \subseteq Slots /\ Graph' = Graph /\ n \in Nat /\ Keeps(n)
      /\ Len(acts) \in Nat /\ Acts = 1..Len(acts) /\ Acts' = 1..(Len(acts) + n)
      /\ \A j \in Acts : Toks(j)' = Toks(j) /\ (Branch(j) <=> Branch(j)') /\ Token(j)' = Token(j)
  BY <1>2, ActsAfter, Fields
<1>4. \A x \in Acts' \ Acts : \E b \in 1..n : x = Len(acts) + b
  <2>1. ASSUME NEW x \in Acts' \ Acts
        PROVE  x - Len(acts) \in 1..n /\ x = Len(acts) + (x - Len(acts))
    BY <1>3, <2>1
  <2> QED
    BY <2>1
<1>5. i \in Slots /\ forks[i].st = "none"
  BY <1>1, <1>3 DEF Rooted, Alive
<1>6. Toks(i) \in Seq(Slots \X Nat) /\ Len(Toks(i)) \in Nat
  BY <1>1, Fields DEF Toks
<1>7. ASSUME NEW x \in Acts' \ Acts
      PROVE  \E b \in 1..n :
               /\ x = Len(acts) + b /\ acts'[x].st = "ready" /\ acts'[x].join = 0 /\ acts'[x].heir = 0
               /\ acts'[x].toks = Append(Toks(i), <<i, b>>) /\ Where[acts'[x].node] = acts[i].node
               /\ Graph[acts'[x].node].kind # "join"
  <2>1. PICK b \in 1..n : x = Len(acts) + b
    BY <1>4, <1>7
  <2>2. /\ acts'[x].st = "ready" /\ acts'[x].join = 0 /\ acts'[x].heir = 0
        /\ acts'[x].toks = Append(Toks(i), <<i, b>>) /\ Where[acts'[x].node] = acts[i].node
        /\ Graph[acts'[x].node].kind # "join"
    BY <1>2, <2>1
  <2> QED
    BY <2>1, <2>2
<1>8. ASSUME NEW x \in Acts' \ Acts, NEW b \in 1..n, acts'[x].toks = Append(Toks(i), <<i, b>>)
      PROVE  /\ Len(acts'[x].toks) = Len(Toks(i)) + 1 /\ DOMAIN acts'[x].toks = 1..(Len(Toks(i)) + 1)
             /\ \A k \in 1..Len(Toks(i)) : acts'[x].toks[k] = Toks(i)[k]
             /\ acts'[x].toks[Len(Toks(i)) + 1] = <<i, b>>
             /\ Branch(x)' /\ Token(x)' = <<i, b>>
  <2>1. /\ Len(acts'[x].toks) = Len(Toks(i)) + 1 /\ DOMAIN acts'[x].toks = 1..(Len(Toks(i)) + 1)
        /\ acts'[x].toks[Len(Toks(i)) + 1] = <<i, b>>
    BY <1>5, <1>6, <1>8
  <2>2. \A k \in 1..Len(Toks(i)) : acts'[x].toks[k] = Toks(i)[k]
    BY <1>5, <1>6, <1>8
  <2>3. acts'[x].toks # <<>>
    BY <1>6, <2>1
  <2> QED
    BY <2>1, <2>2, <2>3 DEF Branch, Token
<1>9. Grows
  <2>1. OldStays
    BY <1>1, <1>2, <1>5 DEF OldStays, OtherForks, OtherActs, Branches
  <2>2. NewTokens
    <3>1. ASSUME NEW x \in Acts' \ Acts
          PROVE  \E j \in Acts : \E b \in Nat :
                   /\ acts'[x].toks = Append(Toks(j), <<j, b>>) /\ Alive(j)
                   /\ forks'[j].st # "none" /\ b \in Branches(j)' /\ Where[acts'[x].node] = acts[j].node
      <4>1. PICK b \in 1..n : acts'[x].toks = Append(Toks(i), <<i, b>>) /\ Where[acts'[x].node] = acts[i].node
        BY <1>7, <3>1
      <4>2. b \in Nat /\ b \in Branches(i)' /\ forks'[i].st # "none"
        BY <1>2, <4>1
      <4> QED
        BY <1>1, <4>1, <4>2
    <3> QED
      BY <3>1 DEF NewTokens
  <2>3. NewForks
    <3>1. 1 \in 1..n
      BY <1>3, <1>2
    <3> QED
      BY <1>1, <1>2, <1>5, <3>1 DEF NewForks, OtherForks
  <2>4. NewSuccessors
    BY <1>3, <1>7 DEF NewSuccessors, Kind, Node
  <2> QED
    BY <1>3, <2>1, <2>2, <2>3, <2>4 DEF Grows
<1>10. \A j \in Acts : /\ Runs(j)' <=> Runs(j)
                       /\ acts'[j].st = "superseded" => acts[j].st = "superseded"
  BY <1>1, <1>2, <1>3 DEF OtherActs, OtherForks, Runs, Alive
<1>11. ASSUME NEW x \in Acts, Runs(x), NEW f \in Slots, In(x, f)
       PROVE  forks[f].st = "open" /\ forks'[f].st = "open"
  <2>1. PICK k \in 1..Len(Toks(x)) : Toks(x)[k][1] = f
    BY <1>11, Nesting
  <2>2. forks[f].st = "open" /\ f # i
    BY <1>5, <1>11, <2>1 DEF Enclosed
  <2> QED
    BY <1>2, <2>2 DEF OtherForks
<1>12. Enclosed'
  <2>1. ASSUME NEW x \in Acts, acts'[x].st = "superseded"
        PROVE  Branch(x) /\ forks'[Token(x)[1]].st \in {"cancelling", "superseded"}
    <3>1. Branch(x) /\ forks[Token(x)[1]].st \in {"cancelling", "superseded"} /\ Token(x)[1] \in Slots
      BY <1>3, <1>10, <2>1, Nesting DEF Enclosed
    <3> QED
      BY <1>2, <1>5, <3>1 DEF OtherForks
  <2>2. ASSUME NEW x \in Acts' \ Acts, NEW k \in DOMAIN acts'[x].toks
        PROVE  forks'[acts'[x].toks[k][1]].st = "open"
    <3>1. PICK b \in 1..n : acts'[x].toks = Append(Toks(i), <<i, b>>)
      BY <1>7, <2>2
    <3>2. CASE k \in 1..Len(Toks(i))
      <4>1. acts'[x].toks[k][1] = Toks(i)[k][1] /\ Toks(i)[k][1] \in Slots
        BY <1>6, <1>8, <2>2, <3>1, <3>2
      <4>2. In(i, Toks(i)[k][1])
        BY <1>1, <3>2, <4>1, Nesting
      <4> QED
        BY <1>1, <1>11, <4>1, <4>2 DEF Runs
    <3>3. CASE k = Len(Toks(i)) + 1
      BY <1>2, <1>8, <2>2, <3>1, <3>3
    <3> QED
      BY <1>6, <1>8, <2>2, <3>1, <3>2, <3>3
  <2>3. \A x \in Acts' \ Acts : acts'[x].st # "superseded"
    BY <1>7
  <2> QED
    BY <1>3, <1>10, <1>11, <2>1, <2>2, <2>3, EnclosedFrom
<1>13. Carried'
  <2>1. ASSUME NEW f \in Slots \ {i}, forks'[f].st = "open", NEW b \in Branches(f)'
        PROVE  CarriedAt(f, b)'
    <3>1. forks[f] = forks'[f]
      BY <1>2, <2>1 DEF OtherForks
    <3>2. CarriedAt(f, b) /\ forks'[f].arr[b] = forks[f].arr[b]
      BY <2>1, <3>1 DEF Carried, Branches
    <3>3. \A x \in Acts : Carries(x, f, b)' <=> Carries(x, f, b)
      BY <1>3, <1>10 DEF Carries
    <3>4. ASSUME NEW x \in Acts' \ Acts, Carries(x, f, b)'
          PROVE  FALSE
      <4>1. PICK c \in 1..n : acts'[x].toks = Append(Toks(i), <<i, c>>)
        BY <1>7, <3>4
      <4>2. Token(x)' = <<i, c>>
        BY <1>8, <3>4, <4>1
      <4> QED
        BY <2>1, <3>4, <4>2 DEF Carries
    <3> QED
      BY <1>3, <3>2, <3>3, <3>4, CarriedOn
  <2>2. ASSUME NEW b \in 1..n
        PROVE  CarriedAt(i, b)'
    <3>1. forks'[i].arr[b] = "none"
      BY <1>2, <2>2
    <3>2. ASSUME NEW x \in Acts', Carries(x, i, b)'
          PROVE  x = Len(acts) + b
      <4>1. Branch(x)' /\ Token(x)' = <<i, b>>
        BY <3>2 DEF Carries
      <4>2. CASE x \in Acts
        <5>1. In(x, i)
          BY <1>3, <4>1, <4>2, Nesting
        <5> QED
          BY <1>5, <4>2, <5>1, Nesting
      <4>3. CASE x \notin Acts
        <5>1. PICK c \in 1..n : x = Len(acts) + c /\ acts'[x].toks = Append(Toks(i), <<i, c>>)
          BY <1>7, <3>2, <4>3
        <5>2. Token(x)' = <<i, c>>
          BY <1>8, <3>2, <4>3, <5>1
        <5> QED
          BY <4>1, <5>1, <5>2
      <4> QED
        BY <4>2, <4>3
    <3>3. \A x \in {Len(acts) + b} : x \in Acts' /\ Carries(x, i, b)'
      <4>1. ASSUME NEW x, x = Len(acts) + b
            PROVE  x \in Acts' /\ Carries(x, i, b)'
        <5>1. x \in Acts' \ Acts
          BY <1>3, <2>2, <4>1
        <5>2. acts'[x].st = "ready" /\ acts'[x].toks = Append(Toks(i), <<i, b>>)
          BY <1>2, <2>2, <4>1
        <5> QED
          BY <1>8, <5>1, <5>2 DEF Carries, Runs, Alive
      <4> QED
        BY <4>1
    <3> QED
      BY <3>1, <3>2, <3>3 DEF CarriedAt
  <2> QED
    BY <1>2, <2>1, <2>2 DEF Carried, Slots
<1> QED
  BY <1>9, <1>12, <1>13

\* A branch is settled, and others are not.
LEMMA ArriveKeeps ==
  ASSUME RunTypes, LedgerTypes, Placed, Rooted, Enclosed, Carried,
         NEW i, NEW f \in Acts, NEW b \in Nat, ArriveStep(i, f, b)
  PROVE  Grows /\ Enclosed' /\ Carried'
<1>1. /\ 0 \in Nat /\ Keeps(0) /\ i \in Acts /\ Branch(i) /\ Alive(i) /\ Token(i) = <<f, b>> /\ f \in Slots
      /\ forks[f].st = "open" /\ forks'[f].st = "open" /\ acts'[i].st = "completed" /\ OtherActs(i) /\ OtherForks(f)
      /\ forks'[f].empty = forks[f].empty /\ Branches(f)' = Branches(f) /\ forks'[f].arr[b] \in Outcomes
      /\ \A c \in Branches(f) \ {b} : forks'[f].arr[c] = forks[f].arr[c]
  BY Fields DEF ArriveStep, Settles
<1>2. /\ Acts' = Acts /\ Acts \subseteq Slots
      /\ \A j \in Acts : Toks(j)' = Toks(j) /\ (Branch(j) <=> Branch(j)') /\ Token(j)' = Token(j)
  <2>1. Acts' = 1..(Len(acts) + 0) /\ Acts = 1..Len(acts) /\ Len(acts) \in Nat /\ Acts \subseteq Slots
    BY <1>1, ActsAfter, Fields
  <2> QED
    BY <1>1, <2>1, ActsAfter
<1>3. \A g \in Slots : forks'[g].st = forks[g].st
  BY <1>1 DEF OtherForks
<1>4. forks[i].st = "none"
  BY <1>1, <1>2 DEF Rooted, Alive
<1>5. \A j \in Acts : /\ Runs(j)' <=> Runs(j) /\ j # i
                      /\ acts'[j].st = "superseded" => acts[j].st = "superseded"
  BY <1>1, <1>2, <1>3, <1>4 DEF OtherActs, Runs, Alive
<1>6. Grows
  <2>1. OldStays
    BY <1>1, <1>3 DEF OldStays, OtherForks, OtherActs, Branches
  <2>2. NewTokens /\ NewSuccessors
    BY <1>2 DEF NewTokens, NewSuccessors
  <2>3. NewForks
    BY <1>3, Zenon DEF NewForks, Rooted
  <2> QED
    BY <1>1, <2>1, <2>2, <2>3 DEF Grows
<1>7. Enclosed'
  <2>1. ASSUME NEW x \in Acts, Runs(x)', NEW g \in Slots, In(x, g)
        PROVE  forks'[g].st = "open"
    <3>1. PICK k \in 1..Len(Toks(x)) : Toks(x)[k][1] = g
      BY <2>1, Nesting
    <3> QED
      BY <1>3, <1>5, <2>1, <3>1 DEF Enclosed
  <2>2. ASSUME NEW x \in Acts, acts'[x].st = "superseded"
        PROVE  Branch(x) /\ forks'[Token(x)[1]].st \in {"cancelling", "superseded"}
    <3>1. Branch(x) /\ forks[Token(x)[1]].st \in {"cancelling", "superseded"} /\ Token(x)[1] \in Slots
      BY <1>2, <1>5, <2>2, Nesting DEF Enclosed
    <3> QED
      BY <1>3, <3>1
  <2> QED
    BY <1>1, <1>2, <2>1, <2>2, EnclosedFrom
<1>8. Carried'
  <2>1. ASSUME NEW g \in Slots, forks'[g].st = "open", NEW c \in Branches(g)', g # f \/ c # b
        PROVE  CarriedAt(g, c)'
    <3>1. forks[g].st = "open" /\ c \in Branches(g) /\ forks'[g].arr[c] = forks[g].arr[c]
      BY <1>1, <1>3, <2>1 DEF OtherForks, Branches
    <3>2. CarriedAt(g, c)
      BY <3>1 DEF Carried
    <3>3. ~ Carries(i, g, c)
      BY <1>1, <2>1 DEF Carries
    <3>4. \A x \in Acts : Carries(x, g, c)' <=> Carries(x, g, c)
      BY <1>2, <1>5, <3>3 DEF Carries
    <3> QED
      BY <1>2, <3>1, <3>2, <3>4, CarriedOn
  <2>2. ASSUME b \in Branches(f)
        PROVE  CarriedAt(f, b)'
    <3>1. CarriedAt(f, b) /\ Carries(i, f, b)
      BY <1>1, <2>2 DEF Carried, Carries, Runs
    <3>2. \A x \in Acts : Carries(x, f, b)' => Carries(x, f, b) /\ x # i
      BY <1>2, <1>5 DEF Carries
    <3>3. \A x \in Acts : Carries(x, f, b) => x = i
      BY <1>1, <3>1 DEF CarriedAt
    <3>4. \A x \in Acts' : ~ Carries(x, f, b)'
      BY <1>2, <3>2, <3>3
    <3>5. forks'[f].arr[b] # "none"
      BY <1>1 DEF Outcomes
    <3> QED
      BY <3>4, <3>5 DEF CarriedAt
  <2> QED
    BY <1>1, <2>1, <2>2 DEF Carried, Slots
<1> QED
  BY <1>6, <1>7, <1>8

\* The last branch is settled, and the join is reached with the tokens of the fork.
LEMMA JoinKeeps ==
  ASSUME RunTypes, LedgerTypes, Placed, Rooted, Enclosed, Carried,
         NEW i, NEW f \in Acts, NEW b \in Nat, JoinStep(i, f, b)
  PROVE  Grows /\ Enclosed' /\ Carried'
<1>1. /\ 1 \in Nat /\ Keeps(1) /\ i \in Acts /\ Branch(i) /\ Alive(i) /\ Token(i) = <<f, b>> /\ f \in Slots
      /\ forks[f].st = "open" /\ forks'[f].st = "joined" /\ acts'[i].st = "completed" /\ OtherActs(i) /\ OtherForks(f)
      /\ forks'[f].empty = forks[f].empty /\ Branches(f)' = Branches(f) /\ forks'[f].arr[b] \in Outcomes
      /\ \A c \in Branches(f) \ {b} : forks'[f].arr[c] = forks[f].arr[c]
      /\ \A c \in Branches(f) : forks'[f].arr[c] # "none"
  BY Fields DEF JoinStep, Settles
<1>2. /\ Acts \subseteq Acts' /\ Acts' \ Acts = {Last} /\ Acts \subseteq Slots
      /\ \A j \in Acts : Toks(j)' = Toks(j) /\ (Branch(j) <=> Branch(j)') /\ Token(j)' = Token(j)
  <2>1. Acts' \ Acts = (Len(acts) + 1)..(Len(acts) + 1) /\ Len(acts) \in Nat /\ Acts \subseteq Slots
    BY <1>1, ActsAfter, Fields
  <2> QED
    BY <1>1, <2>1, ActsAfter DEF Last
<1>3. /\ acts'[Last].st = "ready" /\ acts'[Last].toks = Toks(f) /\ acts'[Last].join = f /\ acts'[Last].heir = 0
      /\ Where[acts'[Last].node] = Where[acts[f].node]
      /\ \A n \in {Last} : Kind(n)' = "join" /\ Runs(n)' /\ (Branch(n)' <=> Branch(f)) /\ Token(n)' = Token(f)
  BY <1>1, ActsAfter DEF JoinStep, Kind, Node, Runs, Alive, Branch, Token, Toks
<1>4. forks[i].st = "none" /\ acts[f].st = "completed" /\ f # i /\ Runs(f)
  BY <1>1, <1>2 DEF Rooted, Alive, Runs
<1>5. \A j \in Acts : /\ Runs(j)' <=> Runs(j) /\ j # i /\ j # f
                      /\ acts'[j].st = "superseded" => acts[j].st = "superseded"
  BY <1>1, <1>2, <1>4 DEF OtherActs, OtherForks, Runs, Alive
<1>6. Grows
  <2>1. OldStays
    BY <1>1 DEF OldStays, OtherForks, OtherActs, Branches
  <2>2. NewTokens
    BY <1>2, <1>3, <1>4 DEF NewTokens
  <2>3. NewSuccessors
    <3>1. \A c \in DOMAIN forks'[f].arr : forks'[f].arr[c] # "none"
      BY <1>1 DEF Branches
    <3>2. f # 0
      BY <1>1 DEF Slots
    <3> QED
      BY <1>1, <1>2, <1>3, <3>1, <3>2 DEF NewSuccessors
  <2>4. NewForks
    BY <1>1, Zenon DEF NewForks, OtherForks, Rooted
  <2> QED
    BY <1>1, <2>1, <2>2, <2>3, <2>4 DEF Grows
\* Whoever carries a branch of f is i: the other branches are settled.
<1>7. ASSUME NEW x \in Acts, NEW c \in Branches(f), Carries(x, f, c)
      PROVE  x = i
  <2>1. CarriedAt(f, c)
    BY <1>1 DEF Carried
  <2>2. CASE c = b
    <3>1. Carries(i, f, b)
      BY <1>1 DEF Carries, Runs
    <3> QED
      BY <1>1, <1>7, <2>1, <2>2, <3>1 DEF CarriedAt
  <2>3. CASE c # b
    <3>1. forks[f].arr[c] # "none"
      BY <1>1, <2>3
    <3> QED
      BY <1>7, <2>1, <3>1 DEF CarriedAt
  <2> QED
    BY <2>2, <2>3
<1>8. ASSUME NEW x \in Acts, Runs(x), In(x, f)
      PROVE  x = i
  <2>1. PICK y \in Acts : \E c \in Branches(f) : Carries(y, f, c) /\ (y = x \/ forks[y].st = "open")
    BY <1>1, <1>8, CarriedFromInside
  <2>2. y = i
    BY <1>7, <2>1
  <2> QED
    BY <1>4, <2>1, <2>2
<1>9. ASSUME NEW x \in Acts, Runs(x), x # i, NEW g \in Slots, In(x, g)
      PROVE  forks[g].st = "open" /\ forks'[g].st = "open" /\ g # f
  <2>1. PICK k \in 1..Len(Toks(x)) : Toks(x)[k][1] = g
    BY <1>9, Nesting
  <2>2. forks[g].st = "open" /\ g # f
    BY <1>8, <1>9, <2>1 DEF Enclosed
  <2> QED
    BY <1>1, <2>2 DEF OtherForks
<1>10. Enclosed'
  <2>1. ASSUME NEW x \in Acts, acts'[x].st = "superseded"
        PROVE  Branch(x) /\ forks'[Token(x)[1]].st \in {"cancelling", "superseded"}
    <3>1. Branch(x) /\ forks[Token(x)[1]].st \in {"cancelling", "superseded"} /\ Token(x)[1] \in Slots
      BY <1>2, <1>5, <2>1, Nesting DEF Enclosed
    <3> QED
      BY <1>1, <3>1 DEF OtherForks
  <2>2. ASSUME NEW x \in Acts' \ Acts, NEW k \in DOMAIN acts'[x].toks
        PROVE  forks'[acts'[x].toks[k][1]].st = "open"
    <3>1. x = Last /\ k \in DOMAIN acts[f].toks /\ acts'[x].toks[k][1] = acts[f].toks[k][1]
      BY <1>2, <1>3, <2>2 DEF Toks
    <3>2. acts[f].toks \in Seq(Slots \X Nat)
      BY Fields
    <3>3. acts[f].toks[k][1] \in Slots
      BY <3>1, <3>2
    <3>4. In(f, acts[f].toks[k][1])
      BY <3>1 DEF In
    <3> QED
      BY <1>4, <1>9, <3>1, <3>3, <3>4
  <2>3. /\ \A x \in Acts' \ Acts : acts'[x].st # "superseded"
        /\ \A x \in Acts : Runs(x)' => \A g \in Slots : In(x, g) => forks'[g].st = "open"
    BY <1>2, <1>3, <1>5, <1>9
  <2> QED
    BY <1>1, <2>1, <2>2, <2>3, EnclosedFrom
<1>11. Carried'
  <2>1. ASSUME NEW g \in Slots, forks'[g].st = "open", NEW c \in Branches(g)'
        PROVE  CarriedAt(g, c)'
    <3>1. g # f /\ forks[g] = forks'[g]
      BY <1>1, <2>1 DEF OtherForks
    <3>2. CarriedAt(g, c) /\ forks'[g].arr[c] = forks[g].arr[c]
      BY <2>1, <3>1 DEF Carried, Branches
    <3>3. ~ Carries(i, g, c)
      BY <1>1, <3>1 DEF Carries
    <3>4. \A x \in Acts : Carries(x, g, c)' <=> Carries(x, g, c) /\ x # f
      BY <1>2, <1>5, <3>3 DEF Carries
    <3>5. \A x \in Acts' \ Acts : Carries(x, g, c)' <=> x = Last /\ Carries(f, g, c)
      BY <1>2, <1>3, <1>4 DEF Carries
    <3>6. Last \in Acts' /\ Last \notin Acts
      BY <1>2
    <3> QED
      BY <1>2, <3>2, <3>4, <3>5, <3>6, HandedOver
  <2> QED
    BY <2>1 DEF Carried, Slots
<1> QED
  BY <1>6, <1>10, <1>11

\* A generation is superseded, with everything inside it.
LEMMA SupersedeKeeps ==
  ASSUME RunTypes, LedgerTypes, Placed, Rooted, Enclosed, Carried, NEW f, SupersedeStep(f)
  PROVE  Grows /\ Enclosed' /\ Carried'
<1>1. /\ 0 \in Nat /\ Keeps(0) /\ f \in Acts /\ f \in Slots
      /\ forks[f].st = "open" /\ Kind(f) = "fork" /\ Node(f).repair # "none"
  BY Fields DEF SupersedeStep
<1>2. /\ Acts' = Acts /\ Acts \subseteq Slots
      /\ \A j \in Acts : Toks(j)' = Toks(j) /\ (Branch(j) <=> Branch(j)') /\ Token(j)' = Token(j)
  <2>1. Acts' = 1..(Len(acts) + 0) /\ Acts = 1..Len(acts) /\ Len(acts) \in Nat /\ Acts \subseteq Slots
    BY <1>1, ActsAfter, Fields
  <2> QED
    BY <1>1, <2>1, ActsAfter
<1>3. \A g \in Slots : /\ forks'[g].arr = forks[g].arr /\ forks'[g].empty = forks[g].empty
                        /\ forks'[g].st = IF g = f THEN "cancelling"
                                          ELSE IF g \in Acts /\ In(g, f) /\ forks[g].st # "none" THEN "superseded"
                                          ELSE forks[g].st
  BY DEF SupersedeStep
<1>4. \A j \in Acts : acts'[j].st = IF In(j, f) /\ acts[j].st # "completed" THEN "superseded" ELSE acts[j].st
  BY DEF SupersedeStep
<1>5. ~ In(f, f) /\ Acts \subseteq Slots
  BY <1>1, <1>2, Nesting
<1>6. \A j \in Acts : Runs(j)' <=> Runs(j) /\ ~ In(j, f) /\ j # f
  <2>1. acts[f].st = "completed"
    BY <1>1 DEF Rooted
  <2>2. ASSUME NEW j \in Acts
        PROVE  Runs(j)' <=> Runs(j) /\ ~ In(j, f) /\ j # f
    <3>1. CASE j = f
      BY <1>1, <1>3, <1>4, <2>1, <3>1 DEF Runs, Alive
    <3>2. CASE j # f /\ In(j, f)
      <4>1. forks'[j].st # "open" /\ acts'[j].st \in {"superseded", "completed"}
        BY <1>2, <1>3, <1>4, <2>2, <3>2
      <4> QED
        BY <3>2, <4>1 DEF Runs, Alive
    <3>3. CASE j # f /\ ~ In(j, f)
      BY <1>2, <1>3, <1>4, <2>2, <3>3 DEF Runs, Alive
    <3> QED
      BY <3>1, <3>2, <3>3
  <2> QED
    BY <2>2
<1>7. Grows
  <2>1. OldStays
    <3>1. \A g \in Slots : forks[g].st # "none" =>
            forks'[g].st # "none" /\ Branches(g)' = Branches(g) /\ forks'[g].empty = forks[g].empty
      BY <1>3 DEF Branches
    <3>2. \A g \in Slots : forks[g].st \in {"joined", "superseded"} =>
            forks'[g].arr = forks[g].arr /\ (forks'[g].st = forks[g].st \/ (forks'[g].st = "superseded" /\ Branch(g)))
      BY <1>1, <1>3, Nesting
    <3> QED
      BY <1>4, <3>1, <3>2 DEF OldStays
  <2>2. NewTokens /\ NewSuccessors
    BY <1>2 DEF NewTokens, NewSuccessors
  <2>3. NewForks
    BY <1>1, <1>3, Zenon DEF NewForks
  <2> QED
    BY <1>1, <2>1, <2>2, <2>3 DEF Grows
<1>8. Enclosed'
  <2>1. ASSUME NEW x \in Acts, Runs(x)', NEW g \in Slots, In(x, g)
        PROVE  forks'[g].st = "open"
    <3>1. Runs(x) /\ ~ In(x, f)
      BY <1>6, <2>1
    <3>2. PICK k \in 1..Len(Toks(x)) : Toks(x)[k][1] = g
      BY <2>1, Nesting
    <3>3. forks[g].st = "open" /\ g # f
      BY <2>1, <3>1, <3>2 DEF Enclosed
    <3>4. ~ In(g, f)
      BY <1>1, <2>1, <3>1, Nesting
    <3> QED
      BY <1>3, <3>3, <3>4
  <2>2. ASSUME NEW x \in Acts, acts'[x].st = "superseded"
        PROVE  Branch(x) /\ forks'[Token(x)[1]].st \in {"cancelling", "superseded"}
    <3>1. CASE acts[x].st = "superseded"
      <4>1. Branch(x) /\ forks[Token(x)[1]].st \in {"cancelling", "superseded"} /\ Token(x)[1] \in Slots
        BY <1>2, <2>2, <3>1, Nesting DEF Enclosed
      <4> QED
        BY <1>3, <4>1
    <3>2. CASE acts[x].st # "superseded"
      <4>1. In(x, f)
        BY <1>4, <2>2, <3>2
      <4>2. Branch(x) /\ Token(x)[1] \in Acts /\ In(x, Token(x)[1])
        BY <1>1, <2>2, <4>1, Nesting
      <4>3. Token(x)[1] \in Slots /\ forks[Token(x)[1]].st # "none"
        BY <1>2, <2>2, <4>2, Nesting
      <4>4. f = Token(x)[1] \/ In(Token(x)[1], f)
        BY <1>1, <2>2, <4>1, Nesting
      <4> QED
        BY <1>3, <4>2, <4>3, <4>4
    <3> QED
      BY <3>1, <3>2
  <2> QED
    BY <1>1, <1>2, <2>1, <2>2, EnclosedFrom
<1>9. Carried'
  <2>1. ASSUME NEW g \in Slots, forks'[g].st = "open", NEW c \in Branches(g)'
        PROVE  CarriedAt(g, c)'
    <3>1. forks[g].st = "open" /\ g # f /\ ~ (g \in Acts /\ In(g, f)) /\ forks'[g].arr = forks[g].arr
      BY <1>3, <2>1
    <3>2. CarriedAt(g, c) /\ forks'[g].arr[c] = forks[g].arr[c]
      BY <2>1, <3>1 DEF Carried, Branches
    <3>3. ASSUME NEW x \in Acts, Carries(x, g, c)
          PROVE  ~ In(x, f) /\ x # f
      <4>1. Token(x) = <<g, c>> /\ Branch(x) /\ Token(x)[1] = g /\ Token(x)[1] \in Acts
        BY <3>3, Nesting DEF Carries
      <4>2. ~ In(x, f)
        BY <1>1, <3>1, <4>1, Nesting
      <4>3. x # f
        <5>1. ~ Branch(f)
          BY <1>1, RepairableIsOutside
        <5> QED
          BY <4>1, <5>1
      <4> QED
        BY <4>2, <4>3
    <3>4. \A x \in Acts : Carries(x, g, c)' <=> Carries(x, g, c)
      BY <1>2, <1>6, <3>3 DEF Carries
    <3> QED
      BY <1>2, <3>2, <3>4, CarriedOn
  <2> QED
    BY <2>1 DEF Carried, Slots
<1> QED
  BY <1>7, <1>8, <1>9

\* The repair of a generation is reached outside it.
LEMMA RepairKeeps ==
  ASSUME RunTypes, LedgerTypes, Placed, Rooted, Enclosed, Carried, NEW f, RepairStep(f)
  PROVE  Grows /\ Enclosed' /\ Carried'
<1>1. /\ 1 \in Nat /\ Keeps(1) /\ f \in Acts /\ f \in Slots
      /\ forks[f].st = "cancelling" /\ forks'[f].st = "superseded" /\ OtherForks(f)
      /\ forks'[f].arr = forks[f].arr /\ forks'[f].empty = forks[f].empty
  BY Fields DEF RepairStep
<1>2. /\ Acts \subseteq Acts' /\ Acts' \ Acts = {Last} /\ Acts \subseteq Slots
      /\ \A j \in Acts : Toks(j)' = Toks(j) /\ (Branch(j) <=> Branch(j)') /\ Token(j)' = Token(j)
  <2>1. Acts' \ Acts = (Len(acts) + 1)..(Len(acts) + 1) /\ Len(acts) \in Nat /\ Acts \subseteq Slots
    BY <1>1, ActsAfter, Fields
  <2> QED
    BY <1>1, <2>1, ActsAfter DEF Last
<1>3. ~ Branch(f)
  <2>1. Kind(f) = "fork" /\ Node(f).repair # "none"
    BY <1>1 DEF Rooted
  <2> QED
    BY <1>1, <2>1, RepairableIsOutside
<1>4. /\ acts'[Last].st = "ready" /\ acts'[Last].toks = <<>> /\ acts'[Last].join = 0 /\ acts'[Last].heir = f
      /\ Where[acts'[Last].node] = "none"
      /\ \A n \in {Last} : Kind(n)' # "join" /\ ~ Branch(n)'
  BY <1>1, ActsAfter DEF RepairStep, Kind, Node, Branch
<1>5. \A j \in Acts : (Runs(j)' <=> Runs(j)) /\ acts'[j].st = acts[j].st
  BY <1>1, <1>2 DEF RepairStep, OtherForks, Runs, Alive
<1>6. Grows
  <2>1. OldStays
    BY <1>1, <1>5 DEF OldStays, OtherForks, Branches
  <2>2. NewTokens
    BY <1>1, <1>2, <1>3, <1>4 DEF NewTokens, Placed, Branch, Toks
  <2>3. NewSuccessors
    BY <1>1, <1>2, <1>3, <1>4 DEF NewSuccessors
  <2>4. NewForks
    BY <1>1, Zenon DEF NewForks, OtherForks
  <2> QED
    BY <1>1, <2>1, <2>2, <2>3, <2>4 DEF Grows
<1>7. Enclosed'
  <2>1. ASSUME NEW x \in Acts, Runs(x)', NEW g \in Slots, In(x, g)
        PROVE  forks'[g].st = "open"
    <3>1. PICK k \in 1..Len(Toks(x)) : Toks(x)[k][1] = g
      BY <2>1, Nesting
    <3> QED
      BY <1>1, <1>5, <2>1, <3>1 DEF Enclosed, OtherForks
  <2>2. ASSUME NEW x \in Acts, acts'[x].st = "superseded"
        PROVE  Branch(x) /\ forks'[Token(x)[1]].st \in {"cancelling", "superseded"}
    <3>1. Branch(x) /\ forks[Token(x)[1]].st \in {"cancelling", "superseded"} /\ Token(x)[1] \in Slots
      BY <1>2, <1>5, <2>2, Nesting DEF Enclosed
    <3> QED
      BY <1>1, <3>1 DEF OtherForks
  <2>3. /\ \A x \in Acts' \ Acts : acts'[x].st # "superseded"
        /\ \A x \in Acts' \ Acts : \A k \in DOMAIN acts'[x].toks : forks'[acts'[x].toks[k][1]].st = "open"
    BY <1>2, <1>4
  <2> QED
    BY <1>1, <2>1, <2>2, <2>3, EnclosedFrom
<1>8. Carried'
  <2>1. ASSUME NEW g \in Slots, forks'[g].st = "open", NEW c \in Branches(g)'
        PROVE  CarriedAt(g, c)'
    <3>1. forks[g] = forks'[g]
      BY <1>1, <2>1 DEF OtherForks
    <3>2. CarriedAt(g, c) /\ forks'[g].arr[c] = forks[g].arr[c]
      BY <2>1, <3>1 DEF Carried, Branches
    <3>3. \A x \in Acts : Carries(x, g, c)' <=> Carries(x, g, c)
      BY <1>2, <1>5 DEF Carries
    <3>4. \A x \in Acts' \ Acts : ~ Carries(x, g, c)'
      BY <1>2, <1>4 DEF Carries
    <3> QED
      BY <1>2, <3>2, <3>3, <3>4, CarriedOn
  <2> QED
    BY <2>1 DEF Carried, Slots
<1> QED
  BY <1>6, <1>7, <1>8


\* No step holds an activation that is not a Pause.
LEMMA HeldKept ==
  ASSUME RunTypes, LedgerTypes, Held, LedgerStep
  PROVE  Held'
<1>1. \A n \in Nat : Keeps(n) => /\ Acts' = 1..(Len(acts) + n) /\ Acts = 1..Len(acts) /\ Len(acts) \in Nat
                                 /\ \A j \in Acts : Kind(j)' = Kind(j)
  BY ActsAfter, Fields
<1>2. ASSUME NEW n \in Nat, Keeps(n), \A j \in Acts : acts'[j].st = "paused" => acts[j].st = "paused",
             \A m \in 1..n : acts'[Len(acts) + m].st = "ready"
      PROVE  Held'
  <2>1. ASSUME NEW j \in Acts', acts'[j].st = "paused"
        PROVE  Kind(j)' = "pause"
    <3>1. j \in Acts \/ (j - Len(acts) \in 1..n /\ j = Len(acts) + (j - Len(acts)))
      BY <1>1, <1>2, <2>1
    <3>2. j \in Acts
      BY <1>2, <2>1, <3>1
    <3> QED
      BY <1>1, <1>2, <2>1, <3>2 DEF Held
  <2> QED
    BY <2>1 DEF Held
<1>3. CASE StayStep
  <2>1. ASSUME NEW j \in Acts', acts'[j].st = "paused"
        PROVE  Kind(j)' = "pause"
    <3>1. 0 \in Nat /\ Keeps(0)
      BY <1>3 DEF StayStep
    <3>2. j \in Acts /\ Kind(j)' = Kind(j)
      BY <1>1, <2>1, <3>1
    <3> QED
      BY <1>3, <2>1, <3>2 DEF StayStep, Held
  <2> QED
    BY <2>1 DEF Held
<1>4. ASSUME NEW i \in Acts, EdgeStep(i) \/ EmptyStep(i)
      PROVE  Held'
  <2>1. 1 \in Nat /\ Keeps(1) /\ acts'[Len(acts) + 1].st = "ready" /\ acts'[i].st = "completed" /\ OtherActs(i)
    BY <1>4 DEF EdgeStep, EmptyStep, Passes, Last
  <2>2. \A m \in 1..1 : acts'[Len(acts) + m].st = "ready"
    BY <2>1
  <2> QED
    BY <1>2, <2>1, <2>2 DEF OtherActs
<1>5. ASSUME NEW i \in Acts, OpenStep(i)
      PROVE  Held'
  <2>1. PICK n \in Nat \ {0} : /\ Keeps(n) /\ acts'[i].st = "completed" /\ OtherActs(i)
                               /\ \A b \in 1..n : acts'[Len(acts) + b].st = "ready"
    BY <1>5 DEF OpenStep
  <2> QED
    BY <1>2, <2>1 DEF OtherActs
<1>6. ASSUME NEW i \in Acts, NEW f \in Acts, NEW b \in Nat, ArriveStep(i, f, b)
      PROVE  Held'
  <2>1. 0 \in Nat /\ Keeps(0) /\ acts'[i].st = "completed" /\ OtherActs(i)
    BY <1>6 DEF ArriveStep, Settles
  <2>2. \A m \in 1..0 : acts'[Len(acts) + m].st = "ready"
    OBVIOUS
  <2> QED
    BY <1>2, <2>1, <2>2 DEF OtherActs
<1>7. ASSUME NEW i \in Acts, NEW f \in Acts, NEW b \in Nat, JoinStep(i, f, b)
      PROVE  Held'
  <2>1. 1 \in Nat /\ Keeps(1) /\ acts'[Len(acts) + 1].st = "ready" /\ acts'[i].st = "completed" /\ OtherActs(i)
    BY <1>7 DEF JoinStep, Settles, Last
  <2>2. \A m \in 1..1 : acts'[Len(acts) + m].st = "ready"
    BY <2>1
  <2> QED
    BY <1>2, <2>1, <2>2 DEF OtherActs
<1>8. ASSUME NEW f \in Acts, SupersedeStep(f)
      PROVE  Held'
  <2>1. 0 \in Nat /\ Keeps(0) /\ \A j \in Acts : acts'[j].st = "paused" => acts[j].st = "paused"
    BY <1>8 DEF SupersedeStep
  <2>2. \A m \in 1..0 : acts'[Len(acts) + m].st = "ready"
    OBVIOUS
  <2> QED
    BY <1>2, <2>1, <2>2
<1>9. ASSUME NEW f \in Acts, RepairStep(f)
      PROVE  Held'
  <2>1. 1 \in Nat /\ Keeps(1) /\ acts'[Len(acts) + 1].st = "ready" /\ \A j \in Acts : acts'[j].st = acts[j].st
    BY <1>9 DEF RepairStep, Last
  <2>2. \A m \in 1..1 : acts'[Len(acts) + m].st = "ready"
    BY <2>1
  <2> QED
    BY <1>2, <2>1, <2>2
<1> QED
  BY <1>3, <1>4, <1>5, <1>6, <1>7, <1>8, <1>9 DEF LedgerStep, PlainStep

\* Every step of the ledger keeps the ledger.
LEMMA LedgerKept ==
  ASSUME RunTypes, Ledger, LedgerStep
  PROVE  Ledger' /\ Grows
<1>1. LedgerTypes /\ Placed /\ Rooted /\ Enclosed /\ Carried /\ Succeeded /\ Held
  BY DEF Ledger
<1>2. Grows /\ Enclosed' /\ Carried'
  <2>1. CASE StayStep
    BY <1>1, <2>1, StayKeeps
  <2>2. ASSUME NEW i \in Acts, EdgeStep(i)
        PROVE  Grows /\ Enclosed' /\ Carried'
    BY <1>1, <2>2, EdgeKeeps
  <2>3. ASSUME NEW i \in Acts, EmptyStep(i)
        PROVE  Grows /\ Enclosed' /\ Carried'
    BY <1>1, <2>3, EmptyKeeps
  <2>4. ASSUME NEW i \in Acts, OpenStep(i)
        PROVE  Grows /\ Enclosed' /\ Carried'
    BY <1>1, <2>4, OpenKeeps
  <2>5. ASSUME NEW i \in Acts, NEW f \in Acts, NEW b \in Nat, ArriveStep(i, f, b)
        PROVE  Grows /\ Enclosed' /\ Carried'
    BY <1>1, <2>5, ArriveKeeps
  <2>6. ASSUME NEW i \in Acts, NEW f \in Acts, NEW b \in Nat, JoinStep(i, f, b)
        PROVE  Grows /\ Enclosed' /\ Carried'
    BY <1>1, <2>6, JoinKeeps
  <2>7. ASSUME NEW f \in Acts, SupersedeStep(f)
        PROVE  Grows /\ Enclosed' /\ Carried'
    BY <1>1, <2>7, SupersedeKeeps
  <2>8. ASSUME NEW f \in Acts, RepairStep(f)
        PROVE  Grows /\ Enclosed' /\ Carried'
    BY <1>1, <2>8, RepairKeeps
  <2> QED
    BY <2>1, <2>2, <2>3, <2>4, <2>5, <2>6, <2>7, <2>8 DEF LedgerStep, PlainStep
<1>3. LedgerTypes'
  BY <1>2 DEF Grows, Keeps
<1> QED
  BY <1>1, <1>2, <1>3, GrowsPlaced, GrowsRooted, GrowsSucceeded, HeldKept DEF Ledger

-----------------------------------------------------------------------------
(* What each action does to the ledger. *)

\* The order of the naturals, as a relation.
LEMMA Precedes ==
  ASSUME NEW x \in Nat, NEW y \in Nat, y < x
  PROVE  <<y, x>> \in OpToRel(<, Nat)
<1>1. <<y, x>> \in {ss \in Nat \X Nat : ss[1] < ss[2]}
  OBVIOUS
<1> QED
  BY <1>1 DEF OpToRel

\* A nonempty set of numbers has a least element, and up to a bound a highest one.
LEMMA Smallest ==
  ASSUME NEW S \in SUBSET Nat, S # {}
  PROVE  \E x \in S : \A y \in S : x <= y
<1>1. PICK x \in S : \A y \in S : ~ (<<y, x>> \in OpToRel(<, Nat))
  BY NatLessThanWellFounded, WFMin
<1>2. \A y \in S : ~ (y < x)
  BY <1>1, Precedes
<1>3. \A y \in S : x <= y
  BY <1>2
<1> QED
  BY <1>3

LEMMA LeastOf ==
  ASSUME NEW S \in SUBSET Nat, S # {}
  PROVE  Least(S) \in S /\ \A j \in S : Least(S) <= j
<1>1. \E m \in S : \A j \in S : m <= j
  BY Smallest
<1> QED
  BY <1>1 DEF Least

LEMMA HighestOf ==
  ASSUME NEW n \in Nat, NEW S \in SUBSET (1..n), S # {}
  PROVE  Highest(S) \in S /\ \A j \in S : Highest(S) >= j
<1> DEFINE T == {n - y : y \in S}
<1>1. T \in SUBSET Nat /\ T # {} /\ \A y \in S : n - y \in T
  <2>1. \A y \in S : n - y \in Nat
    OBVIOUS
  <2>2. \A y \in S : n - y \in T
    OBVIOUS
  <2> QED
    BY <2>1, <2>2
<1>2. PICK x \in T : \A y \in T : x <= y
  <2> HIDE DEF T
  <2> QED
    BY <1>1, Smallest
<1>3. PICK z \in S : x = n - z
  OBVIOUS
<1>4. ASSUME NEW y \in S
      PROVE  z >= y
  <2>1. n - z <= n - y
    BY <1>1, <1>2, <1>3
  <2>2. z \in Nat /\ y \in Nat
    OBVIOUS
  <2> QED
    BY <2>1, <2>2
<1> QED
  BY <1>4 DEF Highest

\* Sequences as functions.
LEMMA SequenceOf ==
  ASSUME NEW S, NEW n \in Nat, NEW s \in [1..n -> S]
  PROVE  s \in Seq(S) /\ Len(s) = n
  OBVIOUS

\* What a step of the ledger has to show of the types.
LEMMA KeepsFrom ==
  ASSUME RunTypes, LedgerTypes, NEW n \in Nat, run'.plan = run.plan,
         acts' \in Seq(ActRecs), Len(acts') = Len(acts) + n, Len(acts') <= MaxActs, forks' \in [Slots -> ForkRecs],
         \A j \in Acts : /\ acts'[j].node = acts[j].node /\ acts'[j].toks = acts[j].toks
                         /\ acts'[j].join = acts[j].join /\ acts'[j].heir = acts[j].heir,
         \A j \in 1..Len(acts') : acts'[j].wait \/ acts'[j].claim # "none" => acts'[j].toks # <<>>
  PROVE  Keeps(n)
<1>1. Names' = Names /\ MaxActs' = MaxActs
  BY PlanKept
<1>2. ActRecs' = ActRecs /\ ForkRecs' = ForkRecs
  BY <1>1 DEF ActRecs, ForkRecs, Slots, Settled
<1>3. Len(acts') \in 1..MaxActs
  BY Fields, PlanFacts
<1>4. LedgerTypes'
  BY <1>1, <1>2, <1>3 DEF LedgerTypes, Acts, Branch, Slots
<1> QED
  BY <1>4 DEF Keeps

\* The run record.
LEMMA RunFields ==
  ASSUME RunTypes
  PROVE  /\ run = [plan |-> run.plan, status |-> run.status, loops |-> run.loops, receipt |-> run.receipt]
         /\ run.plan \in DOMAIN Plans /\ run.status \in {"running", "paused", "cancelled"}
         /\ run.loops \in Nat /\ run.loops <= MaxLoops /\ run.receipt \in {"none", "pass", "fail"}
         /\ \A s \in {"running", "paused", "cancelled"} : LET r == [run EXCEPT !.status = s] IN
              r \in RunRecs /\ r.plan = run.plan
         /\ \A s \in {"none", "pass", "fail"} : LET r == [run EXCEPT !.receipt = s] IN
              r \in RunRecs /\ r.plan = run.plan
         /\ run.loops < MaxLoops => LET r == [run EXCEPT !.loops = @ + 1] IN r \in RunRecs /\ r.plan = run.plan
<1>1. MaxLoops \in Nat /\ MaxLoops = Plans[run.plan].loops
  BY PlanFacts DEF MaxLoops
<1> QED
  BY <1>1 DEF RunTypes, RunRecs

LEMMA ActsTyped ==
  ASSUME RunTypes, LedgerTypes
  PROVE  /\ acts \in [Acts -> ActRecs] /\ Acts = 1..Len(acts) /\ Len(acts) \in Nat /\ Len(acts) <= MaxActs
         /\ \A j \in Acts : acts[j].wait \/ acts[j].claim # "none" => Branch(j)
  BY Fields DEF LedgerTypes

\* A step that leaves the activations where they are.
LEMMA Stays ==
  ASSUME RunTypes, LedgerTypes, run'.plan = run.plan, forks' = forks, acts' \in [Acts -> ActRecs],
         \A j \in Acts : /\ acts'[j].node = acts[j].node /\ acts'[j].toks = acts[j].toks
                         /\ acts'[j].join = acts[j].join /\ acts'[j].heir = acts[j].heir
                         /\ acts'[j].wait \/ acts'[j].claim # "none" => Branch(j)
                         /\ \/ acts'[j].st = acts[j].st
                            \/ Alive(j) /\ acts'[j].st \in {"ready", "running", "paused"} /\ (acts'[j].st = "paused" => Kind(j) = "pause")
                            \/ Alive(j) /\ ~ Branch(j) /\ acts'[j].st = "completed"
  PROVE  StayStep
<1>1. Acts = 1..Len(acts) /\ Len(acts) \in Nat /\ Len(acts) <= MaxActs
  BY Fields DEF LedgerTypes
<1>2. acts' \in Seq(ActRecs) /\ Len(acts') = Len(acts)
  BY <1>1, SequenceOf
<1>3. Keeps(0)
  <2>1. forks' \in [Slots -> ForkRecs] /\ Len(acts') = Len(acts) + 0 /\ Len(acts') <= MaxActs /\ 0 \in Nat
    BY <1>1, <1>2 DEF LedgerTypes
  <2>2. \A j \in 1..Len(acts') : acts'[j].wait \/ acts'[j].claim # "none" => acts'[j].toks # <<>>
    BY <1>1, <1>2 DEF Branch
  <2> QED
    BY <1>2, <2>1, <2>2, KeepsFrom
<1> QED
  BY <1>3 DEF StayStep

\* One activation changes, and only where it stands, its claim or its wait.
LEMMA Touches ==
  ASSUME RunTypes, LedgerTypes, run'.plan = run.plan, forks' = forks, NEW i \in Acts, NEW a \in ActRecs,
         acts' = [acts EXCEPT ![i] = a], a.node = acts[i].node, a.toks = acts[i].toks,
         a.join = acts[i].join, a.heir = acts[i].heir, a.wait \/ a.claim # "none" => Branch(i),
         \/ a.st = acts[i].st
         \/ Alive(i) /\ a.st \in {"ready", "running", "paused"} /\ (a.st = "paused" => Kind(i) = "pause")
         \/ Alive(i) /\ ~ Branch(i) /\ a.st = "completed"
  PROVE  StayStep
<1>1. acts \in [Acts -> ActRecs] /\ \A j \in Acts : acts[j].wait \/ acts[j].claim # "none" => Branch(j)
  BY Fields DEF LedgerTypes
<1>2. acts' \in [Acts -> ActRecs] /\ acts'[i] = a /\ \A j \in Acts \ {i} : acts'[j] = acts[j]
  BY <1>1
<1> QED
  BY <1>1, <1>2, Stays

\* Or nothing at all.
LEMMA Idle ==
  ASSUME RunTypes, LedgerTypes, run'.plan = run.plan, forks' = forks, acts' = acts
  PROVE  StayStep
<1>1. acts \in [Acts -> ActRecs] /\ \A j \in Acts : acts[j].wait \/ acts[j].claim # "none" => Branch(j)
  BY Fields DEF LedgerTypes
<1> QED
  BY <1>1, Stays

\* The activations with one of them over, and with one more at the end.
Finished(i) == [acts EXCEPT ![i].st = "completed"]

LEMMA Completed ==
  ASSUME RunTypes, LedgerTypes, NEW i \in Acts
  PROVE  /\ Finished(i) \in Seq(ActRecs) /\ Len(Finished(i)) = Len(acts) /\ DOMAIN Finished(i) = Acts
         /\ \A j \in Acts : /\ Finished(i)[j].node = acts[j].node /\ Finished(i)[j].toks = acts[j].toks
                            /\ Finished(i)[j].join = acts[j].join /\ Finished(i)[j].heir = acts[j].heir
                            /\ Finished(i)[j].claim = acts[j].claim /\ Finished(i)[j].wait = acts[j].wait
         /\ Finished(i)[i].st = "completed" /\ \A j \in Acts \ {i} : Finished(i)[j].st = acts[j].st
<1>1. acts \in [Acts -> ActRecs] /\ Acts = 1..Len(acts) /\ Len(acts) \in Nat
  BY ActsTyped
<1>2. [acts[i] EXCEPT !.st = "completed"] \in ActRecs
  BY <1>1 DEF ActRecs
<1>3. /\ Finished(i) \in [Acts -> ActRecs] /\ Finished(i)[i] = [acts[i] EXCEPT !.st = "completed"]
      /\ \A j \in Acts \ {i} : Finished(i)[j] = acts[j]
  BY <1>1, <1>2 DEF Finished
<1>4. Finished(i) \in Seq(ActRecs) /\ Len(Finished(i)) = Len(acts)
  BY <1>1, <1>3, SequenceOf
<1>5. LET a == Finished(i)[i] IN
      /\ a.node = acts[i].node /\ a.toks = acts[i].toks /\ a.join = acts[i].join
      /\ a.heir = acts[i].heir /\ a.claim = acts[i].claim /\ a.wait = acts[i].wait /\ a.st = "completed"
  BY <1>1, <1>3 DEF ActRecs
<1> QED
  BY <1>3, <1>4, <1>5

LEMMA Extended ==
  ASSUME NEW S, NEW xs \in Seq(S), NEW a \in S
  PROVE  /\ Append(xs, a) \in Seq(S) /\ Len(Append(xs, a)) = Len(xs) + 1 /\ Len(xs) \in Nat
         /\ DOMAIN xs = 1..Len(xs) /\ \A j \in 1..Len(xs) : Append(xs, a)[j] = xs[j]
         /\ Append(xs, a)[Len(xs) + 1] = a
  BY LenProperties, AppendProperties

\* A new activation.
LEMMA Fresh ==
  ASSUME NEW node \in Names, NEW toks \in Seq(Slots \X Nat)
  PROVE  /\ NewAct(node, toks) \in ActRecs
         /\ NewAct(node, toks).node = node /\ NewAct(node, toks).toks = toks /\ NewAct(node, toks).st = "ready"
         /\ NewAct(node, toks).join = 0 /\ NewAct(node, toks).heir = 0
         /\ NewAct(node, toks).claim = "none" /\ NewAct(node, toks).wait = FALSE
  BY DEF NewAct, ActRecs

\* An activation that is over, and one that takes its place.
LEMMA Passing ==
  ASSUME RunTypes, LedgerTypes, NEW i \in Acts, Alive(i), NEW a \in ActRecs,
         acts' = Append(Finished(i), a), Len(acts') <= MaxActs,
         run'.plan = run.plan, forks' \in [Slots -> ForkRecs], a.wait = FALSE, a.claim = "none"
  PROVE  Keeps(1) /\ ClaimsKept /\ acts'[i].st = "completed" /\ OtherActs(i) /\ acts'[Last] = a
<1> DEFINE xs == Finished(i)
<1>1. /\ xs \in Seq(ActRecs) /\ Len(xs) = Len(acts) /\ DOMAIN xs = Acts
      /\ \A j \in Acts : /\ xs[j].node = acts[j].node /\ xs[j].toks = acts[j].toks /\ xs[j].join = acts[j].join
                         /\ xs[j].heir = acts[j].heir /\ xs[j].claim = acts[j].claim /\ xs[j].wait = acts[j].wait
      /\ xs[i].st = "completed" /\ \A j \in Acts \ {i} : xs[j].st = acts[j].st
  BY Completed
<1> HIDE DEF xs
<1>2. /\ acts' \in Seq(ActRecs) /\ Len(acts') = Len(acts) + 1 /\ acts'[Len(acts) + 1] = a
      /\ \A j \in Acts : acts'[j] = xs[j]
  BY <1>1, Extended DEF xs
<1>3. \A j \in 1..Len(acts') : acts'[j].wait \/ acts'[j].claim # "none" => acts'[j].toks # <<>>
  <2>1. ASSUME NEW j \in 1..Len(acts'), acts'[j].wait \/ acts'[j].claim # "none"
        PROVE  acts'[j].toks # <<>>
    <3>1. j \in Acts \/ j = Len(acts) + 1
      BY <1>2, Fields
    <3>2. CASE j \in Acts
      <4>1. acts[j].wait \/ acts[j].claim # "none"
        BY <1>1, <1>2, <2>1, <3>2
      <4>2. acts[j].toks # <<>>
        BY <3>2, <4>1, ActsTyped DEF Branch
      <4> QED
        BY <1>1, <1>2, <3>2, <4>2
    <3>3. CASE j = Len(acts) + 1
      BY <1>2, <2>1, <3>3
    <3> QED
      BY <3>1, <3>2, <3>3
  <2> QED
    BY <2>1
<1>4. Keeps(1)
  <2>1. 1 \in Nat /\ \A j \in Acts : /\ acts'[j].node = acts[j].node /\ acts'[j].toks = acts[j].toks
                                     /\ acts'[j].join = acts[j].join /\ acts'[j].heir = acts[j].heir
    BY <1>1, <1>2
  <2> QED
    BY <1>2, <1>3, <2>1, KeepsFrom
<1> QED
  BY <1>1, <1>2, <1>4 DEF ClaimsKept, OtherActs, Last

\* A turn that failed leaves the ledger alone.
LEMMA FailsStays ==
  ASSUME RunTypes, LedgerTypes, NEW pc, Fails(pc), UNCHANGED <<acts, forks>>
  PROVE  run' \in RunRecs /\ PlainStep /\ ClaimsKept
<1>1. run' \in RunRecs /\ run'.plan = run.plan
  BY RunFields DEF Fails
<1> QED
  BY <1>1, Idle DEF PlainStep, ClaimsKept

\* The edge of an activation that is over.
LEMMA EdgeTaken ==
  ASSUME RunTypes, Ledger, NEW i \in Acts, Alive(i), NEW target \in Names, Graph[target].kind # "join",
         Where[target] = Where[acts[i].node], NEW r \in RunRecs, r.plan = run.plan,
         Commits(Append([acts EXCEPT ![i].st = "completed"], NewAct(target, acts[i].toks)), forks, r)
  PROVE  run' \in RunRecs /\ PlainStep /\ ClaimsKept
<1> DEFINE a  == NewAct(target, acts[i].toks)
           xs == Append(Finished(i), a)
<1>1. LedgerTypes /\ acts[i].toks \in Seq(Slots \X Nat)
  BY Fields DEF Ledger
<1>2. /\ a \in ActRecs /\ a.node = target /\ a.toks = acts[i].toks /\ a.st = "ready" /\ a.join = 0 /\ a.heir = 0
      /\ a.claim = "none" /\ a.wait = FALSE
  BY <1>1, Fresh
<1>3. Commits(xs, forks, r)
  BY DEF Finished
<1> HIDE DEF a
<1>4. CASE Len(xs) <= MaxActs
  <2>1. acts' = xs /\ forks' = forks /\ run' = r
    BY <1>3, <1>4 DEF Commits
  <2>2. run' \in RunRecs /\ run'.plan = run.plan
    BY <2>1
  <2>3. forks' \in [Slots -> ForkRecs] /\ Len(acts') <= MaxActs
    BY <1>1, <1>4, <2>1 DEF LedgerTypes
  <2>4. Keeps(1) /\ ClaimsKept /\ acts'[i].st = "completed" /\ OtherActs(i) /\ acts'[Last] = a
    BY <1>1, <1>2, <2>1, <2>2, <2>3, Passing
  <2>5. EdgeStep(i)
    BY <1>2, <2>1, <2>4 DEF EdgeStep, Passes, Toks
  <2> QED
    BY <2>2, <2>4, <2>5 DEF PlainStep
<1>5. CASE ~ (Len(xs) <= MaxActs)
  <2>1. Fails("asleep") /\ UNCHANGED <<acts, forks>>
    BY <1>3, <1>5 DEF Commits
  <2> QED
    BY <1>1, <2>1, FailsStays
<1> QED
  BY <1>4, <1>5

\* A branch settles, and the last one reaches the join.
LEMMA ArrivalTaken ==
  ASSUME RunTypes, Ledger, NEW i \in Acts, Alive(i), Branch(i), NEW o \in Outcomes,
         NEW r \in RunRecs, r.plan = run.plan, Arrives(i, o, r)
  PROVE  run' \in RunRecs /\ PlainStep /\ ClaimsKept
<1>1. PICK f, b : f = Token(i)[1] /\ b = Token(i)[2]
  OBVIOUS
<1>2. /\ LedgerTypes /\ Placed /\ Rooted /\ Token(i) = <<f, b>> /\ f \in Acts /\ f \in Slots /\ b \in Nat
      /\ acts[f].toks \in Seq(Slots \X Nat) /\ acts[f].node \in Names
  BY <1>1, Fields, Nesting DEF Ledger
<1> DEFINE fs == [forks EXCEPT ![f].arr[b] = o]
           gs == [fs EXCEPT ![f].st = "joined"]
           a  == [NewAct(Node(f).join, Finished(i)[f].toks) EXCEPT !.join = f]
<1>3. forks[f].st = "open" /\ forks[f].arr[b] = "none" /\ Released(Finished(i), fs, f, r)
  BY <1>1 DEF Arrives, Finished
<1>4. b \in Branches(f)
  <2>1. PICK k \in 1..Len(Toks(i)) : Toks(i)[k] = <<f, b>>
    BY <1>2, Nesting
  <2>2. Toks(i)[k][2] \in Branches(Toks(i)[k][1])
    BY <1>2, <2>1 DEF Placed
  <2> QED
    BY <2>1, <2>2
<1>5. /\ forks \in [Slots -> ForkRecs] /\ forks[f] \in ForkRecs /\ forks[f].arr \in Seq(Settled)
      /\ Branches(f) = 1..Len(forks[f].arr) /\ o \in Settled
  BY <1>2, Fields DEF LedgerTypes, Settled
<1>6. /\ fs \in [Slots -> ForkRecs] /\ fs[f].st = "open" /\ fs[f].empty = forks[f].empty /\ DOMAIN fs[f].arr = Branches(f)
      /\ fs[f].arr[b] = o /\ \A c \in Branches(f) \ {b} : fs[f].arr[c] = forks[f].arr[c]
      /\ \A g \in Slots \ {f} : fs[g] = forks[g]
  <2>1. PICK arr : arr = [forks[f].arr EXCEPT ![b] = o]
    OBVIOUS
  <2>2. /\ arr \in Seq(Settled) /\ DOMAIN arr = Branches(f) /\ arr[b] = o
        /\ \A c \in Branches(f) \ {b} : arr[c] = forks[f].arr[c]
    BY <1>4, <1>5, <2>1
  <2>3. fs = [forks EXCEPT ![f] = [forks[f] EXCEPT !.arr = arr]]
    BY <1>2, <1>5, <2>1
  <2> HIDE DEF fs
  <2>4. fs[f] = [forks[f] EXCEPT !.arr = arr] /\ \A g \in Slots \ {f} : fs[g] = forks[g]
    BY <1>2, <1>5, <2>3
  <2>5. [forks[f] EXCEPT !.arr = arr] \in ForkRecs
    BY <1>5, <2>2 DEF ForkRecs
  <2> QED
    BY <1>2, <1>3, <1>5, <2>2, <2>3, <2>4, <2>5 DEF ForkRecs
<1>7. /\ gs \in [Slots -> ForkRecs] /\ gs[f].st = "joined" /\ gs[f].empty = fs[f].empty /\ gs[f].arr = fs[f].arr
      /\ \A g \in Slots \ {f} : gs[g] = fs[g]
  <2> HIDE DEF fs
  <2> QED
    BY <1>2, <1>6 DEF ForkRecs
<1>8. CASE \E c \in DOMAIN fs[f].arr : fs[f].arr[c] = "none"
  <2>1. Commits(Finished(i), fs, r)
    BY <1>3, <1>8 DEF Released
  <2>2. Len(Finished(i)) <= MaxActs
    BY <1>2, Completed, ActsTyped
  <2>3. acts' = Finished(i) /\ forks' = fs /\ run' = r
    BY <2>1, <2>2 DEF Commits
  <2> HIDE DEF fs
  <2>4. /\ acts' \in Seq(ActRecs) /\ Len(acts') = Len(acts) + 0 /\ DOMAIN acts' = Acts
        /\ \A j \in Acts : /\ acts'[j].node = acts[j].node /\ acts'[j].toks = acts[j].toks
                           /\ acts'[j].join = acts[j].join /\ acts'[j].heir = acts[j].heir
                           /\ acts'[j].claim = acts[j].claim /\ acts'[j].wait = acts[j].wait
        /\ acts'[i].st = "completed" /\ \A j \in Acts \ {i} : acts'[j].st = acts[j].st
    BY <1>2, <2>3, Completed, ActsTyped
  <2>5. Keeps(0)
    <3>1. \A j \in 1..Len(acts') : acts'[j].wait \/ acts'[j].claim # "none" => acts'[j].toks # <<>>
      <4>1. 1..Len(acts') = Acts /\ \A j \in Acts : acts[j].wait \/ acts[j].claim # "none" => acts[j].toks # <<>>
        BY <1>2, <2>4, ActsTyped DEF Branch
      <4> QED
        BY <2>4, <4>1
    <3>2. forks' \in [Slots -> ForkRecs] /\ run'.plan = run.plan /\ Len(acts') <= MaxActs /\ 0 \in Nat
      BY <1>6, <2>2, <2>3
    <3> QED
      BY <1>2, <2>4, <3>1, <3>2, KeepsFrom
  <2>6. ArriveStep(i, f, b)
    BY <1>2, <1>3, <1>6, <2>3, <2>4, <2>5 DEF ArriveStep, Settles, ClaimsKept, OtherActs, OtherForks, Branches
  <2>7. ClaimsKept
    BY <2>4 DEF ClaimsKept
  <2> QED
    BY <1>2, <2>3, <2>6, <2>7 DEF PlainStep
<1>9. CASE ~ \E c \in DOMAIN fs[f].arr : fs[f].arr[c] = "none"
  <2>1. Commits(Append(Finished(i), a), gs, r)
    BY <1>3, <1>9 DEF Released
  <2>2. /\ Node(f).join \in Names /\ Graph[Node(f).join].kind = "join" /\ Where[Node(f).join] = Where[acts[f].node]
        /\ Finished(i)[f].toks = acts[f].toks
    <3>1. Graph[acts[f].node].kind \in {"fork", "foreach"}
      BY <1>2, <1>3 DEF Rooted, Kind, Node
    <3> QED
      BY <1>2, <3>1, NodeFacts, Completed DEF Node
  <2>3. /\ a \in ActRecs /\ a.node = Node(f).join /\ a.toks = acts[f].toks /\ a.st = "ready" /\ a.join = f /\ a.heir = 0
        /\ a.claim = "none" /\ a.wait = FALSE
    <3>1. f \in Nat
      BY <1>2, Fields
    <3> QED
      BY <1>2, <2>2, <3>1 DEF NewAct, ActRecs
  <2> HIDE DEF a, gs, fs
  <2>4. CASE Len(Append(Finished(i), a)) <= MaxActs
    <3>1. acts' = Append(Finished(i), a) /\ forks' = gs /\ run' = r /\ Len(acts') <= MaxActs
      BY <2>1, <2>4 DEF Commits
    <3>2. Keeps(1) /\ ClaimsKept /\ acts'[i].st = "completed" /\ OtherActs(i) /\ acts'[Last] = a
      BY <1>2, <1>7, <2>3, <3>1, Passing
    <3>3. Settles(i, f, b)
      BY <1>2, <1>3, <1>6, <1>7, <3>1, <3>2 DEF Settles, OtherForks, Branches
    <3>4. \A c \in Branches(f) : forks'[f].arr[c] # "none"
      BY <1>6, <1>7, <1>9, <3>1
    <3>5. JoinStep(i, f, b)
      BY <1>7, <2>2, <2>3, <3>1, <3>2, <3>3, <3>4 DEF JoinStep, Toks
    <3> QED
      BY <1>2, <3>1, <3>2, <3>5 DEF PlainStep
  <2>5. CASE ~ (Len(Append(Finished(i), a)) <= MaxActs)
    <3>1. Fails("asleep") /\ UNCHANGED <<acts, forks>>
      BY <2>1, <2>5 DEF Commits
    <3> QED
      BY <1>2, <3>1, FailsStays
  <2> QED
    BY <2>4, <2>5
<1> QED
  BY <1>8, <1>9

\* The edge of an activation that is over, whether or not it leads to the join of its region.
LEMMA FollowsTaken ==
  ASSUME RunTypes, Ledger, NEW i \in Acts, Alive(i), NEW label \in Labels(Kind(i)), NEW arrival \in Outcomes,
         NEW r \in RunRecs, r.plan = run.plan, Follows(i, label, arrival, r)
  PROVE  run' \in RunRecs /\ PlainStep /\ ClaimsKept
<1>1. PICK target : target = Node(i).next[label]
  OBVIOUS
<1>2. LedgerTypes /\ Placed /\ acts[i].node \in Names
  BY Fields DEF Ledger
<1>3. CASE Branch(i) /\ JoinOf(Token(i)[1]) = target
  BY <1>1, <1>3, ArrivalTaken DEF Follows
<1>4. CASE ~ (Branch(i) /\ JoinOf(Token(i)[1]) = target)
  <2>1. Commits(Append([acts EXCEPT ![i].st = "completed"], NewAct(target, acts[i].toks)), forks, r)
    BY <1>1, <1>4 DEF Follows
  <2>2. /\ target \in Names
        /\ \/ Where[target] = Where[acts[i].node] /\ Graph[target].kind # "join"
           \/ Where[acts[i].node] # "none" /\ target = Graph[Where[acts[i].node]].join
    BY <1>1, <1>2, NodeFacts DEF Kind, Node
  <2>3. Where[acts[i].node] # "none" => Branch(i) /\ Graph[Where[acts[i].node]].join = JoinOf(Token(i)[1])
    BY <1>2 DEF Placed, JoinOf, Node
  <2>4. Where[target] = Where[acts[i].node] /\ Graph[target].kind # "join"
    BY <1>4, <2>2, <2>3
  <2> QED
    BY <2>1, <2>2, <2>4, EdgeTaken
<1> QED
  BY <1>3, <1>4

LEMMA Chained ==
  ASSUME NEW S, NEW s \in Seq(S), NEW t \in Seq(S)
  PROVE  /\ s \o t \in Seq(S) /\ Len(s \o t) = Len(s) + Len(t)
         /\ \A j \in 1..Len(s) : (s \o t)[j] = s[j]
         /\ \A b \in 1..Len(t) : (s \o t)[Len(s) + b] = t[b]
<1>1. Len(s) \in Nat /\ Len(t) \in Nat
  BY LenProperties
<1>2. /\ s \o t \in Seq(S) /\ Len(s \o t) = Len(s) + Len(t)
      /\ \A j \in 1..(Len(s) + Len(t)) : (s \o t)[j] = IF j <= Len(s) THEN s[j] ELSE t[j - Len(s)]
  BY ConcatProperties
<1>3. ASSUME NEW b \in 1..Len(t)
      PROVE  (s \o t)[Len(s) + b] = t[b]
  <2>1. Len(s) + b \in 1..(Len(s) + Len(t)) /\ ~ (Len(s) + b <= Len(s)) /\ (Len(s) + b) - Len(s) = b
    BY <1>1, <1>3
  <2> QED
    BY <1>2, <2>1
<1>4. \A j \in 1..Len(s) : j \in 1..(Len(s) + Len(t)) /\ j <= Len(s)
  BY <1>1
<1> QED
  BY <1>2, <1>3, <1>4

\* A region opens with a branch for each target, or reaches its join at once without any.
LEMMA OpeningTaken ==
  ASSUME RunTypes, Ledger, NEW i \in Acts, Alive(i), Kind(i) \in {"fork", "foreach"},
         NEW n \in Nat, NEW targets \in [1..n -> Names],
         \A b \in 1..n : Where[targets[b]] = acts[i].node /\ Graph[targets[b]].kind # "join",
         NEW empty \in Settled, n = 0 => empty \in Outcomes /\ Kind(i) = "foreach",
         Opens(i, targets, empty)
  PROVE  run' \in RunRecs /\ PlainStep /\ ClaimsKept
<1>1. /\ LedgerTypes /\ Placed /\ Rooted /\ i \in Slots /\ i \in Nat /\ acts[i].toks \in Seq(Slots \X Nat)
      /\ acts[i].node \in Names /\ Len(acts) \in Nat /\ Acts = 1..Len(acts)
  BY Fields DEF Ledger
<1>2. DOMAIN targets = 1..n
  OBVIOUS
<1> DEFINE add == [b \in 1..n |-> NewAct(targets[b], Append(acts[i].toks, <<i, b>>))]
           xs  == Finished(i) \o add
           arr == [b \in 1..n |-> "none"]
           fs  == [forks EXCEPT ![i] = [st |-> "open", arr |-> arr, empty |-> empty]]
           gs  == [fs EXCEPT ![i].st = "joined"]
           a   == [NewAct(Node(i).join, xs[i].toks) EXCEPT !.join = i]
<1>3. ASSUME NEW b \in 1..n
      PROVE  /\ add[b] \in ActRecs /\ add[b].node = targets[b] /\ add[b].toks = Append(acts[i].toks, <<i, b>>)
             /\ add[b].st = "ready" /\ add[b].join = 0 /\ add[b].heir = 0 /\ add[b].claim = "none" /\ add[b].wait = FALSE
  <2>1. targets[b] \in Names /\ <<i, b>> \in Slots \X Nat
    BY <1>1, <1>3
  <2>2. PICK toks : toks = Append(acts[i].toks, <<i, b>>)
    OBVIOUS
  <2>3. toks \in Seq(Slots \X Nat)
    BY <1>1, <2>1, <2>2, AppendProperties
  <2>4. add[b] = NewAct(targets[b], toks)
    BY <1>3, <2>2
  <2> HIDE DEF add
  <2>5. PICK t \in Names : t = targets[b]
    BY <2>1
  <2>6. /\ NewAct(t, toks) \in ActRecs
        /\ NewAct(t, toks).node = t /\ NewAct(t, toks).toks = toks /\ NewAct(t, toks).st = "ready"
        /\ NewAct(t, toks).join = 0 /\ NewAct(t, toks).heir = 0
        /\ NewAct(t, toks).claim = "none" /\ NewAct(t, toks).wait = FALSE
    BY <2>3, <2>5 DEF NewAct, ActRecs
  <2> QED
    BY <2>2, <2>4, <2>5, <2>6
<1>4. add \in Seq(ActRecs) /\ Len(add) = n
  <2>1. add \in [1..n -> ActRecs]
    <3> HIDE DEF add
    <3>1. DOMAIN add = 1..n /\ add = [b \in 1..n |-> add[b]]
      BY DEF add
    <3> QED
      BY <1>3, <3>1
  <2> HIDE DEF add
  <2> QED
    BY <2>1, SequenceOf
<1>5. /\ Finished(i) \in Seq(ActRecs) /\ Len(Finished(i)) = Len(acts) /\ DOMAIN Finished(i) = Acts
      /\ \A j \in Acts : /\ Finished(i)[j].node = acts[j].node /\ Finished(i)[j].toks = acts[j].toks
                         /\ Finished(i)[j].join = acts[j].join /\ Finished(i)[j].heir = acts[j].heir
                         /\ Finished(i)[j].claim = acts[j].claim /\ Finished(i)[j].wait = acts[j].wait
      /\ Finished(i)[i].st = "completed" /\ \A j \in Acts \ {i} : Finished(i)[j].st = acts[j].st
  BY <1>1, Completed
<1>6. /\ xs \in Seq(ActRecs) /\ Len(xs) = Len(acts) + n
      /\ \A j \in Acts : xs[j] = Finished(i)[j]
      /\ \A b \in 1..n : xs[Len(acts) + b] = add[b]
  <2> HIDE DEF add
  <2>1. Finished(i) \in Seq(ActRecs) /\ add \in Seq(ActRecs) /\ Len(Finished(i)) = Len(acts) /\ Len(add) = n
    BY <1>4, <1>5
  <2>2. /\ xs \in Seq(ActRecs) /\ Len(xs) = Len(acts) + n
        /\ \A j \in 1..Len(acts) : xs[j] = Finished(i)[j]
        /\ \A b \in 1..n : xs[Len(acts) + b] = add[b]
    <3>1. PICK s \in Seq(ActRecs) : s = Finished(i)
      BY <2>1
    <3>2. PICK t \in Seq(ActRecs) : t = add
      BY <2>1
    <3>3. /\ s \o t \in Seq(ActRecs) /\ Len(s \o t) = Len(s) + Len(t)
          /\ \A j \in 1..Len(s) : (s \o t)[j] = s[j]
          /\ \A b \in 1..Len(t) : (s \o t)[Len(s) + b] = t[b]
      BY <3>1, <3>2, Chained
    <3>4. xs = s \o t
      BY <3>1, <3>2
    <3> HIDE DEF xs, add
    <3> QED
      BY <2>1, <3>1, <3>2, <3>3, <3>4
  <2> QED
    BY <1>1, <2>2
<1>7. arr \in Seq(Settled) /\ DOMAIN arr = 1..n /\ \A b \in 1..n : arr[b] = "none"
  BY SequenceOf DEF Settled
<1>8. /\ fs \in [Slots -> ForkRecs] /\ fs[i].st = "open" /\ fs[i].arr = arr /\ fs[i].empty = empty
      /\ \A g \in Slots \ {i} : fs[g] = forks[g]
  <2> HIDE DEF arr
  <2>1. [st |-> "open", arr |-> arr, empty |-> empty] \in ForkRecs
    BY <1>7 DEF ForkRecs
  <2> QED
    BY <1>1, <2>1 DEF LedgerTypes
<1>9. /\ gs \in [Slots -> ForkRecs] /\ gs[i].st = "joined" /\ gs[i].arr = arr /\ gs[i].empty = empty
      /\ \A g \in Slots \ {i} : gs[g] = forks[g]
  <2> HIDE DEF fs, arr
  <2> QED
    BY <1>1, <1>8 DEF ForkRecs
<1>10. CASE Room(n + 1) /\ n # 0
  <2>1. Released(xs, fs, i, run)
    <3>1. n + 1 = Len(targets) + 1
      BY SequenceOf
    <3> QED
      BY <1>2, <1>10, <3>1 DEF Opens, Finished
  <2> HIDE DEF xs, fs, arr
  <2>2. \E c \in DOMAIN fs[i].arr : fs[i].arr[c] = "none"
    BY <1>7, <1>8, <1>10
  <2>3. Commits(xs, fs, run) /\ Len(xs) <= MaxActs
    BY <1>1, <1>6, <1>10, <2>1, <2>2, PlanFacts DEF Released, Room
  <2>4. acts' = xs /\ forks' = fs /\ run' = run
    BY <2>3 DEF Commits
  <2> HIDE DEF add
  <2>5. Keeps(n)
    <3>1. \A j \in 1..Len(acts') : acts'[j].wait \/ acts'[j].claim # "none" => acts'[j].toks # <<>>
      <4>1. ASSUME NEW j \in Acts
            PROVE  acts'[j].wait \/ acts'[j].claim # "none" => acts'[j].toks # <<>>
        <5>1. acts'[j].wait = acts[j].wait /\ acts'[j].claim = acts[j].claim /\ acts'[j].toks = acts[j].toks
          BY <1>5, <1>6, <2>4, <4>1
        <5> QED
          BY <1>1, <4>1, <5>1, ActsTyped DEF Branch
      <4>2. ASSUME NEW b \in 1..n
            PROVE  ~ acts'[Len(acts) + b].wait /\ acts'[Len(acts) + b].claim = "none"
        BY <1>3, <1>6, <2>4, <4>2
      <4>3. \A j \in 1..Len(acts') : j \in Acts \/ \E b \in 1..n : j = Len(acts) + b
        <5>1. Len(acts') = Len(acts) + n
          BY <1>6, <2>4
        <5>2. ASSUME NEW j \in 1..(Len(acts) + n), j \notin Acts
              PROVE  j - Len(acts) \in 1..n /\ j = Len(acts) + (j - Len(acts))
          BY <1>1, <5>2
        <5> QED
          BY <5>1, <5>2
      <4> QED
        BY <4>1, <4>2, <4>3
    <3>2. \A j \in Acts : /\ acts'[j].node = acts[j].node /\ acts'[j].toks = acts[j].toks
                          /\ acts'[j].join = acts[j].join /\ acts'[j].heir = acts[j].heir
      BY <1>5, <1>6, <2>4
    <3> QED
      BY <1>1, <1>6, <1>8, <2>3, <2>4, <3>1, <3>2, KeepsFrom
  <2>6. ClaimsKept /\ acts'[i].st = "completed" /\ OtherActs(i)
    BY <1>5, <1>6, <2>4 DEF ClaimsKept, OtherActs
  <2>7. OtherForks(i) /\ forks'[i].st = "open" /\ Branches(i)' = 1..n /\ \A b \in 1..n : forks'[i].arr[b] = "none"
    BY <1>7, <1>8, <2>4 DEF OtherForks, Branches
  <2>8. \A b \in 1..n :
          /\ acts'[Len(acts) + b].st = "ready" /\ acts'[Len(acts) + b].toks = Append(Toks(i), <<i, b>>)
          /\ acts'[Len(acts) + b].join = 0 /\ acts'[Len(acts) + b].heir = 0
          /\ acts'[Len(acts) + b].node \in Names /\ Where[acts'[Len(acts) + b].node] = acts[i].node
          /\ Graph[acts'[Len(acts) + b].node].kind # "join"
    <3>1. ASSUME NEW b \in 1..n
          PROVE  /\ acts'[Len(acts) + b] = add[b] /\ add[b].node = targets[b] /\ targets[b] \in Names
                 /\ Where[targets[b]] = acts[i].node /\ Graph[targets[b]].kind # "join"
      BY <1>3, <1>6, <2>4, <3>1
    <3>2. ASSUME NEW b \in 1..n
          PROVE  acts'[Len(acts) + b].toks = Append(Toks(i), <<i, b>>)
      <4>1. add[b].toks = Append(acts[i].toks, <<i, b>>) /\ acts'[Len(acts) + b] = add[b]
        BY <1>3, <3>1, <3>2
      <4> QED
        BY <4>1 DEF Toks
    <3>3. ASSUME NEW b \in 1..n
          PROVE  acts'[Len(acts) + b].st = "ready" /\ acts'[Len(acts) + b].join = 0 /\ acts'[Len(acts) + b].heir = 0
      BY <1>3, <3>1, <3>3
    <3>4. ASSUME NEW b \in 1..n
          PROVE  /\ acts'[Len(acts) + b].node \in Names /\ Where[acts'[Len(acts) + b].node] = acts[i].node
                 /\ Graph[acts'[Len(acts) + b].node].kind # "join"
      BY <3>1, <3>4
    <3> QED
      BY <3>2, <3>3, <3>4, Zenon
  <2>9. OpenStep(i)
    <3>1. n \in Nat \ {0}
      BY <1>10
    <3> QED
      BY <2>5, <2>6, <2>7, <2>8, <3>1 DEF OpenStep
  <2> QED
    BY <2>4, <2>6, <2>9 DEF PlainStep, RunTypes
<1>11. CASE Room(n + 1) /\ n = 0
  <2>1. Released(xs, fs, i, run)
    <3>1. n + 1 = Len(targets) + 1
      BY SequenceOf
    <3> QED
      BY <1>2, <1>11, <3>1 DEF Opens, Finished
  <2>2. add = <<>>
    BY <1>4, <1>11, EmptySeq
  <2>3. xs = Finished(i)
    <3> HIDE DEF add
    <3> QED
      BY <1>5, <2>2, ConcatEmptySeq
  <2>4. /\ a \in ActRecs /\ a.node = Node(i).join /\ a.toks = acts[i].toks /\ a.st = "ready" /\ a.join = i
        /\ a.heir = 0 /\ a.claim = "none" /\ a.wait = FALSE
        /\ Node(i).join \in Names /\ Graph[Node(i).join].kind = "join" /\ Where[Node(i).join] = Where[acts[i].node]
    <3> HIDE DEF xs
    <3>1. Node(i).join \in Names /\ Graph[Node(i).join].kind = "join" /\ Where[Node(i).join] = Where[acts[i].node]
      BY <1>1, NodeFacts DEF Kind, Node
    <3>2. xs[i].toks = acts[i].toks
      BY <1>5, <2>3
    <3> QED
      BY <1>1, <3>1, <3>2 DEF NewAct, ActRecs
  <2> HIDE DEF xs, fs, arr, gs, a
  <2>5. Commits(Append(Finished(i), a), gs, run)
    <3>1. ~ \E c \in DOMAIN fs[i].arr : fs[i].arr[c] = "none"
      BY <1>7, <1>8, <1>11
    <3> QED
      BY <2>1, <2>3, <3>1 DEF Released, gs, a
  <2>6. Len(Append(Finished(i), a)) <= MaxActs
    BY <1>5, <1>11, <2>4, AppendProperties DEF Room
  <2>7. acts' = Append(Finished(i), a) /\ forks' = gs /\ run' = run /\ Len(acts') <= MaxActs
    BY <2>5, <2>6 DEF Commits
  <2>8. Keeps(1) /\ ClaimsKept /\ acts'[i].st = "completed" /\ OtherActs(i) /\ acts'[Last] = a
    BY <1>1, <1>9, <2>4, <2>7, Passing
  <2>9. arr = <<>>
    BY <1>7, <1>11 DEF arr
  <2>10. EmptyStep(i)
    BY <1>9, <1>11, <2>4, <2>7, <2>8, <2>9 DEF EmptyStep, Passes, OtherForks, Toks
  <2> QED
    BY <2>7, <2>8, <2>10 DEF PlainStep, RunTypes
<1>12. CASE ~ Room(n + 1)
  <2>1. Fails("asleep") /\ UNCHANGED <<acts, forks>>
    <3>1. n + 1 = Len(targets) + 1
      BY SequenceOf
    <3> QED
      BY <1>2, <1>12, <3>1 DEF Opens
  <2> QED
    BY <1>1, <2>1, FailsStays
<1> QED
  BY <1>10, <1>11, <1>12

\* The activation a turn is about.
LEMMA FirstFacts ==
  ASSUME RunTypes, Ledger, NEW i \in First
  PROVE  i \in Acts /\ Alive(i) /\ (acts[i].st = "running" => Decided(i))
<1>1. Movable \in SUBSET Nat /\ Movable # {} /\ i = Least(Movable)
  BY Fields DEF First, Movable, Ledger
<1>2. i \in Movable
  BY <1>1, LeastOf
<1> QED
  BY <1>2 DEF Movable, Alive

LEMMA EffectFacts ==
  ASSUME RunTypes, Ledger, NEW i \in Effect
  PROVE  i \in Acts /\ acts[i].st = "running" /\ actor.pc = "turn"
<1>1. Waiting \in SUBSET Nat /\ Waiting # {} /\ i = Least(Waiting) /\ actor.pc = "turn"
  BY Fields DEF Effect, Waiting, Ledger, TurnEnds
<1>2. i \in Waiting
  BY <1>1, LeastOf
<1> QED
  BY <1>1, <1>2 DEF Waiting

\* A join that runs knows how each branch of its region ended.
LEMMA OutcomeKnown ==
  ASSUME RunTypes, Ledger, NEW i \in Acts, Kind(i) = "join"
  PROVE  Outcome(acts[i].join) \in Outcomes
<1>1. PICK f : f = acts[i].join
  OBVIOUS
<1>2. f \in Acts /\ forks[f].st # "none" /\ \A b \in Branches(f) : forks[f].arr[b] # "none"
  BY <1>1 DEF Ledger, Succeeded
<1>3. LedgerTypes /\ f \in Slots
  BY <1>2, Fields DEF Ledger
<1>4. forks[f].arr \in Seq(Settled) /\ Branches(f) = 1..Len(forks[f].arr)
  BY <1>3, Fields
<1>5. \A b \in Branches(f) : forks[f].arr[b] \in Outcomes
  BY <1>2, <1>4 DEF Settled
<1>6. Branches(f) = {} => forks[f].empty \in Outcomes
  BY <1>2, <1>3 DEF Ledger, Rooted
<1> DEFINE bad == {b \in Branches(f) : Required(f, b) /\ forks[f].arr[b] # "completed"}
<1>7. ASSUME bad # {}
      PROVE  forks[f].arr[Least(bad)] \in Outcomes
  <2>1. bad \in SUBSET Nat
    BY <1>4
  <2>2. Least(bad) \in bad
    <3> HIDE DEF bad
    <3> QED
      BY <1>7, <2>1, LeastOf
  <2> QED
    BY <1>5, <2>2
<1>8. Outcome(f) = IF Branches(f) = {} THEN forks[f].empty ELSE IF bad = {} THEN "completed" ELSE forks[f].arr[Least(bad)]
  BY DEF Outcome
<1> HIDE DEF bad
<1> QED
  BY <1>1, <1>6, <1>7, <1>8 DEF Outcomes

\* What a gate reads is the outcome of a check, or nothing.
LEMMA ReceiptKnown ==
  ASSUME RunTypes, checks \in Seq(Bindings), NEW i
  PROVE  Receipt(i) \in {"none", "pass", "fail"}
<1> DEFINE latest(S) == IF S = {} THEN "none" ELSE checks[Highest(S)].out
<1>1. /\ Len(checks) \in Nat /\ DOMAIN checks = 1..Len(checks)
      /\ checks \in [1..Len(checks) -> [act : Slots, out : {"pass", "fail"}]]
  BY LenProperties DEF Bindings
<1>2. ASSUME NEW T
      PROVE  latest(ReceiptsOf(T)) \in {"none", "pass", "fail"}
  <2>1. PICK S : S = ReceiptsOf(T)
    OBVIOUS
  <2>2. S \in SUBSET (1..Len(checks))
    BY <1>1, <2>1 DEF ReceiptsOf
  <2>3. CASE S = {}
    BY <2>1, <2>3
  <2>4. CASE S # {}
    <3>1. Highest(S) \in 1..Len(checks)
      BY <1>1, <2>2, <2>4, HighestOf
    <3>2. checks[Highest(S)] \in [act : Slots, out : {"pass", "fail"}]
      BY <1>1, <3>1
    <3> QED
      BY <2>1, <2>4, <3>2
  <2> QED
    BY <2>3, <2>4
<1>3. run.receipt \in {"none", "pass", "fail"}
  BY RunFields
<1>4. \/ Receipt(i) = run.receipt
      \/ \E T : Receipt(i) = latest(ReceiptsOf(T))
  <2>1. CASE Branch(i)
    BY <2>1 DEF Receipt
  <2>2. CASE ~ Branch(i)
    <3>1. Receipt(i) = IF Region # {} /\ Branches(Highest(Region)) # {}
                       THEN latest(ReceiptsOf({j \in Gen(Highest(Region)) : Token(j)[1] = Highest(Region)}))
                       ELSE run.receipt
      BY <2>2 DEF Receipt
    <3> HIDE DEF latest
    <3> QED
      BY <3>1
  <2> QED
    BY <2>1, <2>2
<1> HIDE DEF latest
<1> QED
  BY <1>2, <1>3, <1>4

\* A generation is superseded from inside, while it is open.
LEMMA SupersedeTaken ==
  ASSUME RunTypes, Ledger, NEW i \in Acts, Alive(i), SupersedesFork(i)
  PROVE  run' \in RunRecs /\ PlainStep /\ ClaimsKept
<1>1. PICK f : f = Highest(Repairable(i))
  OBVIOUS
<1>2. /\ LedgerTypes /\ Placed /\ Enclosed /\ Acts \subseteq Slots /\ MaxSlots \in Nat /\ Slots = 1..MaxSlots
  BY Fields DEF Ledger
<1>3. f \in Slots /\ In(i, f) /\ Kind(f) = "fork" /\ Node(f).repair # "none"
  <2>1. f \in Repairable(i)
    BY <1>1, <1>2, HighestOf DEF SupersedesFork, Repairable
  <2> QED
    BY <2>1 DEF Repairable
<1>4. f \in Acts /\ forks[f].st = "open"
  <2>1. PICK k \in 1..Len(Toks(i)) : Toks(i)[k][1] = f
    BY <1>2, <1>3, Nesting
  <2>2. forks[f].st = "open"
    BY <1>2, <2>1 DEF Enclosed, Runs
  <2> QED
    BY <1>2, <1>3, <2>2, Nesting
<1>5. /\ forks' = [n \in Slots |-> IF n = f THEN [forks[n] EXCEPT !.st = "cancelling"]
                      ELSE IF n \in Acts /\ In(n, f) /\ forks[n].st # "none"
                           THEN [forks[n] EXCEPT !.st = "superseded"] ELSE forks[n]]
      /\ acts' = [j \in Acts |-> IF In(j, f) /\ acts[j].st # "completed"
                                  THEN [acts[j] EXCEPT !.st = "superseded", !.wait = FALSE] ELSE acts[j]]
      /\ run' = [run EXCEPT !.loops = @ + 1] /\ run.loops < MaxLoops
  BY <1>1 DEF SupersedesFork
<1>6. run' \in RunRecs /\ run'.plan = run.plan
  BY <1>5, RunFields
<1>7. ASSUME NEW g \in Slots
      PROVE  /\ forks'[g] \in ForkRecs /\ forks'[g].arr = forks[g].arr /\ forks'[g].empty = forks[g].empty
             /\ forks'[g].st = IF g = f THEN "cancelling"
                               ELSE IF g \in Acts /\ In(g, f) /\ forks[g].st # "none" THEN "superseded"
                               ELSE forks[g].st
  <2>1. forks[g] \in ForkRecs
    BY <1>2, <1>7 DEF LedgerTypes
  <2>2. \A s \in {"cancelling", "superseded"} : LET x == [forks[g] EXCEPT !.st = s] IN
          x \in ForkRecs /\ x.arr = forks[g].arr /\ x.empty = forks[g].empty /\ x.st = s
    BY <2>1 DEF ForkRecs
  <2>3. forks'[g] = IF g = f THEN [forks[g] EXCEPT !.st = "cancelling"]
                    ELSE IF g \in Acts /\ In(g, f) /\ forks[g].st # "none"
                         THEN [forks[g] EXCEPT !.st = "superseded"] ELSE forks[g]
    BY <1>5, <1>7
  <2> QED
    BY <2>1, <2>2, <2>3
<1>8. ASSUME NEW j \in Acts
      PROVE  /\ acts'[j] \in ActRecs /\ acts'[j].node = acts[j].node /\ acts'[j].toks = acts[j].toks
             /\ acts'[j].join = acts[j].join /\ acts'[j].heir = acts[j].heir /\ acts'[j].claim = acts[j].claim
             /\ acts'[j].wait => acts[j].wait
             /\ acts'[j].st = IF In(j, f) /\ acts[j].st # "completed" THEN "superseded" ELSE acts[j].st
  <2>1. acts[j] \in ActRecs
    BY <1>2, <1>8, ActsTyped
  <2>2. PICK x : x = [acts[j] EXCEPT !.st = "superseded", !.wait = FALSE]
    OBVIOUS
  <2>3. /\ x \in ActRecs /\ x.node = acts[j].node /\ x.toks = acts[j].toks /\ x.join = acts[j].join
        /\ x.heir = acts[j].heir /\ x.claim = acts[j].claim /\ ~ x.wait /\ x.st = "superseded"
    BY <2>1, <2>2 DEF ActRecs
  <2>4. acts'[j] = IF In(j, f) /\ acts[j].st # "completed" THEN x ELSE acts[j]
    BY <1>5, <1>8, <2>2
  <2> QED
    BY <2>1, <2>3, <2>4
<1>9. acts' \in Seq(ActRecs) /\ Len(acts') = Len(acts) + 0 /\ Len(acts') <= MaxActs /\ Acts = 1..Len(acts)
  <2>1. Acts = 1..Len(acts) /\ Len(acts) \in Nat /\ Len(acts) <= MaxActs
    BY <1>2, ActsTyped
  <2>2. acts' \in [1..Len(acts) -> ActRecs]
    <3>1. acts' = [j \in Acts |-> acts'[j]]
      BY <1>5
    <3> QED
      BY <1>8, <2>1, <3>1
  <2> QED
    BY <2>1, <2>2, SequenceOf
<1>10. Keeps(0)
  <2>1. forks' \in [Slots -> ForkRecs]
    <3>1. forks' = [g \in Slots |-> forks'[g]]
      BY <1>5
    <3> QED
      BY <1>7, <3>1
  <2>2. \A j \in 1..Len(acts') : acts'[j].wait \/ acts'[j].claim # "none" => acts'[j].toks # <<>>
    <3>1. ASSUME NEW j \in Acts, acts'[j].wait \/ acts'[j].claim # "none"
          PROVE  acts'[j].toks # <<>>
      <4>1. acts[j].wait \/ acts[j].claim # "none"
        BY <1>8, <3>1
      <4>2. Branch(j)
        BY <1>2, <3>1, <4>1, ActsTyped
      <4> QED
        BY <1>8, <3>1, <4>2 DEF Branch
    <3>2. 1..Len(acts') = Acts
      BY <1>2, <1>9, ActsTyped
    <3> QED
      BY <3>1, <3>2
  <2>3. /\ 0 \in Nat
        /\ \A j \in Acts : /\ acts'[j].node = acts[j].node /\ acts'[j].toks = acts[j].toks
                           /\ acts'[j].join = acts[j].join /\ acts'[j].heir = acts[j].heir
    BY <1>8
  <2> QED
    BY <1>2, <1>6, <1>9, <2>1, <2>2, <2>3, KeepsFrom
<1>11. ClaimsKept
  BY <1>8 DEF ClaimsKept
<1>12. SupersedeStep(f)
  <2>1. \A j \in Acts : acts'[j].st = IF In(j, f) /\ acts[j].st # "completed" THEN "superseded" ELSE acts[j].st
    BY <1>8
  <2>2. \A g \in Slots : /\ forks'[g].arr = forks[g].arr /\ forks'[g].empty = forks[g].empty
                         /\ forks'[g].st = IF g = f THEN "cancelling"
                                           ELSE IF g \in Acts /\ In(g, f) /\ forks[g].st # "none" THEN "superseded"
                                           ELSE forks[g].st
    BY <1>7
  <2> QED
    BY <1>3, <1>4, <1>10, <1>11, <2>1, <2>2 DEF SupersedeStep
<1> QED
  BY <1>4, <1>6, <1>11, <1>12 DEF PlainStep

\* The repair is reached when the actor has stopped the generation.
LEMMA RepairTaken ==
  ASSUME RunTypes, Ledger, NEW f, f = actor.at, f \in Acts, forks[f].st = "cancelling",
         StopsFork, acts' # acts
  PROVE  RepairStep(f)
<1>1. /\ LedgerTypes /\ Placed /\ f \in Slots /\ acts[f].node \in Names
      /\ Kind(f) = "fork" /\ Node(f).repair # "none"
  BY Fields DEF Ledger, Rooted
<1> DEFINE xs == [i \in Acts |-> IF In(i, f) THEN [acts[i] EXCEPT !.claim = "none"] ELSE acts[i]]
           a  == [NewAct(Node(f).repair, acts[f].toks) EXCEPT !.heir = f]
<1>2. /\ acts' = Append(xs, a) /\ forks' = [forks EXCEPT ![f].st = "superseded"] /\ run' = run /\ Room(1)
  BY DEF StopsFork, Fails
<1>3. acts[f].toks = <<>>
  BY <1>1, RepairableIsOutside DEF Branch
<1>4. Node(f).repair \in Names /\ Where[Node(f).repair] = "none" /\ Graph[Node(f).repair].kind = "work"
  BY <1>1, NodeFacts DEF Kind, Node
<1>5. /\ a \in ActRecs /\ a.node = Node(f).repair /\ a.toks = <<>> /\ a.st = "ready" /\ a.join = 0 /\ a.heir = f
      /\ a.claim = "none" /\ ~ a.wait
  <2>1. f \in Nat /\ <<>> \in Seq(Slots \X Nat)
    BY Fields, <1>1
  <2> QED
    BY <1>3, <1>4, <2>1 DEF NewAct, ActRecs
<1>6. ASSUME NEW j \in Acts
      PROVE  /\ xs[j] \in ActRecs /\ xs[j].node = acts[j].node /\ xs[j].toks = acts[j].toks /\ xs[j].st = acts[j].st
             /\ xs[j].join = acts[j].join /\ xs[j].heir = acts[j].heir /\ xs[j].claim \in {acts[j].claim, "none"}
             /\ xs[j].wait => acts[j].wait
             /\ In(j, f) => xs[j].claim = "none"
  <2>1. acts[j] \in ActRecs
    BY <1>1, <1>6, ActsTyped
  <2>2. PICK x : x = [acts[j] EXCEPT !.claim = "none"]
    OBVIOUS
  <2>3. /\ x \in ActRecs /\ x.node = acts[j].node /\ x.toks = acts[j].toks /\ x.join = acts[j].join
        /\ x.heir = acts[j].heir /\ x.claim = "none" /\ (x.wait => acts[j].wait) /\ x.st = acts[j].st
    BY <2>1, <2>2 DEF ActRecs
  <2>4. xs[j] = IF In(j, f) THEN x ELSE acts[j]
    BY <1>6, <2>2
  <2> HIDE DEF xs
  <2> QED
    BY <2>1, <2>3, <2>4
<1>7. /\ xs \in Seq(ActRecs) /\ Len(xs) = Len(acts) /\ DOMAIN xs = Acts
      /\ Acts = 1..Len(acts) /\ Len(acts) \in Nat
  <2>1. Acts = 1..Len(acts) /\ Len(acts) \in Nat
    BY <1>1, ActsTyped
  <2>2. xs \in [1..Len(acts) -> ActRecs] /\ DOMAIN xs = Acts
    <3>1. DOMAIN xs = Acts /\ xs = [j \in Acts |-> xs[j]]
      OBVIOUS
    <3> HIDE DEF xs
    <3> QED
      BY <1>6, <2>1, <3>1
  <2> HIDE DEF xs
  <2> QED
    BY <2>1, <2>2, SequenceOf
<1> HIDE DEF xs, a
<1>8. /\ acts' \in Seq(ActRecs) /\ Len(acts') = Len(acts) + 1 /\ acts'[Len(acts) + 1] = a
      /\ \A j \in Acts : acts'[j] = xs[j]
  <2>1. PICK s \in Seq(ActRecs) : s = xs
    BY <1>7
  <2>2. PICK e \in ActRecs : e = a
    BY <1>5
  <2>3. /\ Append(s, e) \in Seq(ActRecs) /\ Len(Append(s, e)) = Len(s) + 1
        /\ \A j \in 1..Len(s) : Append(s, e)[j] = s[j]
        /\ Append(s, e)[Len(s) + 1] = e
    BY <2>1, <2>2, Extended
  <2>4. acts' = Append(s, e)
    BY <1>2, <2>1, <2>2
  <2> QED
    BY <1>7, <2>1, <2>2, <2>3, <2>4
<1>9. /\ forks' \in [Slots -> ForkRecs] /\ OtherForks(f) /\ forks'[f].st = "superseded"
      /\ forks'[f].arr = forks[f].arr /\ forks'[f].empty = forks[f].empty
  <2>1. forks[f] \in ForkRecs /\ forks \in [Slots -> ForkRecs]
    BY <1>1 DEF LedgerTypes
  <2> QED
    BY <1>1, <1>2, <2>1 DEF ForkRecs, OtherForks
<1>10. Keeps(1)
  <2>1. \A j \in 1..Len(acts') : acts'[j].wait \/ acts'[j].claim # "none" => acts'[j].toks # <<>>
    <3>1. ASSUME NEW j \in Acts, acts'[j].wait \/ acts'[j].claim # "none"
          PROVE  acts'[j].toks # <<>>
      <4>1. acts[j].wait \/ acts[j].claim # "none"
        BY <1>6, <1>8, <3>1
      <4>2. Branch(j)
        BY <1>1, <3>1, <4>1, ActsTyped
      <4> QED
        BY <1>6, <1>8, <3>1, <4>2 DEF Branch
    <3>2. \A j \in 1..Len(acts') : j \in Acts \/ j = Len(acts) + 1
      BY <1>7, <1>8
    <3>3. ~ a.wait /\ a.claim = "none"
      BY <1>5
    <3> QED
      BY <1>8, <3>1, <3>2, <3>3
  <2>2. \A j \in Acts : /\ acts'[j].node = acts[j].node /\ acts'[j].toks = acts[j].toks
                        /\ acts'[j].join = acts[j].join /\ acts'[j].heir = acts[j].heir
    BY <1>6, <1>8
  <2>3. 1 \in Nat /\ Len(acts') <= MaxActs /\ run'.plan = run.plan
    BY <1>2, <1>8 DEF Room
  <2> QED
    BY <1>1, <1>8, <1>9, <2>1, <2>2, <2>3, KeepsFrom
<1>11. ClaimsKept /\ (\A j \in Acts : acts'[j].st = acts[j].st) /\ \A j \in Gen(f) : acts'[j].claim = "none"
  <2>1. ClaimsKept /\ (\A j \in Acts : acts'[j].st = acts[j].st)
    BY <1>6, <1>8 DEF ClaimsKept
  <2>2. \A j \in Gen(f) : acts'[j].claim = "none"
    BY <1>6, <1>8 DEF Gen
  <2> QED
    BY <2>1, <2>2
<1> QED
  BY <1>4, <1>5, <1>8, <1>9, <1>10, <1>11 DEF RepairStep, Last

\* What a turn does to the ledger.
LEMMA TurnTaken ==
  ASSUME RunTypes, Ledger, WorkTypes, NEW i \in First, Turn(i)
  PROVE  run' \in RunRecs /\ PlainStep /\ ClaimsKept
<1>1. i \in Acts /\ Alive(i) /\ (acts[i].st = "running" => Decided(i)) /\ LedgerTypes /\ acts[i].node \in Names
  BY FirstFacts, Fields DEF Ledger
<1>2. /\ acts[i] \in ActRecs /\ (acts[i].wait \/ acts[i].claim # "none" => Branch(i)) /\ run \in RunRecs
      /\ Kind(i) \in {"end", "loop", "work"} => ~ Branch(i)
  <2>1. Kind(i) \in {"end", "loop", "work"} => Where[acts[i].node] = "none"
    BY <1>1, NodeFacts DEF Kind, Node
  <2>2. Branch(i) => acts[Token(i)[1]].node \in Names
    BY <1>1, Fields, Nesting DEF Ledger
  <2>3. Branch(i) => acts[Token(i)[1]].node # "none"
    BY <2>2, NodeFacts
  <2>4. Where[acts[i].node] = "none" => ~ Branch(i)
    BY <1>1, <2>3 DEF Ledger, Placed
  <2> QED
    BY <1>1, <2>1, <2>4, ActsTyped DEF RunTypes
<1>3. ASSUME NEW a \in ActRecs, acts' = [acts EXCEPT ![i] = a], forks' = forks, run' \in RunRecs,
             run'.plan = run.plan, a.node = acts[i].node, a.toks = acts[i].toks, a.join = acts[i].join,
             a.heir = acts[i].heir, a.claim = acts[i].claim, a.wait \/ a.claim # "none" => Branch(i),
             \/ a.st = acts[i].st
             \/ Alive(i) /\ a.st \in {"ready", "running", "paused"} /\ (a.st = "paused" => Kind(i) = "pause")
             \/ Alive(i) /\ ~ Branch(i) /\ a.st = "completed"
      PROVE  run' \in RunRecs /\ PlainStep /\ ClaimsKept
  <2>1. StayStep
    BY <1>1, <1>3, Touches
  <2>2. \A j \in Acts : acts'[j].claim = acts[j].claim
    BY <1>1, <1>3, ActsTyped
  <2> QED
    BY <1>3, <2>1, <2>2 DEF PlainStep, ClaimsKept
<1>4. ASSUME UNCHANGED <<acts, forks>>, run' \in RunRecs, run'.plan = run.plan
      PROVE  run' \in RunRecs /\ PlainStep /\ ClaimsKept
  BY <1>1, <1>4, Idle DEF PlainStep, ClaimsKept
<1>5. CASE Activates(i)
  <2>1. PICK a : a = [acts[i] EXCEPT !.st = "running"]
    OBVIOUS
  <2>2. a \in ActRecs /\ acts' = [acts EXCEPT ![i] = a] /\ forks' = forks /\ run' = run
    BY <1>1, <1>2, <1>5, <2>1 DEF Activates, ActRecs
  <2>3. /\ a.node = acts[i].node /\ a.toks = acts[i].toks /\ a.join = acts[i].join
        /\ a.heir = acts[i].heir /\ a.claim = acts[i].claim /\ a.wait = acts[i].wait /\ a.st = "running"
    BY <1>2, <2>1 DEF ActRecs
  <2> QED
    BY <1>1, <1>2, <1>3, <2>2, <2>3
<1>6. CASE ReachesNext(i)
  BY <1>1, <1>2, <1>6, FollowsTaken DEF ReachesNext, At, Labels, Outcomes
<1>7. CASE OpensFork(i)
  <2>1. PICK n, targets : n = Len(Node(i).branches) /\ targets = [b \in DOMAIN Node(i).branches |-> Node(i).branches[b].to]
    OBVIOUS
  <2>2. Kind(i) = "fork" /\ Opens(i, targets, "none")
    BY <1>7, <2>1 DEF OpensFork, At
  <2>3. /\ n \in Nat \ {0} /\ DOMAIN Node(i).branches = 1..n
        /\ \A b \in 1..n : LET t == Node(i).branches[b].to IN
             t \in Names /\ Where[t] = acts[i].node /\ Graph[t].kind # "join"
    <3>1. PICK m \in Names : m = acts[i].node
      BY <1>1
    <3>2. Graph[m].kind = "fork" /\ Node(i) = Graph[m]
      BY <2>2, <3>1 DEF Kind, Node
    <3>3. /\ Len(Graph[m].branches) \in Nat \ {0} /\ DOMAIN Graph[m].branches = 1..Len(Graph[m].branches)
          /\ \A b \in DOMAIN Graph[m].branches : LET t == Graph[m].branches[b].to IN
               t \in Names /\ Where[t] = m /\ Graph[t].kind # "join"
      BY <3>2, NodeFacts, Zenon
    <3> QED
      BY <2>1, <3>1, <3>2, <3>3
  <2>4. targets \in [1..n -> Names] /\ \A b \in 1..n : Where[targets[b]] = acts[i].node /\ Graph[targets[b]].kind # "join"
    BY <2>1, <2>3
  <2>5. "none" \in Settled /\ n \in Nat /\ ~ (n = 0) /\ Kind(i) \in {"fork", "foreach"}
    BY <2>2, <2>3 DEF Settled
  <2> QED
    BY <1>1, <2>2, <2>4, <2>5, OpeningTaken
<1>8. CASE Expands(i)
  <2>1. PICK n \in Node(i).sizes : Opens(i, [b \in 1..n |-> Node(i).body], Node(i).empty)
    BY <1>8 DEF Expands
  <2>2. PICK targets : targets = [b \in 1..n |-> Node(i).body]
    OBVIOUS
  <2>3. Kind(i) = "foreach"
    BY <1>8 DEF Expands, At
  <2>4. /\ n \in Nat /\ Node(i).body \in Names /\ Where[Node(i).body] = acts[i].node /\ Graph[Node(i).body].kind # "join"
        /\ Node(i).empty \in Outcomes
    BY <1>1, <2>1, <2>3, NodeFacts DEF Kind, Node
  <2>5. targets \in [1..n -> Names] /\ \A b \in 1..n : Where[targets[b]] = acts[i].node /\ Graph[targets[b]].kind # "join"
    BY <2>2, <2>4
  <2>6. Node(i).empty \in Settled /\ Kind(i) \in {"fork", "foreach"} /\ Opens(i, targets, Node(i).empty)
    BY <2>1, <2>2, <2>3, <2>4 DEF Settled
  <2> QED
    BY <1>1, <2>3, <2>4, <2>5, <2>6, OpeningTaken
<1>9. CASE PassesJoin(i)
  <2>1. PICK o : o = Outcome(acts[i].join)
    OBVIOUS
  <2>2. Kind(i) = "join" /\ Follows(i, o, o, run)
    BY <1>9, <2>1 DEF PassesJoin, At
  <2>3. o \in Outcomes /\ o \in Labels(Kind(i))
    BY <1>1, <2>1, <2>2, OutcomeKnown DEF Labels
  <2> QED
    BY <1>1, <1>2, <2>2, <2>3, FollowsTaken
<1>10. CASE PassesGate(i)
  <2>1. PICK o : o = Receipt(i)
    OBVIOUS
  <2>2. o \in {"pass", "fail"}
    <3>1. o \in {"none", "pass", "fail"}
      BY <2>1, ReceiptKnown DEF WorkTypes
    <3>2. o # "none"
      BY <1>1, <1>10, <2>1 DEF PassesGate, At, Decided, Worker
    <3> QED
      BY <3>1, <3>2
  <2>3. CASE Room(1)
    <3>1. PICK arrival : arrival = IF o = "pass" THEN "completed" ELSE "failed"
      OBVIOUS
    <3>2. Follows(i, o, arrival, run) /\ Kind(i) = "gate"
      BY <1>10, <2>1, <2>3, <3>1 DEF PassesGate, At
    <3>3. o \in Labels(Kind(i)) /\ arrival \in Outcomes
      BY <2>2, <3>1, <3>2 DEF Labels, Outcomes
    <3> QED
      BY <1>1, <1>2, <3>2, <3>3, FollowsTaken
  <2>4. CASE ~ Room(1)
    <3>1. Fails("asleep") /\ UNCHANGED <<acts, forks>>
      BY <1>10, <2>4 DEF PassesGate
    <3> QED
      BY <1>1, <3>1, FailsStays
  <2> QED
    BY <2>3, <2>4
<1>11. CASE Loops(i)
  <2>1. PICK again \in BOOLEAN : again = (repeats[acts[i].node] < Graph[acts[i].node].max /\ run.loops < MaxLoops)
    OBVIOUS
  <2>2. PICK r : r = IF again THEN [run EXCEPT !.loops = @ + 1] ELSE run
    OBVIOUS
  <2>3. PICK label : label = IF again THEN "repeat" ELSE "exhausted"
    OBVIOUS
  <2>4. Kind(i) = "loop" /\ Follows(i, label, "completed", r)
    BY <1>11, <2>1, <2>2, <2>3 DEF Loops, At
  <2>5. r \in RunRecs /\ r.plan = run.plan
    BY <1>2, <2>1, <2>2, RunFields
  <2>6. label \in Labels(Kind(i)) /\ "completed" \in Outcomes
    BY <2>3, <2>4 DEF Labels, Outcomes
  <2> QED
    BY <1>1, <2>4, <2>5, <2>6, FollowsTaken
<1>12. CASE Holds(i)
  <2>1. PICK a : a = [acts[i] EXCEPT !.st = "paused"]
    OBVIOUS
  <2>2. a \in ActRecs /\ acts' = [acts EXCEPT ![i] = a] /\ forks' = forks /\ run' = [run EXCEPT !.status = "paused"] /\ Kind(i) = "pause"
    BY <1>1, <1>2, <1>12, <2>1 DEF Holds, At, ActRecs
  <2>3. /\ a.node = acts[i].node /\ a.toks = acts[i].toks /\ a.join = acts[i].join
        /\ a.heir = acts[i].heir /\ a.claim = acts[i].claim /\ a.wait = acts[i].wait /\ a.st = "paused"
    BY <1>2, <2>1 DEF ActRecs
  <2>4. run' \in RunRecs /\ run'.plan = run.plan
    BY <2>2, RunFields
  <2> QED
    BY <1>1, <1>2, <1>3, <2>2, <2>3, <2>4
<1>13. CASE Ends(i)
  <2>1. PICK a : a = [acts[i] EXCEPT !.st = "completed"]
    OBVIOUS
  <2>2. a \in ActRecs /\ acts' = [acts EXCEPT ![i] = a] /\ forks' = forks /\ run' = run /\ Kind(i) = "end"
    BY <1>1, <1>2, <1>13, <2>1 DEF Ends, At, ActRecs
  <2>3. /\ a.node = acts[i].node /\ a.toks = acts[i].toks /\ a.join = acts[i].join
        /\ a.heir = acts[i].heir /\ a.claim = acts[i].claim /\ a.wait = acts[i].wait /\ a.st = "completed"
    BY <1>2, <2>1 DEF ActRecs
  <2> QED
    BY <1>1, <1>2, <1>3, <2>2, <2>3
<1>14. CASE MarksWait(i)
  <2>1. PICK a : a = [acts[i] EXCEPT !.wait = ~ @]
    OBVIOUS
  <2>2. a \in ActRecs /\ acts' = [acts EXCEPT ![i] = a] /\ forks' = forks /\ run' = run /\ Branch(i)
    BY <1>1, <1>2, <1>14, <2>1 DEF MarksWait, ActRecs
  <2>3. /\ a.node = acts[i].node /\ a.toks = acts[i].toks /\ a.join = acts[i].join
        /\ a.heir = acts[i].heir /\ a.claim = acts[i].claim /\ a.st = acts[i].st
    BY <1>2, <2>1 DEF ActRecs
  <2> QED
    BY <1>1, <1>2, <1>3, <2>2, <2>3
<1>15. CASE StartsAttempt(i)
  BY <1>2, <1>4, <1>15 DEF StartsAttempt, graph
<1>16. CASE SupersedesFork(i)
  BY <1>1, <1>16, SupersedeTaken
<1>17. CASE RefusesRepair(i)
  <2>1. Fails("asleep") /\ UNCHANGED <<acts, forks>>
    BY <1>17 DEF RefusesRepair, graph
  <2> QED
    BY <1>1, <2>1, FailsStays
<1>18. CASE BranchFails(i)
  BY <1>1, <1>2, <1>18, ArrivalTaken DEF BranchFails, Outcomes
<1>19. CASE PausesIncomplete(i)
  <2>1. run' = [run EXCEPT !.status = "paused"] /\ UNCHANGED <<acts, forks>>
    BY <1>19 DEF PausesIncomplete, graph
  <2> QED
    BY <1>4, <2>1, RunFields
<1>20. CASE CompletesAgent(i)
  <2>1. Kind(i) \in {"work", "agent"} /\ Follows(i, "next", "completed", run)
    BY <1>20 DEF CompletesAgent, AtAgent, Worker
  <2>2. "next" \in Labels(Kind(i)) /\ "completed" \in Outcomes
    BY <2>1 DEF Labels, Outcomes
  <2> QED
    BY <1>1, <1>2, <2>1, <2>2, FollowsTaken
<1> QED
  BY <1>5, <1>6, <1>7, <1>8, <1>9, <1>10, <1>11, <1>12, <1>13, <1>14, <1>15, <1>16, <1>17, <1>18, <1>19, <1>20 DEF Turn

-----------------------------------------------------------------------------
(* Agents, launches and checks. *)

\* What an action may do to the work while the ledger takes a step.  Nothing of a region that
\* is over comes back to work; and the actor's snapshot stays the latest only while nothing moves.
Tame ==
  \A j \in Acts : ~ Alive(j) /\ ~ Live(j) /\ acts[j].claim = "none" => ~ Live(j)' /\ acts'[j].claim = "none"
Still ==
  View \in fresh' /\ actor'.pc = "stopping" =>
    View \in fresh /\ acts' = acts /\ forks' = forks /\ actor' = actor /\ \A j \in Acts : Live(j)' => Live(j)

\* A step without a repair has no new heir.
LEMMA NoHeir ==
  ASSUME RunTypes, Ledger, PlainStep
  PROVE  /\ \A n \in Acts' \ Acts : acts'[n].heir = 0
         /\ \A j \in Acts : acts'[j].heir = acts[j].heir
<1>1. Len(acts) \in Nat /\ LedgerTypes
  BY Fields DEF Ledger
<1>2. CASE StayStep
  <2>1. 0 \in Nat /\ Keeps(0)
    BY <1>2 DEF StayStep
  <2>2. Acts' \ Acts = (Len(acts) + 1)..(Len(acts) + 0)
    BY <1>1, <2>1, ActsAfter
  <2> QED
    BY <1>1, <2>1, <2>2 DEF Keeps
<1>3. ASSUME NEW i \in Acts, EdgeStep(i) \/ EmptyStep(i)
      PROVE  /\ \A n \in Acts' \ Acts : acts'[n].heir = 0
             /\ \A j \in Acts : acts'[j].heir = acts[j].heir
  <2>1. 1 \in Nat /\ Keeps(1) /\ acts'[Last].heir = 0
    BY <1>3 DEF EdgeStep, EmptyStep, Passes
  <2>2. Acts' \ Acts = (Len(acts) + 1)..(Len(acts) + 1)
    BY <1>1, <2>1, ActsAfter
  <2> QED
    BY <1>1, <2>1, <2>2 DEF Keeps, Last
<1>4. ASSUME NEW i \in Acts, OpenStep(i)
      PROVE  /\ \A n \in Acts' \ Acts : acts'[n].heir = 0
             /\ \A j \in Acts : acts'[j].heir = acts[j].heir
  <2>1. PICK n \in Nat \ {0} : Keeps(n) /\ \A b \in 1..n : acts'[Len(acts) + b].heir = 0
    BY <1>4 DEF OpenStep
  <2>2. Acts' \ Acts = (Len(acts) + 1)..(Len(acts) + n)
    BY <1>1, <2>1, ActsAfter
  <2>3. ASSUME NEW m \in (Len(acts) + 1)..(Len(acts) + n)
        PROVE  m - Len(acts) \in 1..n /\ m = Len(acts) + (m - Len(acts))
    BY <1>1, <2>3
  <2> QED
    BY <1>1, <2>1, <2>2, <2>3 DEF Keeps
<1>5. ASSUME NEW i \in Acts, NEW f \in Acts, NEW b \in Nat, ArriveStep(i, f, b)
      PROVE  /\ \A n \in Acts' \ Acts : acts'[n].heir = 0
             /\ \A j \in Acts : acts'[j].heir = acts[j].heir
  <2>1. 0 \in Nat /\ Keeps(0)
    BY <1>5 DEF ArriveStep
  <2>2. Acts' \ Acts = (Len(acts) + 1)..(Len(acts) + 0)
    BY <1>1, <2>1, ActsAfter
  <2> QED
    BY <1>1, <2>1, <2>2 DEF Keeps
<1>6. ASSUME NEW i \in Acts, NEW f \in Acts, NEW b \in Nat, JoinStep(i, f, b)
      PROVE  /\ \A n \in Acts' \ Acts : acts'[n].heir = 0
             /\ \A j \in Acts : acts'[j].heir = acts[j].heir
  <2>1. 1 \in Nat /\ Keeps(1) /\ acts'[Last].heir = 0
    BY <1>6 DEF JoinStep
  <2>2. Acts' \ Acts = (Len(acts) + 1)..(Len(acts) + 1)
    BY <1>1, <2>1, ActsAfter
  <2> QED
    BY <1>1, <2>1, <2>2 DEF Keeps, Last
<1>7. ASSUME NEW f \in Acts, SupersedeStep(f)
      PROVE  /\ \A n \in Acts' \ Acts : acts'[n].heir = 0
             /\ \A j \in Acts : acts'[j].heir = acts[j].heir
  <2>1. 0 \in Nat /\ Keeps(0)
    BY <1>7 DEF SupersedeStep
  <2>2. Acts' \ Acts = (Len(acts) + 1)..(Len(acts) + 0)
    BY <1>1, <2>1, ActsAfter
  <2> QED
    BY <1>1, <2>1, <2>2 DEF Keeps
<1> QED
  BY <1>2, <1>3, <1>4, <1>5, <1>6, <1>7 DEF PlainStep

\* A generation that is over, or about to be, has nothing alive in it.
LEMMA GenerationIsOver ==
  ASSUME RunTypes, Ledger, NEW f \in Slots, forks[f].st \in {"cancelling", "superseded"}, NEW j \in Gen(f)
  PROVE  j \in Acts /\ ~ Alive(j)
<1>1. j \in Acts /\ In(j, f) /\ LedgerTypes /\ Placed /\ Enclosed
  BY DEF Gen, Ledger
<1>2. PICK k \in 1..Len(Toks(j)) : Toks(j)[k][1] = f
  BY <1>1, Nesting
<1> QED
  BY <1>1, <1>2 DEF Enclosed, Runs

\* The fences stand through a plain step.
LEMMA FencedKept ==
  ASSUME RunTypes, Ledger, Fenced, run' \in RunRecs, PlainStep, Tame, Still
  PROVE  Fenced'
<1>1. LedgerTypes /\ Placed /\ Rooted /\ Enclosed /\ Succeeded /\ Acts \subseteq Slots
  BY Fields DEF Ledger
<1>2. Grows
  BY LedgerKept DEF LedgerStep
<1>3. ASSUME actor'.pc = "stopping", View \in fresh', NEW f, f = actor'.at
      PROVE  f \in Acts' /\ forks'[f].st = "cancelling" /\ \A j \in Gen(f)' : ~ Live(j)'
  <2>1. /\ View \in fresh /\ acts' = acts /\ forks' = forks /\ actor' = actor
        /\ \A j \in Acts : Live(j)' => Live(j)
    BY <1>3 DEF Still
  <2>2. f \in Acts /\ forks[f].st = "cancelling" /\ \A j \in Gen(f) : ~ Live(j)
    BY <1>3, <2>1 DEF Fenced
  <2>3. Acts' = Acts /\ Gen(f)' = Gen(f)
    BY <2>1 DEF Acts, Gen, In
  <2> QED
    BY <2>1, <2>2, <2>3 DEF Gen
<1>4. ASSUME NEW i \in Acts', NEW f, f = acts'[i].heir, f # 0
      PROVE  \A j \in Gen(f)' : ~ Live(j)' /\ acts'[j].claim = "none"
  <2>1. i \in Acts /\ acts[i].heir = f
    BY <1>4, NoHeir
  <2>2. f \in Slots /\ forks[f].st = "superseded" /\ \A j \in Gen(f) : ~ Live(j) /\ acts[j].claim = "none"
    BY <1>1, <1>4, <2>1 DEF Fenced, Succeeded
  <2>3. Gen(f)' = Gen(f)
    BY <1>1, <1>2, <2>2, GenerationIsClosed
  <2>4. \A j \in Gen(f) : ~ Live(j)' /\ acts'[j].claim = "none"
    BY <2>2, GenerationIsOver DEF Tame
  <2> QED
    BY <2>3, <2>4
<1> QED
  BY <1>3, <1>4 DEF Fenced

\* A repair is reached when nothing of its generation works, so that this fence stands from then on.
LEMMA FencedByRepair ==
  ASSUME RunTypes, Ledger, Fenced, run' \in RunRecs, NEW f \in Acts, RepairStep(f), fresh' = {},
         UNCHANGED <<proc, lau, chk>>, \A j \in Gen(f) : ~ Live(j)
  PROVE  Fenced'
<1>1. LedgerTypes /\ Placed /\ Rooted /\ Enclosed /\ Succeeded /\ Acts \subseteq Slots
  BY Fields DEF Ledger
<1>2. Grows /\ 1 \in Nat /\ Keeps(1) /\ ClaimsKept /\ acts'[Last].heir = f /\ \A j \in Gen(f) : acts'[j].claim = "none"
  BY LedgerKept DEF LedgerStep, RepairStep
<1>3. ASSUME NEW i \in Acts', NEW g, g = acts'[i].heir, g # 0
      PROVE  /\ g \in Slots /\ forks[g].st \in {"cancelling", "superseded"}
             /\ \A j \in Gen(g) : ~ Live(j) /\ acts'[j].claim = "none"
  <2>1. CASE i \in Acts
    <3>1. g = acts[i].heir
      BY <1>2, <1>3, <2>1 DEF Keeps
    <3>2. g \in Slots /\ forks[g].st = "superseded" /\ \A j \in Gen(g) : ~ Live(j) /\ acts[j].claim = "none"
      BY <1>1, <1>3, <2>1, <3>1 DEF Fenced, Succeeded
    <3> QED
      BY <1>2, <3>2 DEF ClaimsKept, Gen
  <2>2. CASE i \notin Acts
    <3>1. Acts' \ Acts = (Len(acts) + 1)..(Len(acts) + 1) /\ Len(acts) \in Nat
      BY <1>1, <1>2, ActsAfter, Fields
    <3>2. g = f
      BY <1>2, <1>3, <2>2, <3>1 DEF Last
    <3> QED
      BY <1>1, <1>2, <3>2 DEF RepairStep
  <2> QED
    BY <2>1, <2>2
<1>4. ASSUME NEW i \in Acts', NEW g, g = acts'[i].heir, g # 0
      PROVE  \A j \in Gen(g)' : ~ Live(j)' /\ acts'[j].claim = "none"
  <2>1. Gen(g)' = Gen(g)
    BY <1>1, <1>2, <1>3, <1>4, GenerationIsClosed
  <2> QED
    BY <1>3, <1>4, <2>1 DEF Live
<1> QED
  BY <1>4 DEF Fenced

\* A step of the work that leaves the regions standing.
LEMMA Standing ==
  ASSUME WgInv, run' \in RunRecs, PlainStep, Tame, Still, WorkTypes', Launching'
  PROVE  WgInv'
<1>1. RunTypes'
  BY DEF RunTypes
<1>2. Ledger'
  BY LedgerKept DEF LedgerStep, WgInv
<1>3. Fenced'
  BY FencedKept DEF WgInv
<1> QED
  BY <1>1, <1>2, <1>3 DEF WgInv

\* A step of the ledger keeps the plan.
LEMMA SamePlan ==
  ASSUME PlainStep
  PROVE  run'.plan = run.plan
  BY DEF PlainStep, StayStep, EdgeStep, EmptyStep, OpenStep, ArriveStep, JoinStep, SupersedeStep, Passes, Keeps

LEMMA WorkTyped ==
  ASSUME run'.plan = run.plan, att' \in [Slots -> AttRecs], chk' \in [Slots -> ChkRecs],
         eff' \in [Slots -> {"none", "intended", "succeeded", "failed", "uncertain"}],
         lau' \in [Slots -> {"none", "check", "spawn", "bind"}],
         proc' \in [Slots -> {"none", "live", "gone", "dead", "lost"}],
         checks' \in Seq(Bindings), repeats' \in [Names -> Nat], actor' \in ActorRecs
  PROVE  WorkTypes'
<1>1. Names' = Names
  BY PlanKept
<1> QED
  BY <1>1, Zenon DEF WorkTypes

\* The actor, woken or sent elsewhere.
LEMMA ActorMoved ==
  ASSUME actor \in ActorRecs
  PROVE  /\ \A pc \in {"turn", "asleep", "driving", "stopping"} :
              [actor EXCEPT !.pc = pc] \in ActorRecs /\ [actor EXCEPT !.pc = pc].pc = pc
         /\ Awake \in ActorRecs /\ (Awake.pc = "stopping" => Awake = actor)
         /\ [Awake EXCEPT !.pc = "turn"] \in ActorRecs /\ [Awake EXCEPT !.pc = Awake.pc] \in ActorRecs
<1>1. actor = [pc |-> actor.pc, at |-> actor.at] /\ actor.at \in Slots /\ actor.pc \in {"turn", "asleep", "driving", "stopping"}
  BY DEF ActorRecs
<1>2. \A pc \in {"turn", "asleep", "driving", "stopping"} :
              [actor EXCEPT !.pc = pc] \in ActorRecs /\ [actor EXCEPT !.pc = pc].pc = pc
  BY DEF ActorRecs
<1>3. Awake = [pc |-> IF actor.pc = "asleep" THEN "turn" ELSE actor.pc, at |-> actor.at]
  BY <1>1 DEF Awake
<1>4. Awake \in ActorRecs
  BY <1>1, <1>3 DEF ActorRecs
<1>5. Awake.pc = "stopping" => Awake = actor
  BY <1>1, <1>3
<1> HIDE DEF Awake
<1>6. [Awake EXCEPT !.pc = "turn"] \in ActorRecs /\ [Awake EXCEPT !.pc = Awake.pc] \in ActorRecs
  BY <1>4 DEF ActorRecs
<1> QED
  BY <1>2, <1>4, <1>5, <1>6

\* A step that leaves launches, agents and checks as they are.
LEMMA Quietly ==
  ASSUME WgInv, run' \in RunRecs, PlainStep, ClaimsKept, Still, UNCHANGED <<eff, lau, proc, chk>>,
         checks' \in Seq(Bindings), repeats' \in [Names -> Nat], actor' \in ActorRecs, att' \in [Slots -> AttRecs],
         \A j \in Slots : att'[j].bound = att[j].bound /\ (att[j].st # "none" => att'[j].st # "none")
  PROVE  WgInv'
<1>1. WorkTypes /\ Launching
  BY DEF WgInv
<1>2. WorkTypes'
  BY <1>1, SamePlan, WorkTyped DEF WorkTypes
<1>3. Launching'
  BY <1>1 DEF Launching, Slots
<1>4. Tame
  BY DEF Tame, Live, ClaimsKept
<1> QED
  BY <1>2, <1>3, <1>4, Standing

\* A turn moves the ledger and the attempts, and no agent, launch or check.
LEMMA TurnWork ==
  ASSUME WgInv, NEW i \in First, Turn(i)
  PROVE  /\ fresh' = {} /\ UNCHANGED <<eff, lau, proc, chk, checks>> /\ actor' \in ActorRecs
         /\ repeats' \in [Names -> Nat] /\ att' \in [Slots -> AttRecs]
         /\ \A j \in Slots : att'[j].bound = att[j].bound /\ (att[j].st # "none" => att'[j].st # "none")
<1>1. /\ RunTypes /\ Ledger /\ WorkTypes /\ Launching /\ i \in Acts /\ i \in Slots /\ Acts \subseteq Slots
      /\ acts[i].node \in Names
  BY FirstFacts, Fields DEF WgInv, Ledger
<1>2. /\ att \in [Slots -> AttRecs] /\ repeats \in [Names -> Nat] /\ actor \in ActorRecs /\ Awake \in ActorRecs
      /\ [actor EXCEPT !.pc = "asleep"] \in ActorRecs
  BY <1>1, ActorMoved DEF WorkTypes
<1>3. ASSUME NEW rs, NEW fs, NEW r, Commits(rs, fs, r)
      PROVE  fresh' = {} /\ actor' \in ActorRecs
  BY <1>2, <1>3 DEF Commits, Moves, Fails
<1>4. ASSUME NEW rs, NEW fs, NEW f, NEW r, Released(rs, fs, f, r)
      PROVE  fresh' = {} /\ actor' \in ActorRecs
  BY <1>3, <1>4, Zenon DEF Released
<1>5. ASSUME NEW o, NEW r, Arrives(i, o, r)
      PROVE  fresh' = {} /\ actor' \in ActorRecs
  BY <1>4, <1>5, Zenon DEF Arrives
<1>6. ASSUME NEW l, NEW o, NEW r, Follows(i, l, o, r)
      PROVE  fresh' = {} /\ actor' \in ActorRecs
  BY <1>3, <1>5, <1>6, Zenon DEF Follows
<1>7. ASSUME NEW ts, NEW e, Opens(i, ts, e)
      PROVE  fresh' = {} /\ actor' \in ActorRecs
  <2>1. Fails("asleep") => fresh' = {} /\ actor' \in ActorRecs
    BY <1>2 DEF Fails, Moves
  <2> QED
    BY <1>4, <1>7, <2>1, Zenon DEF Opens
<1>8. ASSUME Quiet, repeats' = repeats, checks' = checks, fresh' = {}, actor' \in ActorRecs
      PROVE  /\ fresh' = {} /\ UNCHANGED <<eff, lau, proc, chk, checks>> /\ actor' \in ActorRecs
             /\ repeats' \in [Names -> Nat] /\ att' \in [Slots -> AttRecs]
             /\ \A j \in Slots : att'[j].bound = att[j].bound /\ (att[j].st # "none" => att'[j].st # "none")
  BY <1>2, <1>8 DEF Quiet, work
<1>9. CASE Activates(i) \/ Holds(i) \/ Ends(i) \/ MarksWait(i)
  BY <1>2, <1>8, <1>9 DEF Activates, Holds, Ends, MarksWait, Moves
<1>10. CASE ReachesNext(i) \/ PassesJoin(i) \/ CompletesAgent(i)
  <2>1. \E l, o : Follows(i, l, o, run)
    BY <1>10, Zenon DEF ReachesNext, PassesJoin, CompletesAgent
  <2>2. fresh' = {} /\ actor' \in ActorRecs
    BY <1>6, <2>1
  <2> QED
    BY <1>8, <1>10, <2>2 DEF ReachesNext, PassesJoin, CompletesAgent
<1>11. CASE OpensFork(i) \/ Expands(i)
  <2>1. \E ts, e : Opens(i, ts, e)
    BY <1>11, Zenon DEF OpensFork, Expands
  <2>2. fresh' = {} /\ actor' \in ActorRecs
    BY <1>7, <2>1
  <2> QED
    BY <1>8, <1>11, <2>2 DEF OpensFork, Expands
<1>12. CASE PassesGate(i)
  <2>1. Fails("asleep") \/ \E l, o : Follows(i, l, o, run)
    BY <1>12, Zenon DEF PassesGate
  <2>2. fresh' = {} /\ actor' \in ActorRecs
    BY <1>2, <1>6, <2>1 DEF Fails, Moves
  <2> QED
    BY <1>8, <1>12, <2>2 DEF PassesGate
<1>13. CASE Loops(i)
  <2>1. \E l, o, r : Follows(i, l, o, r)
    BY <1>13, Zenon DEF Loops
  <2>2. fresh' = {} /\ actor' \in ActorRecs
    BY <1>6, <2>1
  <2>3. repeats' = repeats \/ repeats' = [repeats EXCEPT ![acts[i].node] = @ + 1]
    BY <1>13 DEF Loops
  <2>4. repeats' \in [Names -> Nat]
    BY <1>1, <1>2, <2>3
  <2>5. Quiet /\ checks' = checks
    BY <1>13 DEF Loops
  <2> QED
    BY <1>2, <2>2, <2>4, <2>5 DEF Quiet, work
<1>14. CASE StartsAttempt(i)
  <2>1. PICK x : x = [st |-> "running", out |-> "none", bound |-> FALSE]
    OBVIOUS
  <2>2. x \in AttRecs /\ x.st = "running" /\ x.bound = FALSE
    BY <2>1 DEF AttRecs
  <2>3. att' = [att EXCEPT ![i] = x] /\ att[i].st = "none"
    BY <1>14, <2>1 DEF StartsAttempt, AtAgent
  <2>4. att[i].bound = FALSE
    BY <1>1, <1>2, <2>3 DEF Launching, AttRecs
  <2> QED
    BY <1>1, <1>2, <1>14, <2>2, <2>3, <2>4 DEF StartsAttempt, Moves, graph
<1>15. CASE SupersedesFork(i)
  <2>1. PICK S : S = {j \in Slots : j \in Gen(Highest(Repairable(i))) /\ att[j].st = "running"}
    OBVIOUS
  <2>2. att' = [j \in Slots |-> IF j \in S THEN [att[j] EXCEPT !.st = "interrupted", !.out = "interrupted"] ELSE att[j]]
    BY <1>15, <2>1 DEF SupersedesFork
  <2>3. ASSUME NEW j \in Slots
        PROVE  /\ att'[j] \in AttRecs /\ att'[j].bound = att[j].bound /\ (att[j].st # "none" => att'[j].st # "none")
    BY <1>2, <2>2 DEF AttRecs
  <2>4. att' \in [Slots -> AttRecs]
    BY <2>2, <2>3
  <2> QED
    BY <1>2, <1>15, <2>3, <2>4 DEF SupersedesFork, Moves
<1>16. CASE RefusesRepair(i)
  BY <1>2, <1>16 DEF RefusesRepair, Fails, Moves, graph, work
<1>17. CASE BranchFails(i)
  <2>1. Arrives(i, "failed", run) /\ Quiet /\ UNCHANGED <<checks, repeats>>
    BY <1>17 DEF BranchFails
  <2> QED
    BY <1>5, <1>8, <2>1
<1>18. CASE PausesIncomplete(i)
  BY <1>2, <1>18 DEF PausesIncomplete, Moves, graph, work
<1> QED
  BY <1>9, <1>10, <1>11, <1>12, <1>13, <1>14, <1>15, <1>16, <1>17, <1>18 DEF Turn

LEMMA TurnKeeps ==
  ASSUME WgInv, NEW i \in First, Turn(i)
  PROVE  WgInv'
<1>1. run' \in RunRecs /\ PlainStep /\ ClaimsKept
  BY TurnTaken DEF WgInv
<1>2. checks' \in Seq(Bindings) /\ Still
  BY TurnWork DEF WgInv, WorkTypes, Still
<1> QED
  BY <1>1, <1>2, TurnWork, Quietly

\* A step of the work alone.
LEMMA IdleKept ==
  ASSUME WgInv, UNCHANGED <<acts, forks>>, run' = run \/ \E s \in {"running", "paused", "cancelled"} : run' = [run EXCEPT !.status = s]
                                           \/ \E o \in {"none", "pass", "fail"} : run' = [run EXCEPT !.receipt = o]
  PROVE  run' \in RunRecs /\ run'.plan = run.plan /\ PlainStep /\ ClaimsKept
<1>1. RunTypes /\ LedgerTypes
  BY DEF WgInv, Ledger
<1>2. run' \in RunRecs /\ run'.plan = run.plan
  BY <1>1, RunFields DEF RunTypes
<1> QED
  BY <1>1, <1>2, Idle DEF PlainStep, ClaimsKept

\* Without a move of the ledger, an attempt or a launch.
LEMMA IdleQuietly ==
  ASSUME WgInv, UNCHANGED <<graph, work, chk>>, Still, actor' \in ActorRecs,
         run' = run \/ (\E s \in {"running", "paused", "cancelled"} : run' = [run EXCEPT !.status = s])
                    \/ \E o \in {"none", "pass", "fail"} : run' = [run EXCEPT !.receipt = o]
  PROVE  WgInv'
<1>1. run' \in RunRecs /\ PlainStep /\ ClaimsKept
  BY IdleKept DEF graph
<1>2. checks' \in Seq(Bindings) /\ repeats' \in [Names -> Nat] /\ att' \in [Slots -> AttRecs] /\ att' = att
  BY DEF WgInv, WorkTypes, graph, work
<1> QED
  BY <1>1, <1>2, Quietly DEF work

\* What works for an activation changes, and nothing works that did not, unless the
\* activation is alive.
LEMMA WorkKept ==
  ASSUME WgInv, run' \in RunRecs, PlainStep,
         WorkTypes', Launching', Still,
         \A j \in Acts : Live(j)' => Live(j) \/ Alive(j) \/ acts[j].claim # "none",
         \A j \in Acts : acts[j].claim = "none" /\ ~ Alive(j) => acts'[j].claim = "none"
  PROVE  WgInv'
<1>1. Tame
  BY DEF Tame
<1> QED
  BY <1>1, Standing

LEMMA DriveKeeps ==
  ASSUME WgInv, NEW i \in Effect, Drives(i)
  PROVE  WgInv'
<1>1. /\ RunTypes /\ Ledger /\ LedgerTypes /\ WorkTypes /\ Launching /\ i \in Acts /\ i \in Slots /\ Alive(i)
      /\ acts[i] \in ActRecs /\ i # View /\ actor.pc = "turn"
  BY EffectFacts, Fields, ActsTyped DEF WgInv, Ledger, Alive, View
<1>2. actor \in ActorRecs /\ \A pc \in {"turn", "asleep"} : [actor EXCEPT !.pc = pc] \in ActorRecs
  BY <1>1, ActorMoved DEF WorkTypes
<1>3. CASE Reserves(i)
  <2>1. PICK x : x = [pc |-> "driving", at |-> i]
    OBVIOUS
  <2>2. x \in ActorRecs
    BY <1>1, <2>1 DEF ActorRecs
  <2>3. /\ UNCHANGED <<run, acts, forks, checks, repeats, att, proc, chk>> /\ fresh' = {} /\ actor' = x
        /\ eff' = [eff EXCEPT ![i] = "intended"] /\ lau' = [lau EXCEPT ![i] = "check"] /\ ~ att[i].bound
    BY <1>3, <2>1 DEF Reserves, NeedsAgent, Moves, graph
  <2>4. run' \in RunRecs /\ run'.plan = run.plan /\ PlainStep /\ ClaimsKept
    BY <2>3, IdleKept
  <2>5. WorkTypes'
    BY <1>1, <2>2, <2>3, <2>4, WorkTyped DEF WorkTypes
  <2>6. Launching'
    <3>1. /\ eff'[i] = "intended" /\ lau'[i] = "check" /\ proc' = proc /\ att' = att
          /\ \A j \in Slots \ {i} : eff'[j] = eff[j] /\ lau'[j] = lau[j]
      BY <1>1, <2>3 DEF WorkTypes
    <3>2. proc[i] # "live"  \/ lau[i] # "none"
      BY <1>1, <2>3 DEF Launching
    <3>3. eff[i] = "none"
      BY <1>3 DEF Reserves
    <3> QED
      BY <1>1, <2>3, <3>1, <3>2, <3>3 DEF Launching, Slots
  <2>7. \A j \in Acts : Live(j)' => Live(j) \/ j = i
    BY <1>1, <2>3 DEF Live, WorkTypes
  <2> QED
    BY <1>1, <2>3, <2>4, <2>5, <2>6, <2>7, WorkKept DEF Still
<1>4. CASE RefusesSpawn(i)
  BY <1>2, <1>4, IdleQuietly DEF RefusesSpawn, Fails, Moves, Still
<1>5. CASE WaitsToCheck(i)
  <2>1. PICK a : a = [acts[i] EXCEPT !.wait = TRUE]
    OBVIOUS
  <2>2. /\ a \in ActRecs /\ acts' = [acts EXCEPT ![i] = a] /\ UNCHANGED <<run, forks, checks, repeats, actor, work, chk>>
        /\ fresh' = {} /\ Branch(i)
    BY <1>1, <1>5, <2>1 DEF WaitsToCheck, ActRecs, Quiet, Moves
  <2>3. /\ a.node = acts[i].node /\ a.toks = acts[i].toks /\ a.join = acts[i].join
        /\ a.heir = acts[i].heir /\ a.claim = acts[i].claim /\ a.st = acts[i].st
    BY <1>1, <2>1 DEF ActRecs
  <2>4. StayStep
    BY <1>1, <2>2, <2>3, Touches
  <2>5. ClaimsKept
    BY <1>1, <2>2, <2>3, ActsTyped DEF ClaimsKept
  <2>6. run' \in RunRecs /\ PlainStep /\ Still
    BY <1>1, <2>2, <2>4 DEF RunTypes, PlainStep, Still
  <2> QED
    BY <1>1, <2>2, <2>5, <2>6, Quietly DEF WorkTypes, work
<1>6. CASE ClaimsCheck(i)
  <2>1. PICK a, c : a = [acts[i] EXCEPT !.claim = "mine", !.wait = FALSE] /\ c = [at |-> "exec", out |-> "none", res |-> "ok"]
    OBVIOUS
  <2>2. /\ a \in ActRecs /\ acts' = [acts EXCEPT ![i] = a] /\ UNCHANGED <<run, forks, checks, repeats, work, actor>>
        /\ fresh' = {i} /\ Branch(i) /\ chk' = [chk EXCEPT ![i] = c]
    BY <1>1, <1>6, <2>1 DEF ClaimsCheck, ActRecs
  <2>3. /\ a.node = acts[i].node /\ a.toks = acts[i].toks /\ a.join = acts[i].join
        /\ a.heir = acts[i].heir /\ a.st = acts[i].st
    BY <1>1, <2>1 DEF ActRecs
  <2>4. StayStep
    BY <1>1, <2>2, <2>3, Touches
  <2>5. run' \in RunRecs /\ run'.plan = run.plan /\ PlainStep /\ Still
    BY <1>1, <2>2, <2>4 DEF RunTypes, PlainStep, Still
  <2>6. c \in ChkRecs
    BY <2>1 DEF ChkRecs
  <2>7. WorkTypes'
    BY <1>1, <2>2, <2>5, <2>6, WorkTyped DEF WorkTypes, work
  <2>8. Launching'
    BY <1>1, <2>2 DEF Launching, Slots, work
  <2>9. \A j \in Acts \ {i} : acts'[j] = acts[j] /\ chk'[j] = chk[j]
    BY <1>1, <2>2, ActsTyped DEF WorkTypes
  <2>10. \A j \in Acts : Live(j)' => Live(j) \/ j = i
    BY <2>2, <2>9 DEF Live, work
  <2> QED
    BY <1>1, <2>5, <2>7, <2>8, <2>9, <2>10, WorkKept
<1>7. CASE RunsCheck(i)
  <2>1. PICK o \in {"pass", "fail"} : /\ run' = [run EXCEPT !.receipt = o] /\ fresh' = {}
                                     /\ UNCHANGED <<graph, work, chk, actor>>
    BY <1>7 DEF RunsCheck, Moves
  <2>2. o \in {"none", "pass", "fail"} /\ Still /\ actor' \in ActorRecs
    BY <1>2, <2>1 DEF Still
  <2> QED
    BY <2>1, <2>2, IdleQuietly
<1> QED
  BY <1>3, <1>4, <1>5, <1>6, <1>7 DEF Drives

\* The operator, the timer, and the actor that has nothing to do.
LEMMA OthersKeep ==
  ASSUME WgInv, Rests \/ LetsGo \/ PauseRun \/ ResumeGraph
  PROVE  WgInv'
<1>1. actor \in ActorRecs /\ Awake \in ActorRecs /\ (Awake.pc = "stopping" => Awake = actor)
      /\ \A pc \in {"turn", "asleep"} : [actor EXCEPT !.pc = pc] \in ActorRecs /\ [actor EXCEPT !.pc = pc].pc = pc
  BY ActorMoved DEF WgInv, WorkTypes
<1>2. CASE Rests
  BY <1>1, <1>2, IdleQuietly DEF Rests, Still
<1>3. CASE LetsGo
  BY <1>1, <1>3, IdleQuietly DEF LetsGo, Still
<1>4. CASE PauseRun
  BY <1>1, <1>4, IdleQuietly DEF PauseRun, Still, Moves
<1>5. CASE ResumeGraph
  BY <1>1, <1>5, IdleQuietly DEF ResumeGraph, Still, Moves
<1> QED
  BY <1>2, <1>3, <1>4, <1>5

\* An operator resolves a Pause: its one edge is taken.
LEMMA ResolveKeeps ==
  ASSUME WgInv, NEW i \in Acts, ResolvesPause(i)
  PROVE  WgInv'
<1>1. RunTypes /\ Ledger /\ WorkTypes /\ Alive(i) /\ Kind(i) = "pause"
  BY DEF WgInv, Ledger, Held, ResolvesPause, Alive
<1>2. PICK r : /\ r = [run EXCEPT !.status = IF \E j \in Acts \ {i} : acts[j].st = "paused" THEN "paused" ELSE "running"]
               /\ Follows(i, "next", "completed", r)
  BY DEF ResolvesPause
<1>3. r \in RunRecs /\ r.plan = run.plan
  BY <1>1, <1>2, RunFields
<1>4. run' \in RunRecs /\ PlainStep /\ ClaimsKept
  BY <1>1, <1>2, <1>3, FollowsTaken DEF Labels, Outcomes
<1>5. actor \in ActorRecs /\ Awake \in ActorRecs /\ [actor EXCEPT !.pc = "asleep"] \in ActorRecs
  BY <1>1, ActorMoved DEF WorkTypes
<1>6. ASSUME NEW rs, NEW fs, Commits(rs, fs, r)
      PROVE  fresh' = {} /\ actor' \in ActorRecs
  BY <1>5, <1>6 DEF Commits, Moves, Fails
<1>7. ASSUME NEW rs, NEW fs, NEW f, Released(rs, fs, f, r)
      PROVE  fresh' = {} /\ actor' \in ActorRecs
  BY <1>6, <1>7, Zenon DEF Released
<1>8. fresh' = {} /\ actor' \in ActorRecs
  BY <1>2, <1>6, <1>7, Zenon DEF Follows, Arrives
<1>9. UNCHANGED <<checks, repeats, work, chk>> /\ Still
  BY <1>8 DEF ResolvesPause, Quiet, Still
<1> QED
  BY <1>1, <1>4, <1>8, <1>9, Quietly DEF WorkTypes, work

-----------------------------------------------------------------------------
(* Launches and agents. *)

\* Work of one activation changes, which works already or does not come to work.
RunMoves == \/ run' = run
            \/ \E s \in {"running", "paused", "cancelled"} : run' = [run EXCEPT !.status = s]
            \/ \E o \in {"none", "pass", "fail"} : run' = [run EXCEPT !.receipt = o]
Sound(a, e, l, p) ==
  /\ l # "none" => e \in {"intended", "uncertain"} /\ ~ a.bound
  /\ p = "live" => l = "bind" \/ a.bound
  /\ a.bound => e = "succeeded" /\ a.st # "none"
Works(i, a, e, l, p, c) ==
  /\ att' = [att EXCEPT ![i] = a] /\ eff' = [eff EXCEPT ![i] = e] /\ lau' = [lau EXCEPT ![i] = l]
  /\ proc' = [proc EXCEPT ![i] = p] /\ chk' = [chk EXCEPT ![i] = c]
WorkRec(a, e, l, p, c) ==
  /\ a \in AttRecs /\ e \in {"none", "intended", "succeeded", "failed", "uncertain"}
  /\ l \in {"none", "check", "spawn", "bind"} /\ p \in {"none", "live", "gone", "dead", "lost"} /\ c \in ChkRecs

LEMMA OneKept ==
  ASSUME WgInv, UNCHANGED <<acts, forks, checks, repeats>>, Still, actor' \in ActorRecs, RunMoves,
         NEW i \in Acts, Live(i) \/ ~ Live(i)', NEW a, NEW e, NEW l, NEW p, NEW c,
         WorkRec(a, e, l, p, c), Works(i, a, e, l, p, c), Sound(a, e, l, p)
  PROVE  WgInv'
<1>1. RunTypes /\ LedgerTypes /\ WorkTypes /\ Launching /\ i \in Slots /\ Acts \subseteq Slots
  BY Fields DEF WgInv, Ledger
<1>2. run' \in RunRecs /\ run'.plan = run.plan /\ PlainStep /\ ClaimsKept
  BY IdleKept DEF RunMoves
<1>3. /\ att' \in [Slots -> AttRecs] /\ chk' \in [Slots -> ChkRecs]
      /\ eff' \in [Slots -> {"none", "intended", "succeeded", "failed", "uncertain"}]
      /\ lau' \in [Slots -> {"none", "check", "spawn", "bind"}]
      /\ proc' \in [Slots -> {"none", "live", "gone", "dead", "lost"}]
      /\ att'[i] = a /\ eff'[i] = e /\ lau'[i] = l /\ proc'[i] = p
      /\ \A j \in Slots \ {i} : att'[j] = att[j] /\ eff'[j] = eff[j] /\ lau'[j] = lau[j] /\ proc'[j] = proc[j] /\ chk'[j] = chk[j]
  BY <1>1 DEF WorkTypes, Works, WorkRec
<1>4. WorkTypes'
  BY <1>1, <1>2, <1>3, WorkTyped DEF WorkTypes
<1>5. Launching'
  BY <1>1, <1>3 DEF Launching, Slots, Sound
<1>6. \A j \in Acts : Live(j)' => Live(j)
  BY <1>1, <1>3 DEF Live
<1> QED
  BY <1>2, <1>4, <1>5, <1>6, WorkKept

\* What is the same as before.
LEMMA Unmoved ==
  ASSUME WgInv, NEW i \in Acts
  PROVE  /\ att = [att EXCEPT ![i] = att[i]] /\ eff = [eff EXCEPT ![i] = eff[i]] /\ lau = [lau EXCEPT ![i] = lau[i]]
         /\ proc = [proc EXCEPT ![i] = proc[i]] /\ chk = [chk EXCEPT ![i] = chk[i]]
         /\ att[i] \in AttRecs /\ eff[i] \in {"none", "intended", "succeeded", "failed", "uncertain"}
         /\ lau[i] \in {"none", "check", "spawn", "bind"} /\ proc[i] \in {"none", "live", "gone", "dead", "lost"}
         /\ chk[i] \in ChkRecs /\ i \in Slots /\ i # View
         /\ lau[i] # "none" => eff[i] \in {"intended", "uncertain"} /\ ~ att[i].bound
         /\ proc[i] = "live" => lau[i] = "bind" \/ att[i].bound
         /\ att[i].bound => eff[i] = "succeeded" /\ att[i].st # "none"
<1>1. WorkTypes /\ Launching /\ i \in Slots /\ i # View
  BY Fields DEF WgInv, Ledger, View
<1>2. /\ att = [att EXCEPT ![i] = att[i]] /\ eff = [eff EXCEPT ![i] = eff[i]] /\ lau = [lau EXCEPT ![i] = lau[i]]
      /\ proc = [proc EXCEPT ![i] = proc[i]] /\ chk = [chk EXCEPT ![i] = chk[i]]
  BY <1>1 DEF WorkTypes
<1> QED
  BY <1>1, <1>2 DEF WorkTypes, Launching

LEMMA ActorHere ==
  ASSUME WgInv
  PROVE  /\ actor \in ActorRecs /\ Awake \in ActorRecs /\ (Awake.pc = "stopping" => Awake = actor)
         /\ [Awake EXCEPT !.pc = "turn"] \in ActorRecs /\ [Awake EXCEPT !.pc = Awake.pc] \in ActorRecs
         /\ \A pc \in {"turn", "asleep"} : [actor EXCEPT !.pc = pc] \in ActorRecs /\ [actor EXCEPT !.pc = pc].pc = pc
  BY ActorMoved DEF WgInv, WorkTypes

LEMMA LaunchFailsKeeps ==
  ASSUME WgInv, NEW i \in Acts, lau[i] # "none", NEW closes, LaunchFails(i, closes), UNCHANGED <<graph, att, chk>>,
         proc' = IF lau[i] = "bind" THEN [proc EXCEPT ![i] = "dead"] ELSE proc
  PROVE  WgInv'
<1>1. Live(i)
  BY DEF Live
<1>2. Still
  <2>1. ASSUME View \in fresh', actor'.pc = "stopping"
        PROVE  View \in fresh /\ acts' = acts /\ forks' = forks /\ actor' = actor /\ \A j \in Acts : Live(j)' => Live(j)
    <3>1. eff' = eff /\ run' = run /\ fresh' = fresh
      BY <2>1 DEF LaunchFails
    <3>2. actor' = actor
      BY <2>1, ActorHere DEF LaunchFails
    <3>3. lau \in [Slots -> {"none", "check", "spawn", "bind"}] /\ proc \in [Slots -> {"none", "live", "gone", "dead", "lost"}]
          /\ i \in Slots /\ Acts \subseteq Slots /\ acts' = acts /\ forks' = forks /\ chk' = chk
      BY Unmoved, Fields DEF WgInv, WorkTypes, Ledger, graph
    <3>4. lau' = [lau EXCEPT ![i] = "none"]
      BY DEF LaunchFails
    <3>5. \A j \in Acts : Live(j)' => Live(j)
      BY <1>1, <3>3, <3>4 DEF Live
    <3> QED
      BY <2>1, <3>1, <3>2, <3>3, <3>5
  <2> QED
    BY <2>1 DEF Still
<1>3. actor' \in ActorRecs
  BY ActorHere DEF LaunchFails
<1>4. PICK e \in {"none", "intended", "succeeded", "failed", "uncertain"} : eff' = [eff EXCEPT ![i] = e]
  <2>1. eff' = eff \/ eff' = [eff EXCEPT ![i] = "failed"]
    BY DEF LaunchFails
  <2> QED
    BY <2>1, Unmoved
<1>5. PICK p \in {"none", "live", "gone", "dead", "lost"} :
        proc' = [proc EXCEPT ![i] = p] /\ p = IF lau[i] = "bind" THEN "dead" ELSE proc[i]
  BY Unmoved
<1>6. ~ att[i].bound /\ p # "live"
  BY <1>5, Unmoved
<1>7. run' = run \/ \E s \in {"running", "paused", "cancelled"} : run' = [run EXCEPT !.status = s]
  BY DEF LaunchFails
<1>8. PICK l \in {"none", "check", "spawn", "bind"} : l = "none"
  OBVIOUS
<1>9. lau' = [lau EXCEPT ![i] = l]
  BY <1>8 DEF LaunchFails
<1>10. PICK a \in AttRecs : a = att[i] /\ att' = [att EXCEPT ![i] = a]
  BY Unmoved
<1>11. PICK c \in ChkRecs : chk' = [chk EXCEPT ![i] = c]
  BY Unmoved
<1>12. UNCHANGED <<acts, forks, checks, repeats>>
  BY DEF graph
<1>13. WorkRec(a, e, l, p, c) /\ Works(i, a, e, l, p, c) /\ Sound(a, e, l, p)
  BY <1>4, <1>5, <1>6, <1>8, <1>9, <1>10, <1>11 DEF WorkRec, Works, Sound
<1>14. RunMoves
  BY <1>7 DEF RunMoves
<1> QED
  BY <1>1, <1>2, <1>3, <1>12, <1>13, <1>14, OneKept

LEMMA LaunchKeeps ==
  ASSUME WgInv, NEW i \in Acts, Launch(i)
  PROVE  WgInv'
<1>1. lau[i] # "none" /\ Live(i)
  BY DEF Launch, LaunchChecks, LaunchSpawns, LaunchBinds, Live
<1>2. PICK c \in ChkRecs : c = chk[i] /\ chk = [chk EXCEPT ![i] = c]
  BY Unmoved
<1>3. PICK a \in AttRecs : a = att[i] /\ att = [att EXCEPT ![i] = a]
  BY Unmoved
<1>4. PICK e \in {"none", "intended", "succeeded", "failed", "uncertain"} : e = eff[i] /\ eff = [eff EXCEPT ![i] = e]
  BY Unmoved
<1>5. PICK p \in {"none", "live", "gone", "dead", "lost"} : p = proc[i] /\ proc = [proc EXCEPT ![i] = p]
  BY Unmoved
<1>6. e \in {"intended", "uncertain"} /\ ~ a.bound /\ (p = "live" => lau[i] = "bind")
  BY <1>1, <1>3, <1>4, <1>5, Unmoved
<1>7. ASSUME UNCHANGED <<graph, chk, run, actor, fresh, att, eff>>, NEW l \in {"spawn", "bind"}, lau' = [lau EXCEPT ![i] = l],
             NEW q \in {"none", "live", "gone", "dead", "lost"}, proc' = [proc EXCEPT ![i] = q], q = "live" => l = "bind"
      PROVE  WgInv'
  <2>1. \A j \in Acts : Live(j)' => Live(j)
    <3>1. \A j \in Acts \ {i} : lau'[j] = lau[j] /\ proc'[j] = proc[j]
      BY <1>7, Unmoved DEF WgInv, WorkTypes
    <3> QED
      BY <1>1, <1>7, <3>1 DEF Live, graph
  <2>2. Still /\ actor' \in ActorRecs
    BY <1>7, <2>1, ActorHere DEF Still, graph
  <2>3. UNCHANGED <<acts, forks, checks, repeats>> /\ run' = run
    BY <1>7 DEF graph
  <2>4. PICK m \in {"none", "check", "spawn", "bind"} : m = l
    OBVIOUS
  <2>5. /\ att' = [att EXCEPT ![i] = a] /\ eff' = [eff EXCEPT ![i] = e] /\ chk' = [chk EXCEPT ![i] = c]
        /\ lau' = [lau EXCEPT ![i] = m]
    BY <1>2, <1>3, <1>4, <1>7, <2>4
  <2>6. /\ m # "none" => e \in {"intended", "uncertain"} /\ ~ a.bound
        /\ q = "live" => m = "bind" \/ a.bound
        /\ a.bound => e = "succeeded" /\ a.st # "none"
    BY <1>6, <1>7, <2>4
  <2>7. WorkRec(a, e, m, q, c) /\ Works(i, a, e, m, q, c) /\ Sound(a, e, m, q)
    BY <1>7, <2>5, <2>6 DEF WorkRec, Works, Sound
  <2>8. RunMoves
    BY <2>3 DEF RunMoves
  <2> QED
    BY <1>1, <2>2, <2>3, <2>7, <2>8, OneKept
<1>8. CASE LaunchChecks(i)
  <2>1. CASE Running /\ Bindable(i)
    <3>1. /\ UNCHANGED <<graph, chk, run, actor, fresh, att, eff>> /\ lau' = [lau EXCEPT ![i] = "spawn"] /\ proc' = proc
          /\ lau[i] = "check"
      BY <1>8, <2>1 DEF LaunchChecks
    <3>2. "spawn" \in {"spawn", "bind"} /\ p # "live" /\ proc' = [proc EXCEPT ![i] = p]
      BY <1>5, <1>6, <3>1
    <3> QED
      BY <1>7, <3>1, <3>2
  <2>2. CASE ~ (Running /\ Bindable(i))
    <3>1. /\ UNCHANGED <<graph, chk, att>> /\ LaunchFails(i, run.status = "paused") /\ proc' = proc /\ lau[i] = "check"
      BY <1>8, <2>2 DEF LaunchChecks
    <3>2. proc' = IF lau[i] = "bind" THEN [proc EXCEPT ![i] = "dead"] ELSE proc
      BY <3>1
    <3>3. PICK closes : closes = (run.status = "paused")
      OBVIOUS
    <3>4. LaunchFails(i, closes)
      BY <3>1, <3>3
    <3> QED
      BY <1>1, <3>1, <3>2, <3>4, LaunchFailsKeeps
  <2> QED
    BY <2>1, <2>2
<1>9. CASE LaunchSpawns(i)
  <2>1. CASE lau' = [lau EXCEPT ![i] = "bind"] /\ proc' = [proc EXCEPT ![i] = "live"] /\ UNCHANGED <<eff, run, actor, fresh>>
    <3>1. UNCHANGED <<graph, chk, run, actor, fresh, att, eff>>
      BY <1>9, <2>1 DEF LaunchSpawns
    <3>2. "bind" \in {"spawn", "bind"} /\ "live" \in {"none", "live", "gone", "dead", "lost"}
      OBVIOUS
    <3> QED
      BY <1>7, <2>1, <3>1, <3>2
  <2>2. CASE LaunchFails(i, TRUE) /\ UNCHANGED proc
    <3>1. proc' = IF lau[i] = "bind" THEN [proc EXCEPT ![i] = "dead"] ELSE proc
      BY <1>9, <2>2 DEF LaunchSpawns
    <3> QED
      BY <1>1, <1>9, <2>2, <3>1, LaunchFailsKeeps DEF LaunchSpawns
  <2> QED
    BY <1>9, <2>1, <2>2 DEF LaunchSpawns
<1>10. CASE LaunchBinds(i)
  <2>1. CASE Bindable(i)
    <3>1. PICK b : b = IF proc[i] = "live" THEN [att[i] EXCEPT !.bound = TRUE]
                       ELSE [st |-> "interrupted", out |-> "interrupted", bound |-> TRUE]
      OBVIOUS
    <3>2. att' = [att EXCEPT ![i] = b]
      BY <1>10, <2>1, <3>1 DEF LaunchBinds
    <3>3. b \in AttRecs /\ b.st # "none" /\ att[i].st = "running"
      BY <1>3, <2>1, <3>1 DEF AttRecs, Bindable
    <3>4. /\ UNCHANGED <<acts, forks, checks, repeats, chk, proc>> /\ fresh' = {}
          /\ eff' = [eff EXCEPT ![i] = "succeeded"] /\ lau' = [lau EXCEPT ![i] = "none"]
          /\ run' = run \/ run' = [run EXCEPT !.status = "paused"]
      BY <1>10, <2>1 DEF LaunchBinds, graph, Moves
    <3>5. actor' = [Awake EXCEPT !.pc = "turn"] \/ actor' = [Awake EXCEPT !.pc = Awake.pc]
      BY <1>10, <2>1 DEF LaunchBinds
    <3>6. actor' \in ActorRecs /\ Still
      BY <3>4, <3>5, ActorHere DEF Still
    <3>7. b.bound = TRUE
      BY <1>3, <3>1 DEF AttRecs
    <3>8. proc' = [proc EXCEPT ![i] = p] /\ chk' = [chk EXCEPT ![i] = c]
      BY <1>2, <1>5, <3>4
    <3>9. PICK l \in {"none", "check", "spawn", "bind"} : l = "none"
      OBVIOUS
    <3>10. PICK s \in {"none", "intended", "succeeded", "failed", "uncertain"} : s = "succeeded"
      OBVIOUS
    <3>11. lau' = [lau EXCEPT ![i] = l] /\ eff' = [eff EXCEPT ![i] = s]
      BY <3>4, <3>9, <3>10
    <3>12. run' = run \/ \E t \in {"running", "paused", "cancelled"} : run' = [run EXCEPT !.status = t]
      BY <3>4
    <3>13. UNCHANGED <<acts, forks, checks, repeats>>
      BY <3>4
    <3>14. WorkRec(b, s, l, p, c) /\ Works(i, b, s, l, p, c) /\ Sound(b, s, l, p)
      BY <3>2, <3>3, <3>7, <3>8, <3>9, <3>10, <3>11 DEF WorkRec, Works, Sound
    <3>15. RunMoves
      BY <3>12 DEF RunMoves
    <3> QED
      BY <1>1, <3>6, <3>13, <3>14, <3>15, OneKept
  <2>2. CASE ~ Bindable(i)
    <3>1. LaunchFails(i, FALSE) /\ UNCHANGED <<graph, att, chk>> /\ proc' = [proc EXCEPT ![i] = "dead"] /\ lau[i] = "bind"
      BY <1>10, <2>2 DEF LaunchBinds
    <3>2. proc' = IF lau[i] = "bind" THEN [proc EXCEPT ![i] = "dead"] ELSE proc
      BY <3>1
    <3> QED
      BY <1>1, <3>1, <3>2, LaunchFailsKeeps
  <2> QED
    BY <2>1, <2>2
<1> QED
  BY <1>8, <1>9, <1>10 DEF Launch

\* Reports, exits, and what the operator says of an effect.
LEMMA AgentKeeps ==
  ASSUME WgInv, NEW i \in Acts, AgentExits(i) \/ ExitRecorded(i) \/ SettlesEffect(i) \/ \E o \in Reports : AgentReports(i, o)
  PROVE  WgInv'
<1>1. PICK c \in ChkRecs : c = chk[i] /\ chk = [chk EXCEPT ![i] = c]
  BY Unmoved
<1>2. PICK a \in AttRecs : a = att[i] /\ att = [att EXCEPT ![i] = a]
  BY Unmoved
<1>3. PICK e \in {"none", "intended", "succeeded", "failed", "uncertain"} : e = eff[i] /\ eff = [eff EXCEPT ![i] = e]
  BY Unmoved
<1>4. PICK p \in {"none", "live", "gone", "dead", "lost"} : p = proc[i] /\ proc = [proc EXCEPT ![i] = p]
  BY Unmoved
<1>5. PICK l \in {"none", "check", "spawn", "bind"} : l = lau[i] /\ lau = [lau EXCEPT ![i] = l]
  BY Unmoved
<1>6. /\ l # "none" => e \in {"intended", "uncertain"} /\ ~ a.bound
      /\ p = "live" => l = "bind" \/ a.bound
      /\ a.bound => e = "succeeded" /\ a.st # "none"
  BY <1>2, <1>3, <1>4, <1>5, Unmoved
<1>7. CASE AgentExits(i)
  <2>1. PICK q \in {"none", "live", "gone", "dead", "lost"} : q = "gone"
    OBVIOUS
  <2>2. /\ proc' = [proc EXCEPT ![i] = q] /\ UNCHANGED <<acts, forks, checks, repeats, run, att, eff, lau, chk, actor, fresh>>
        /\ Live(i)
    BY <1>7, <2>1 DEF AgentExits, graph, Live
  <2>3. \A j \in Acts : Live(j)' => Live(j)
    <3>1. \A j \in Acts \ {i} : proc'[j] = proc[j]
      BY <2>2, Unmoved DEF WgInv, WorkTypes
    <3> QED
      BY <2>2, <3>1 DEF Live
  <2>4. Still /\ actor' \in ActorRecs
    BY <2>2, <2>3, ActorHere DEF Still
  <2>5. att' = [att EXCEPT ![i] = a] /\ eff' = [eff EXCEPT ![i] = e] /\ lau' = [lau EXCEPT ![i] = l] /\ chk' = [chk EXCEPT ![i] = c]
    BY <1>1, <1>2, <1>3, <1>5, <2>2
  <2>6. UNCHANGED <<acts, forks, checks, repeats>> /\ run' = run /\ q # "live"
    BY <2>1, <2>2
  <2>7. WorkRec(a, e, l, q, c) /\ Works(i, a, e, l, q, c) /\ Sound(a, e, l, q)
    BY <1>6, <2>2, <2>5, <2>6 DEF WorkRec, Works, Sound
  <2>8. RunMoves
    BY <2>6 DEF RunMoves
  <2> QED
    BY <2>2, <2>4, <2>6, <2>7, <2>8, OneKept
<1>8. CASE ExitRecorded(i)
  <2>1. PICK q \in {"none", "live", "gone", "dead", "lost"} : q = "dead"
    OBVIOUS
  <2>2. /\ proc' = [proc EXCEPT ![i] = q] /\ UNCHANGED <<acts, forks, checks, repeats, eff, lau, chk>> /\ proc[i] = "gone"
    BY <1>8, <2>1 DEF ExitRecorded, graph
  <2>3. PICK b : b = [a EXCEPT !.st = "interrupted", !.out = "interrupted"]
    OBVIOUS
  <2>4. b \in AttRecs /\ b.bound = a.bound /\ b.st # "none"
    BY <2>3 DEF AttRecs
  <2>5. \/ /\ att' = [att EXCEPT ![i] = b] /\ run' = [run EXCEPT !.status = "paused"] /\ actor' = Awake /\ fresh' = {}
        \/ UNCHANGED <<att, run, actor, fresh>>
    BY <1>2, <1>8, <2>3 DEF ExitRecorded, Moves
  <2>6. \A j \in Acts : Live(j)' => Live(j)
    <3>1. proc'[i] = "dead" /\ \A j \in Acts \ {i} : proc'[j] = proc[j]
      BY <2>1, <2>2, Unmoved DEF WgInv, WorkTypes
    <3> QED
      BY <2>2, <3>1 DEF Live
  <2>7. Still /\ actor' \in ActorRecs
    BY <2>2, <2>5, <2>6, ActorHere DEF Still
  <2>8. PICK d \in AttRecs : att' = [att EXCEPT ![i] = d] /\ d.bound = a.bound /\ (d.st # "none" \/ d = a)
    BY <1>2, <2>4, <2>5
  <2>9. eff' = [eff EXCEPT ![i] = e] /\ lau' = [lau EXCEPT ![i] = l] /\ chk' = [chk EXCEPT ![i] = c]
    BY <1>1, <1>3, <1>5, <2>2
  <2>10. UNCHANGED <<acts, forks, checks, repeats>> /\ (Live(i) \/ ~ Live(i)')
    BY <2>2, <2>6
  <2>11. /\ l # "none" => e \in {"intended", "uncertain"} /\ ~ d.bound
         /\ q = "live" => l = "bind" \/ d.bound
         /\ d.bound => e = "succeeded" /\ d.st # "none"
    BY <1>6, <2>1, <2>8
  <2>12. run' = run \/ \E s \in {"running", "paused", "cancelled"} : run' = [run EXCEPT !.status = s]
    BY <2>5
  <2>13. WorkRec(d, e, l, q, c) /\ Works(i, d, e, l, q, c) /\ Sound(d, e, l, q)
    BY <2>2, <2>8, <2>9, <2>11 DEF WorkRec, Works, Sound
  <2>14. RunMoves
    BY <2>12 DEF RunMoves
  <2> QED
    BY <2>7, <2>10, <2>13, <2>14, OneKept
<1>9. CASE SettlesEffect(i)
  <2>1. PICK s \in {"none", "intended", "succeeded", "failed", "uncertain"} : s = "failed"
    OBVIOUS
  <2>2. /\ UNCHANGED <<acts, forks, checks, repeats, run, att, lau, proc, chk>> /\ eff' = [eff EXCEPT ![i] = s]
        /\ l = "none" /\ e \in {"intended", "uncertain"} /\ actor' = Awake /\ fresh' = {}
    BY <1>3, <1>5, <1>9, <2>1 DEF SettlesEffect, graph, Moves
  <2>3. Still /\ actor' \in ActorRecs
    BY <2>2, ActorHere DEF Still
  <2>4. att' = [att EXCEPT ![i] = a] /\ lau' = [lau EXCEPT ![i] = l] /\ proc' = [proc EXCEPT ![i] = p] /\ chk' = [chk EXCEPT ![i] = c]
    BY <1>1, <1>2, <1>4, <1>5, <2>2
  <2>5. UNCHANGED <<acts, forks, checks, repeats>> /\ run' = run /\ (Live(i) \/ ~ Live(i)')
    BY <2>2 DEF Live
  <2>6. ~ a.bound
    BY <1>6, <2>2
  <2>7. WorkRec(a, s, l, p, c) /\ Works(i, a, s, l, p, c) /\ Sound(a, s, l, p)
    BY <1>6, <2>2, <2>4, <2>6 DEF WorkRec, Works, Sound
  <2>8. RunMoves
    BY <2>5 DEF RunMoves
  <2> QED
    BY <2>3, <2>5, <2>7, <2>8, OneKept
<1>10. ASSUME NEW o \in Reports, AgentReports(i, o)
       PROVE  WgInv'
  <2>1. PICK b : b = [a EXCEPT !.st = "reported", !.out = o]
    OBVIOUS
  <2>2. b \in AttRecs /\ b.bound = a.bound /\ b.st # "none"
    BY <2>1 DEF AttRecs, Reports
  <2>3. /\ UNCHANGED <<acts, forks, checks, repeats, eff, lau, proc, chk>> /\ att' = [att EXCEPT ![i] = b]
        /\ actor' = Awake /\ fresh' = {} /\ (run' = run \/ run' = [run EXCEPT !.receipt = "none"]) /\ proc[i] = "live"
    BY <1>2, <1>10, <2>1 DEF AgentReports, graph, Moves
  <2>4. Still /\ actor' \in ActorRecs /\ Live(i)
    BY <2>3, ActorHere DEF Still, Live
  <2>5. eff' = [eff EXCEPT ![i] = e] /\ lau' = [lau EXCEPT ![i] = l] /\ proc' = [proc EXCEPT ![i] = p] /\ chk' = [chk EXCEPT ![i] = c]
    BY <1>1, <1>3, <1>4, <1>5, <2>3
  <2>6. UNCHANGED <<acts, forks, checks, repeats>> /\ (run' = run \/ \E s \in {"none", "pass", "fail"} : run' = [run EXCEPT !.receipt = s])
    BY <2>3
  <2>7. /\ l # "none" => e \in {"intended", "uncertain"} /\ ~ b.bound
        /\ p = "live" => l = "bind" \/ b.bound
        /\ b.bound => e = "succeeded" /\ b.st # "none"
    BY <1>6, <2>2
  <2>8. WorkRec(b, e, l, p, c) /\ Works(i, b, e, l, p, c) /\ Sound(b, e, l, p)
    BY <2>2, <2>3, <2>5, <2>7 DEF WorkRec, Works, Sound
  <2>9. RunMoves
    BY <2>6 DEF RunMoves
  <2> QED
    BY <2>3, <2>4, <2>6, <2>8, <2>9, OneKept
<1> QED
  BY <1>7, <1>8, <1>9, <1>10

-----------------------------------------------------------------------------
(* Checks beside the actor. *)

\* A check that goes on, or ends, starts no other work.
LEMMA CheckGoesOn ==
  ASSUME WgInv, NEW i \in Acts, NEW c \in ChkRecs, chk' = [chk EXCEPT ![i] = c], c.at # "exec",
         UNCHANGED <<work, repeats>>, run' \in RunRecs, PlainStep, ClaimsKept, forks' = forks,
         checks' \in Seq(Bindings), actor' \in ActorRecs,
         View \in fresh' /\ actor'.pc = "stopping" => View \in fresh /\ acts' = acts /\ actor' = actor
  PROVE  WgInv'
<1>1. WorkTypes /\ Launching /\ i \in Slots /\ Acts \subseteq Slots
  BY Unmoved, Fields DEF WgInv, Ledger
<1>2. chk' \in [Slots -> ChkRecs] /\ \A j \in Acts : chk'[j].at = "exec" => chk[j].at = "exec"
  BY <1>1 DEF WorkTypes
<1>3. WorkTypes'
  BY <1>1, <1>2, SamePlan, WorkTyped DEF WorkTypes, work
<1>4. Launching'
  BY <1>1 DEF Launching, Slots, work
<1>5. \A j \in Acts : Live(j)' => Live(j)
  BY <1>2 DEF Live, ClaimsKept, work
<1>6. Still
  BY <1>5 DEF Still
<1>7. \A j \in Acts : acts[j].claim = "none" /\ ~ Alive(j) => acts'[j].claim = "none"
  BY DEF ClaimsKept
<1> QED
  BY <1>3, <1>4, <1>5, <1>6, <1>7, WorkKept

\* A claim ends.
LEMMA ClaimEnds ==
  ASSUME WgInv, NEW i \in Acts, acts' = [acts EXCEPT ![i].claim = "none"], forks' = forks, run'.plan = run.plan
  PROVE  PlainStep /\ ClaimsKept
<1>1. RunTypes /\ LedgerTypes /\ acts[i] \in ActRecs /\ (acts[i].wait => Branch(i))
  BY ActsTyped DEF WgInv, Ledger
<1>2. PICK a : a = [acts[i] EXCEPT !.claim = "none"]
  OBVIOUS
<1>3. /\ a \in ActRecs /\ acts' = [acts EXCEPT ![i] = a] /\ a.node = acts[i].node /\ a.toks = acts[i].toks
      /\ a.join = acts[i].join /\ a.heir = acts[i].heir /\ a.st = acts[i].st /\ a.claim = "none" /\ a.wait = acts[i].wait
  BY <1>1, <1>2 DEF ActRecs
<1>4. StayStep
  BY <1>1, <1>3, Touches
<1>5. ClaimsKept
  BY <1>1, <1>3, ActsTyped DEF ClaimsKept
<1> QED
  BY <1>4, <1>5 DEF PlainStep

LEMMA CheckKeeps ==
  ASSUME WgInv, NEW i \in Acts, Check(i)
  PROVE  WgInv'
<1>1. /\ WorkTypes /\ chk[i] \in ChkRecs /\ i # View /\ checks \in Seq(Bindings) /\ actor \in ActorRecs /\ Awake \in ActorRecs
      /\ i \in Slots /\ (Awake.pc = "stopping" => Awake = actor)
  BY Unmoved, ActorHere DEF WgInv, WorkTypes
<1>2. ASSUME NEW at \in {"none", "look", "release"}
      PROVE  [chk[i] EXCEPT !.at = at] \in ChkRecs /\ [chk[i] EXCEPT !.at = at].at # "exec"
  BY <1>1, <1>2 DEF ChkRecs
<1>3. ASSUME NEW r \in {"ok", "err", "contended"}
      PROVE  LET c == [chk[i] EXCEPT !.at = "look", !.res = r] IN c \in ChkRecs /\ c.at # "exec"
  BY <1>1, <1>3 DEF ChkRecs
<1>4. ASSUME NEW r \in {"ok", "err", "contended"}, Looks(i, r)
      PROVE  \E c \in ChkRecs : chk' = [chk EXCEPT ![i] = c] /\ c.at # "exec"
  BY <1>3, <1>4 DEF Looks
<1>5. ASSUME \E c \in ChkRecs : chk' = [chk EXCEPT ![i] = c] /\ c.at # "exec", UNCHANGED <<acts, forks, work, repeats, checks>>,
             run' = run \/ (\E s \in {"running", "paused", "cancelled"} : run' = [run EXCEPT !.status = s])
                        \/ \E o \in {"none", "pass", "fail"} : run' = [run EXCEPT !.receipt = o],
             actor' \in ActorRecs, View \in fresh' /\ actor'.pc = "stopping" => View \in fresh /\ actor' = actor
      PROVE  WgInv'
  <2>1. run' \in RunRecs /\ PlainStep /\ ClaimsKept
    BY <1>5, IdleKept
  <2> QED
    BY <1>1, <1>5, <2>1, CheckGoesOn
<1>6. CASE CheckEnds(i)
  <2>1. \E c \in ChkRecs : chk' = [chk EXCEPT ![i] = c] /\ c.at # "exec"
    <3>1. ASSUME NEW o \in {"pass", "fail"}, chk' = [chk EXCEPT ![i] = [@ EXCEPT !.at = "record", !.out = o]]
          PROVE  \E c \in ChkRecs : chk' = [chk EXCEPT ![i] = c] /\ c.at # "exec"
      <4>1. LET c == [chk[i] EXCEPT !.at = "record", !.out = o] IN c \in ChkRecs /\ c.at # "exec"
        BY <1>1, <3>1 DEF ChkRecs
      <4> QED
        BY <3>1, <4>1
    <3> QED
      BY <1>4, <1>6, <3>1 DEF CheckEnds
  <2>2. View \in fresh' => View \in fresh
    BY <1>1, <1>6 DEF CheckEnds
  <2>3. UNCHANGED <<acts, forks, work, repeats, checks, run, actor>>
    BY <1>6 DEF CheckEnds, ChkQuiet
  <2> QED
    BY <1>1, <1>5, <2>1, <2>2, <2>3
<1>7. CASE CheckRecords(i)
  <2>1. \E c \in ChkRecs : chk' = [chk EXCEPT ![i] = c] /\ c.at # "exec"
    <3>1. chk' = [chk EXCEPT ![i].at = "bind"] /\ chk[i].at = "record"
             => \E c \in ChkRecs : chk' = [chk EXCEPT ![i] = c] /\ c.at # "exec"
      <4>1. chk[i].at = "record" => [chk[i] EXCEPT !.at = "bind"] \in ChkRecs /\ [chk[i] EXCEPT !.at = "bind"].at # "exec"
        BY <1>1 DEF ChkRecs
      <4> QED
        BY <4>1
    <3> QED
      BY <1>4, <1>7, <3>1 DEF CheckRecords
  <2>2. View \in fresh' => View \in fresh
    BY <1>1, <1>7 DEF CheckRecords
  <2>3. UNCHANGED <<acts, forks, work, repeats, checks, actor>>
    BY <1>7 DEF CheckRecords, ChkQuiet
  <2>4. run' = run \/ \E o \in {"none", "pass", "fail"} : run' = [run EXCEPT !.receipt = o]
    <3>1. chk[i].out \in {"none", "pass", "fail"}
      BY <1>1 DEF ChkRecs
    <3> QED
      BY <1>7, <3>1 DEF CheckRecords
  <2> QED
    BY <1>1, <1>5, <2>1, <2>2, <2>3, <2>4
<1>8. CASE CheckBinds(i)
  <2>1. CASE i \in fresh /\ Running /\ acts[i].st = "running"
    <3>1. /\ acts' = [acts EXCEPT ![i].claim = "none"] /\ UNCHANGED <<forks, repeats, work, run, actor>> /\ fresh' = {}
          /\ chk[i].at = "bind" /\ checks' = Append(checks, [act |-> i, out |-> chk[i].out]) /\ Looks(i, "ok")
      BY <1>8, <2>1 DEF CheckBinds, ChkQuiet, Moves
    <3>2. PICK b : b = [act |-> i, out |-> chk[i].out]
      OBVIOUS
    <3>3. b \in Bindings
      BY <1>1, <3>1, <3>2 DEF Bindings, ChkRecs
    <3>4. checks' \in Seq(Bindings)
      BY <1>1, <3>1, <3>2, <3>3, AppendProperties
    <3>5. run' \in RunRecs /\ run'.plan = run.plan
      BY <3>1 DEF WgInv, RunTypes
    <3>6. PlainStep /\ ClaimsKept
      BY <3>1, <3>5, ClaimEnds
    <3>7. PICK c \in ChkRecs : chk' = [chk EXCEPT ![i] = c] /\ c.at # "exec"
      BY <1>4, <3>1
    <3> QED
      BY <1>1, <3>1, <3>4, <3>5, <3>6, <3>7, CheckGoesOn
  <2>2. CASE ~ (i \in fresh /\ Running /\ acts[i].st = "running")
    <3>1. \E c \in ChkRecs : chk' = [chk EXCEPT ![i] = c] /\ c.at # "exec"
      BY <1>4, <1>8, <2>2 DEF CheckBinds
    <3>2. UNCHANGED <<acts, forks, work, repeats, checks, run, actor, fresh>>
      BY <1>8, <2>2 DEF CheckBinds, ChkQuiet
    <3> QED
      BY <1>1, <1>5, <3>1, <3>2
  <2> QED
    BY <2>1, <2>2
<1>9. CASE CheckLooks(i)
  <2>1. \E c \in ChkRecs : chk' = [chk EXCEPT ![i] = c] /\ c.at # "exec"
    BY <1>2, <1>9 DEF CheckLooks
  <2>2. UNCHANGED <<acts, forks, work, repeats, checks, run>>
    BY <1>9 DEF CheckLooks, ChkQuiet
  <2>3. actor' \in ActorRecs /\ (View \in fresh' /\ actor'.pc = "stopping" => View \in fresh /\ actor' = actor)
    BY <1>1, <1>9 DEF CheckLooks
  <2> QED
    BY <1>5, <2>1, <2>2, <2>3
<1>10. CASE CheckReleases(i)
  <2>1. PICK free \in BOOLEAN : free = (i \in fresh /\ Running)
    OBVIOUS
  <2>2. /\ UNCHANGED <<forks, repeats, work, checks>> /\ actor' = Awake /\ chk' = [chk EXCEPT ![i].at = "none"]
        /\ acts' = IF free THEN [acts EXCEPT ![i].claim = "none"] ELSE acts
        /\ run' = run \/ run' = [run EXCEPT !.status = "paused"]
        /\ fresh' = {} \/ (fresh' = fresh /\ ~ free)
    BY <1>10, <2>1 DEF CheckReleases, ChkQuiet
  <2>3. PICK c \in ChkRecs : chk' = [chk EXCEPT ![i] = c] /\ c.at # "exec"
    BY <1>2, <2>2
  <2>4. run' \in RunRecs /\ run'.plan = run.plan
    BY <2>2, RunFields DEF WgInv, RunTypes
  <2>5. PlainStep /\ ClaimsKept
    <3>1. CASE free
      BY <2>2, <2>4, <3>1, ClaimEnds
    <3>2. CASE ~ free
      BY <2>2, <2>4, <3>2, Idle DEF PlainStep, ClaimsKept, WgInv, Ledger
    <3> QED
      BY <3>1, <3>2
  <2>6. View \in fresh' /\ actor'.pc = "stopping" => View \in fresh /\ acts' = acts /\ actor' = actor
    BY <1>1, <2>2
  <2> QED
    BY <1>1, <2>2, <2>3, <2>4, <2>5, <2>6, CheckGoesOn
<1> QED
  BY <1>6, <1>7, <1>8, <1>9, <1>10 DEF Check

-----------------------------------------------------------------------------
(* Cancellation, and the death of the daemon. *)

\* What both do to intents and attempts.
LEMMA Interrupted ==
  ASSUME WgInv,
         eff' = [i \in Slots |-> IF eff[i] = "intended" THEN "uncertain" ELSE eff[i]],
         att' = [i \in Slots |-> IF att[i].st = "running"
                                 THEN [att[i] EXCEPT !.st = "interrupted", !.out = "interrupted"] ELSE att[i]]
  PROVE  /\ eff' \in [Slots -> {"none", "intended", "succeeded", "failed", "uncertain"}] /\ att' \in [Slots -> AttRecs]
         /\ \A j \in Slots : /\ att'[j].bound = att[j].bound /\ (att[j].st # "none" => att'[j].st # "none")
                             /\ eff[j] \in {"intended", "uncertain"} => eff'[j] \in {"intended", "uncertain"}
                             /\ eff[j] = "succeeded" => eff'[j] = "succeeded"
<1>1. att \in [Slots -> AttRecs] /\ eff \in [Slots -> {"none", "intended", "succeeded", "failed", "uncertain"}]
  BY DEF WgInv, WorkTypes
<1>2. ASSUME NEW j \in Slots
      PROVE  /\ att'[j] \in AttRecs /\ att'[j].bound = att[j].bound /\ (att[j].st # "none" => att'[j].st # "none")
  BY <1>1 DEF AttRecs
<1>3. ASSUME NEW j \in Slots
      PROVE  /\ eff'[j] \in {"none", "intended", "succeeded", "failed", "uncertain"}
             /\ eff[j] \in {"intended", "uncertain"} => eff'[j] \in {"intended", "uncertain"}
             /\ eff[j] = "succeeded" => eff'[j] = "succeeded"
  BY <1>1
<1> QED
  BY <1>2, <1>3

LEMMA CancelKeeps ==
  ASSUME WgInv, CancelRun
  PROVE  WgInv'
<1>1. /\ WorkTypes /\ Launching /\ Acts \subseteq Slots /\ chk \in [Slots -> ChkRecs] /\ Awake \in ActorRecs
  BY Fields, ActorHere DEF WgInv, Ledger, WorkTypes
<1>2. /\ run' = [run EXCEPT !.status = "cancelled"] /\ UNCHANGED <<acts, forks, checks, repeats, lau, proc>>
      /\ actor' = Awake /\ fresh' = {}
      /\ eff' = [i \in Slots |-> IF eff[i] = "intended" THEN "uncertain" ELSE eff[i]]
      /\ att' = [i \in Slots |-> IF att[i].st = "running"
                                 THEN [att[i] EXCEPT !.st = "interrupted", !.out = "interrupted"] ELSE att[i]]
      /\ chk' = [i \in Slots |-> IF chk[i].at = "exec" THEN [chk[i] EXCEPT !.at = "look", !.res = "err"] ELSE chk[i]]
  BY DEF CancelRun, Moves, graph
<1>3. run' \in RunRecs /\ run'.plan = run.plan /\ PlainStep /\ ClaimsKept
  BY <1>2, IdleKept
<1>4. ASSUME NEW j \in Slots
      PROVE  chk'[j] \in ChkRecs /\ chk'[j].at # "exec"
  BY <1>1, <1>2 DEF ChkRecs
<1>5. chk' \in [Slots -> ChkRecs]
  BY <1>2, <1>4
<1>6. WorkTypes'
  BY <1>1, <1>2, <1>3, <1>5, Interrupted, WorkTyped DEF WorkTypes
<1>7. Launching'
  BY <1>1, <1>2, Interrupted DEF Launching, Slots
<1>8. \A j \in Acts : Live(j)' => Live(j)
  BY <1>1, <1>2, <1>4 DEF Live
<1> QED
  BY <1>2, <1>3, <1>6, <1>7, <1>8, WorkKept DEF Still

LEMMA CrashKeeps ==
  ASSUME WgInv, Crash
  PROVE  WgInv'
<1>1. /\ RunTypes /\ LedgerTypes /\ WorkTypes /\ Launching /\ Acts \subseteq Slots
      /\ acts \in [Acts -> ActRecs] /\ \A j \in Acts : acts[j].wait \/ acts[j].claim # "none" => Branch(j)
  BY Fields, ActsTyped DEF WgInv, Ledger
<1>2. /\ run' = [run EXCEPT !.status = "paused"] /\ fresh' = {} /\ actor' = [actor EXCEPT !.pc = "turn"]
      /\ acts' = [i \in Acts |-> IF acts[i].claim = "mine" THEN [acts[i] EXCEPT !.claim = "other"] ELSE acts[i]]
      /\ eff' = [i \in Slots |-> IF eff[i] = "intended" THEN "uncertain" ELSE eff[i]]
      /\ att' = [i \in Slots |-> IF att[i].st = "running"
                                 THEN [att[i] EXCEPT !.st = "interrupted", !.out = "interrupted"] ELSE att[i]]
      /\ proc' = [i \in Slots |-> IF proc[i] = "none" THEN "none" ELSE "lost"]
      /\ lau' = [i \in Slots |-> "none"] /\ chk' = [i \in Slots |-> [chk[i] EXCEPT !.at = "none"]]
      /\ UNCHANGED <<forks, checks, repeats>>
  BY DEF Crash
<1>3. ASSUME NEW j \in Acts
      PROVE  /\ acts'[j] \in ActRecs /\ acts'[j].node = acts[j].node /\ acts'[j].toks = acts[j].toks
             /\ acts'[j].join = acts[j].join /\ acts'[j].heir = acts[j].heir /\ acts'[j].st = acts[j].st
             /\ acts'[j].wait = acts[j].wait /\ (acts'[j].claim = "none" <=> acts[j].claim = "none")
  BY <1>1, <1>2 DEF ActRecs
<1>4. acts' \in [Acts -> ActRecs]
  BY <1>2, <1>3
<1>5. run' \in RunRecs /\ run'.plan = run.plan
  BY <1>1, <1>2, RunFields
<1>6. StayStep
  BY <1>1, <1>2, <1>3, <1>4, <1>5, Stays
<1>7. ASSUME NEW j \in Slots
      PROVE  /\ chk'[j] \in ChkRecs /\ chk'[j].at = "none" /\ lau'[j] = "none"
             /\ proc'[j] \in {"none", "lost"}
  BY <1>1, <1>2 DEF WorkTypes, ChkRecs
<1>8. /\ chk' \in [Slots -> ChkRecs] /\ lau' \in [Slots -> {"none", "check", "spawn", "bind"}]
      /\ proc' \in [Slots -> {"none", "live", "gone", "dead", "lost"}]
  BY <1>2, <1>7
<1>9. WorkTypes'
  BY <1>1, <1>2, <1>5, <1>8, Interrupted, ActorHere, WorkTyped DEF WorkTypes
<1>10. Launching'
  BY <1>1, <1>2, <1>7, Interrupted DEF Launching, Slots
<1>11. \A j \in Acts : Live(j)' => acts[j].claim # "none"
  BY <1>1, <1>3, <1>7 DEF Live
<1>12. PlainStep /\ Still /\ \A j \in Acts : acts[j].claim = "none" /\ ~ Alive(j) => acts'[j].claim = "none"
  BY <1>2, <1>3, <1>6 DEF PlainStep, Still
<1> QED
  BY <1>5, <1>9, <1>10, <1>11, <1>12, WorkKept

-----------------------------------------------------------------------------
(* The stop of a generation, and its repair. *)

\* A generation of which nothing is unknown is at rest after its agents and checks are killed.
LEMMA GenerationRests ==
  ASSUME WgInv, NEW f \in Slots, ~ UnknownCheck(f), ~ Unknown(f), UNCHANGED <<acts, lau>>,
         \A i \in Acts : chk'[i].at = "exec" => i \notin Gen(f),
         \A i \in Acts : proc'[i] = "live" => i \notin Killed(f) /\ proc[i] = "live"
  PROVE  \A j \in Gen(f) : ~ Live(j)'
<1>1. ASSUME NEW j \in Gen(f)
      PROVE  ~ Live(j)'
  <2>1. j \in Acts /\ ~ UnknownSpawn(j) /\ ~ UnknownExit(j) /\ acts[j].claim # "other"
        /\ \A k \in Gen(f) : ~ (UnknownSpawn(k) \/ UnknownExit(k))
    BY DEF Unknown, UnknownCheck, Gen
  <2>2. lau[j] = "none"
    BY <2>1, Unmoved DEF UnknownSpawn
  <2>3. proc[j] = "live" => j \in Killed(f)
    <3>1. proc[j] = "live" => att[j].bound
      BY <2>1, <2>2, Unmoved
    <3> QED
      BY <2>1, <3>1 DEF Killed
  <2> QED
    BY <2>1, <2>2, <2>3 DEF Live
<1> QED
  BY <1>1

LEMMA KillsKeeps ==
  ASSUME WgInv, KillsGeneration
  PROVE  WgInv'
<1>1. /\ RunTypes /\ Ledger /\ LedgerTypes /\ Rooted /\ WorkTypes /\ Launching /\ Fenced /\ Acts \subseteq Slots
      /\ Slots \subseteq Nat
  BY Fields DEF WgInv, Ledger
<1>2. PICK f : f = Least(Cancelling)
  OBVIOUS
<1>3. f \in Slots /\ forks[f].st = "cancelling" /\ f \in Acts
  <2>1. Cancelling \in SUBSET Nat /\ Cancelling # {}
    BY <1>1 DEF Cancelling, KillsGeneration
  <2>2. f \in Cancelling
    BY <1>2, <2>1, LeastOf
  <2> QED
    BY <1>1, <2>2 DEF Cancelling, Rooted
<1>4. UNCHANGED <<acts, forks, checks, repeats, att, eff, lau>>
  BY DEF KillsGeneration, graph
<1>5. CASE UnknownCheck(f)
  <2>1. Fails("turn") /\ UNCHANGED <<chk, proc>>
    BY <1>2, <1>5 DEF KillsGeneration
  <2>2. actor' \in ActorRecs /\ Still /\ run' = [run EXCEPT !.status = "paused"]
    BY <2>1, ActorHere DEF Fails, Moves, Still
  <2> QED
    BY <1>4, <2>1, <2>2, IdleQuietly DEF graph, work
<1>6. CASE ~ UnknownCheck(f)
  <2>1. /\ chk' = [i \in Slots |-> IF i \in Gen(f) /\ chk[i].at = "exec"
                                   THEN [chk[i] EXCEPT !.at = "look", !.res = "err"] ELSE chk[i]]
        /\ proc' = [i \in Slots |-> IF i \in Killed(f) THEN "dead" ELSE proc[i]]
        /\ Unknown(f) => Fails("turn")
        /\ ~ Unknown(f) => actor' = [pc |-> "stopping", at |-> f] /\ fresh' = fresh \cup {View} /\ run' = run
    BY <1>2, <1>6 DEF KillsGeneration
  <2>2. ASSUME NEW j \in Slots
        PROVE  chk'[j] \in ChkRecs /\ (chk'[j].at = "exec" => chk[j].at = "exec" /\ j \notin Gen(f))
    BY <1>1, <2>1 DEF WorkTypes, ChkRecs
  <2>3. ASSUME NEW j \in Slots
        PROVE  /\ proc'[j] \in {"none", "live", "gone", "dead", "lost"}
               /\ proc'[j] = "live" => proc[j] = "live" /\ j \notin Killed(f)
    BY <1>1, <2>1 DEF WorkTypes
  <2>4. chk' \in [Slots -> ChkRecs] /\ proc' \in [Slots -> {"none", "live", "gone", "dead", "lost"}]
    BY <2>1, <2>2, <2>3
  <2>5. /\ actor' \in ActorRecs
        /\ run' = run \/ \E s \in {"running", "paused", "cancelled"} : run' = [run EXCEPT !.status = s]
    <3>1. CASE Unknown(f)
      BY <2>1, <3>1, ActorHere DEF Fails
    <3>2. CASE ~ Unknown(f)
      <4>1. actor' = [pc |-> "stopping", at |-> f] /\ run' = run
        BY <2>1, <3>2
      <4> QED
        BY <1>3, <4>1 DEF ActorRecs
    <3> QED
      BY <3>1, <3>2
  <2>6. run' \in RunRecs /\ run'.plan = run.plan /\ PlainStep
    BY <1>4, <2>5, IdleKept
  <2>7. WorkTypes'
    BY <1>1, <1>4, <2>4, <2>5, <2>6, WorkTyped DEF WorkTypes
  <2>8. Launching'
    BY <1>1, <1>4, <2>3 DEF Launching, Slots
  <2>9. \A j \in Acts : Live(j)' => Live(j)
    BY <1>1, <1>4, <2>2, <2>3 DEF Live
  <2>10. CASE Unknown(f)
    <3>1. Still
      BY <2>1, <2>10 DEF Fails, Moves, Still
    <3> QED
      BY <1>4, <2>6, <2>7, <2>8, <2>9, <3>1, WorkKept
  <2>11. CASE ~ Unknown(f)
    <3>1. \A j \in Gen(f) : ~ Live(j)'
      BY <1>1, <1>3, <1>4, <1>6, <2>2, <2>3, <2>11, GenerationRests
    <3>2. Acts' = Acts /\ \A g : Gen(g)' = Gen(g)
      BY <1>4 DEF Acts, Gen, In
    <3>3. ASSUME NEW g, g = actor'.at
          PROVE  g \in Acts' /\ forks'[g].st = "cancelling" /\ \A j \in Gen(g)' : ~ Live(j)'
      <4>1. g = f
        <5>1. actor' = [pc |-> "stopping", at |-> f]
          BY <2>1, <2>11
        <5> QED
          BY <3>3, <5>1
      <4> QED
        BY <1>3, <1>4, <3>1, <3>2, <4>1
    <3>4. ASSUME NEW i \in Acts', NEW g, g = acts'[i].heir, g # 0
          PROVE  \A j \in Gen(g)' : ~ Live(j)' /\ acts'[j].claim = "none"
      <4>1. i \in Acts /\ \A j \in Gen(g) : ~ Live(j) /\ acts[j].claim = "none"
        BY <1>1, <1>4, <3>2, <3>4 DEF Fenced
      <4>2. \A j \in Gen(g) : j \in Acts
        BY DEF Gen
      <4> QED
        BY <1>4, <2>9, <3>2, <4>1, <4>2
    <3>5. Fenced'
      BY <3>3, <3>4 DEF Fenced
    <3>6. Ledger' /\ RunTypes'
      BY <1>1, <2>6, LedgerKept DEF LedgerStep, RunTypes
    <3> QED
      BY <2>7, <2>8, <3>5, <3>6 DEF WgInv
  <2> QED
    BY <2>10, <2>11
<1> QED
  BY <1>5, <1>6

LEMMA StopKeeps ==
  ASSUME WgInv, StopsFork
  PROVE  WgInv'
<1>1. UNCHANGED <<work, chk, checks, repeats>> /\ actor.pc = "stopping"
  BY DEF StopsFork
<1>2. CASE View \notin fresh
  <2>1. actor' = [actor EXCEPT !.pc = "turn"] /\ UNCHANGED <<run, acts, forks, fresh>>
    BY <1>2 DEF StopsFork
  <2> QED
    BY <1>1, <1>2, <2>1, ActorHere, IdleQuietly DEF graph, Still
<1>3. CASE View \in fresh /\ ~ Room(1)
  <2>1. Fails("turn") /\ UNCHANGED <<acts, forks>>
    BY <1>3 DEF StopsFork
  <2>2. actor' \in ActorRecs /\ Still /\ run' = [run EXCEPT !.status = "paused"]
    BY <2>1, ActorHere DEF Fails, Moves, Still
  <2> QED
    BY <1>1, <2>1, <2>2, IdleQuietly DEF graph
<1>4. CASE View \in fresh /\ Room(1)
  <2>1. PICK f : f = actor.at
    OBVIOUS
  <2>2. RunTypes /\ Ledger /\ LedgerTypes /\ WorkTypes /\ Launching /\ Fenced /\ Len(acts) \in Nat /\ Acts = 1..Len(acts)
    BY Fields DEF WgInv, Ledger
  <2>3. f \in Acts /\ forks[f].st = "cancelling" /\ \A j \in Gen(f) : ~ Live(j)
    BY <1>1, <1>4, <2>1, <2>2 DEF Fenced
  <2>4. /\ acts' = Append([i \in Acts |-> IF In(i, f) THEN [acts[i] EXCEPT !.claim = "none"] ELSE acts[i]],
                          [NewAct(Node(f).repair, acts[f].toks) EXCEPT !.heir = f])
        /\ fresh' = {} /\ actor' = [actor EXCEPT !.pc = "turn"] /\ run' = run
    BY <1>4, <2>1 DEF StopsFork, Moves
  <2>5. acts' # acts
    <3>1. PICK xs : xs = [i \in Acts |-> IF In(i, f) THEN [acts[i] EXCEPT !.claim = "none"] ELSE acts[i]]
      OBVIOUS
    <3>2. xs \in [1..Len(acts) -> {xs[i] : i \in Acts}]
      BY <2>2, <3>1
    <3>3. PICK S : S = {xs[i] : i \in Acts}
      OBVIOUS
    <3>4. xs \in Seq(S) /\ Len(xs) = Len(acts)
      BY <2>2, <3>2, <3>3, SequenceOf
    <3>5. PICK a : a = [NewAct(Node(f).repair, acts[f].toks) EXCEPT !.heir = f]
      OBVIOUS
    <3>6. acts' = Append(xs, a)
      BY <2>4, <3>1, <3>5
    <3>7. Len(acts') = Len(acts) + 1
      BY <3>4, <3>6
    <3> QED
      BY <2>2, <3>7
  <2>6. RepairStep(f)
    BY <2>1, <2>2, <2>3, <2>5, RepairTaken
  <2>7. Ledger' /\ run' \in RunRecs /\ run'.plan = run.plan
    BY <2>2, <2>3, <2>4, <2>6, LedgerKept DEF LedgerStep, RunTypes
  <2>8. UNCHANGED <<proc, lau, chk>>
    BY <1>1 DEF work
  <2>9. Fenced'
    BY <2>2, <2>3, <2>4, <2>6, <2>7, <2>8, FencedByRepair
  <2>10. WorkTypes'
    BY <1>1, <2>2, <2>4, <2>7, ActorHere, WorkTyped DEF WorkTypes, work
  <2>11. Launching'
    BY <1>1, <2>2 DEF Launching, Slots, work
  <2> QED
    BY <2>7, <2>9, <2>10, <2>11 DEF WgInv, RunTypes
<1> QED
  BY <1>2, <1>3, <1>4

-----------------------------------------------------------------------------
(* The theorems. *)

LEMMA Stuttering ==
  ASSUME WgInv, UNCHANGED wgVars
  PROVE  WgInv'
<1>1. UNCHANGED <<run, graph, work, chk, actor, fresh>>
  BY DEF wgVars
<1>2. Still /\ actor' \in ActorRecs
  BY <1>1, ActorHere DEF Still, graph, work, Live
<1> QED
  BY <1>1, <1>2, IdleQuietly

LEMMA NextKeeps ==
  ASSUME WgInv, WgNext
  PROVE  WgInv'
<1>1. CASE Actor
  BY <1>1, TurnKeeps, DriveKeeps, KillsKeeps, StopKeeps, OthersKeep DEF Actor
<1>2. CASE LetsGo \/ PauseRun \/ ResumeGraph
  BY <1>2, OthersKeep
<1>3. CASE CancelRun \/ Crash
  BY <1>3, CancelKeeps, CrashKeeps
<1>4. ASSUME NEW i \in Acts,
             \/ Launch(i) \/ Check(i) \/ AgentExits(i) \/ ExitRecorded(i)
             \/ ResolvesPause(i) \/ SettlesEffect(i)
             \/ \E o \in Reports : AgentReports(i, o)
      PROVE  WgInv'
  BY <1>4, LaunchKeeps, CheckKeeps, AgentKeeps, ResolveKeeps
<1> QED
  BY <1>1, <1>2, <1>3, <1>4 DEF WgNext

LEMMA InitHolds ==
  ASSUME WgInit
  PROVE  WgInv
<1>1. PICK p \in DOMAIN Plans : run = [plan |-> p, status |-> "running", loops |-> 0, receipt |-> "none"]
  BY DEF WgInit
<1>2. RunTypes
  BY <1>1, PlansAssumption DEF RunTypes, RunRecs
<1>3. "start" \in Names /\ Graph["start"].kind = "start" /\ Where["start"] = "none"
  BY <1>2, PlanFacts DEF Regular, Names
<1>4. PICK a : a = NewAct("start", <<>>)
  OBVIOUS
<1>5. /\ a \in ActRecs /\ a.node = "start" /\ a.toks = <<>> /\ a.st = "ready" /\ a.join = 0 /\ a.heir = 0
      /\ a.claim = "none" /\ a.wait = FALSE
  <2>1. <<>> \in Seq(Slots \X Nat)
    OBVIOUS
  <2> QED
    BY <1>3, <1>4, <2>1, Fresh
<1>6. acts = <<a>> /\ Len(acts) = 1 /\ Acts = {1} /\ acts[1] = a /\ acts \in Seq(ActRecs)
  BY <1>4, <1>5 DEF WgInit, Acts
<1>7. forks = [f \in Slots |-> NoFork] /\ NoFork \in ForkRecs /\ NoFork.st = "none" /\ forks \in [Slots -> ForkRecs]
  <2>1. <<>> \in Seq(Settled)
    OBVIOUS
  <2>2. NoFork \in ForkRecs
    BY <2>1 DEF NoFork, ForkRecs, Settled
  <2> QED
    BY <2>2 DEF WgInit, NoFork
<1>8. MaxActs \in 1..MaxSlots /\ MaxSlots \in Nat /\ 1 \in Slots
  BY <1>2, PlanFacts DEF Slots
<1>9. LedgerTypes
  BY <1>5, <1>6, <1>7, <1>8 DEF LedgerTypes
<1>10. Toks(1) = <<>> /\ Len(Toks(1)) = 0 /\ ~ Branch(1) /\ Kind(1) = "start"
  BY <1>3, <1>5, <1>6 DEF Toks, Branch, Kind, Node
<1>11. \A f \in Slots : forks[f].st = "none"
  BY <1>7
<1>12. Placed /\ Rooted /\ Enclosed /\ Carried /\ Succeeded /\ Held
  <2>1. Placed
    BY <1>3, <1>5, <1>6, <1>10 DEF Placed
  <2>2. Rooted /\ Carried
    BY <1>11 DEF Rooted, Carried
  <2>3. Enclosed /\ Held
    BY <1>5, <1>6, <1>10 DEF Enclosed, Held
  <2>4. Succeeded
    BY <1>5, <1>6, <1>10 DEF Succeeded
  <2> QED
    BY <2>1, <2>2, <2>3, <2>4
<1>13. WorkTypes
  <2>1. checks \in Seq(Bindings) /\ repeats \in [Names -> Nat]
    BY DEF WgInit, Names
  <2>2. att \in [Slots -> AttRecs] /\ chk \in [Slots -> ChkRecs]
    BY DEF WgInit, AttRecs, ChkRecs
  <2>3. actor \in ActorRecs
    BY <1>8 DEF WgInit, ActorRecs
  <2> QED
    BY <2>1, <2>2, <2>3 DEF WgInit, WorkTypes
<1>14. Launching
  BY DEF WgInit, Launching
<1>15. Fenced
  BY <1>5, <1>6 DEF WgInit, Fenced
<1> QED
  BY <1>2, <1>9, <1>12, <1>13, <1>14, <1>15 DEF WgInv, Ledger

\* WgInv holds throughout: it is the invariant all the others follow from.
THEOREM RegionsStayWhole == WgSpec => []WgInv
<1>1. WgInit => WgInv
  BY InitHolds
<1>2. WgInv /\ [WgNext]_wgVars => WgInv'
  BY NextKeeps, Stuttering
<1> QED
  BY <1>1, <1>2, PTL DEF WgSpec

\* Types; a wait or a claim belongs to a branch, and an agent is bound only with its spawn done.
THEOREM GraphTypes == WgSpec => []TypeWg
<1>1. WgInv => TypeWg
  <2> SUFFICES ASSUME WgInv PROVE TypeWg
    OBVIOUS
  <2>1. RunTypes /\ Ledger /\ LedgerTypes /\ WorkTypes /\ Launching
    BY DEF WgInv, Ledger
  <2>2. run.status \in {"running", "paused", "cancelled"} /\ run.loops \in 0..MaxLoops
    BY <2>1, RunFields, PlanFacts
  <2>3. Len(acts) <= MaxActs
    BY <2>1, ActsTyped
  <2>4. ASSUME NEW i \in Acts
        PROVE  /\ acts[i].node \in DOMAIN Graph
               /\ acts[i].st \in {"ready", "running", "paused", "completed", "superseded"}
               /\ acts[i].claim \in {"none", "mine", "other"} /\ acts[i].wait \in BOOLEAN
               /\ acts[i].wait \/ acts[i].claim # "none" => Branch(i)
    BY <2>1, Fields, ActsTyped DEF Names
  <2>5. ASSUME NEW i \in Slots
        PROVE  /\ forks[i].st \in {"none", "open", "joined", "cancelling", "superseded"}
               /\ eff[i] \in {"none", "intended", "succeeded", "failed", "uncertain"}
               /\ att[i].bound => eff[i] = "succeeded"
               /\ proc[i] \in {"none", "live", "gone", "dead", "lost"}
    BY <2>1, Fields DEF WorkTypes, Launching
  <2> QED
    BY <2>2, <2>3, <2>4, <2>5 DEF TypeWg
<1> QED
  BY <1>1, RegionsStayWhole, PTL

\* The ledger loses no branch and doubles none: an unsettled branch of an open fork is carried by
\* exactly one activation or region inside it, a settled one by none.
THEOREM NoBranchIsLost == WgSpec => []BranchesCarried
<1>1. WgInv => BranchesCarried
  <2> SUFFICES ASSUME WgInv, NEW f \in Slots, forks[f].st = "open", NEW b \in Branches(f)
               PROVE  Cardinality(Carriers(f, b)) = IF forks[f].arr[b] = "none" THEN 1 ELSE 0
    BY DEF BranchesCarried
  <2>1. LedgerTypes /\ RunTypes /\ Enclosed /\ CarriedAt(f, b)
    BY DEF WgInv, Ledger, Carried
  <2>2. ASSUME NEW x
        PROVE  x \in Carriers(f, b) <=> Carries(x, f, b)
    <3>1. CASE x \in Acts /\ Branch(x) /\ Token(x) = <<f, b>>
      <4>1. acts[x].st \in {"ready", "running", "paused", "completed", "superseded"}
        BY <2>1, <3>1, Fields
      <4>2. acts[x].st # "superseded"
        BY <2>1, <3>1 DEF Enclosed
      <4>3. acts[x].st # "completed" <=> Alive(x)
        BY <4>1, <4>2 DEF Alive
      <4> QED
        BY <3>1, <4>3 DEF Carriers, Carries, Runs
    <3>2. CASE ~ (x \in Acts /\ Branch(x) /\ Token(x) = <<f, b>>)
      BY <3>2 DEF Carriers, Carries
    <3> QED
      BY <3>1, <3>2
  <2>3. CASE forks[f].arr[b] = "none"
    <3>1. PICK x \in Acts : Carries(x, f, b)
      BY <2>1, <2>3 DEF CarriedAt
    <3>2. \A y : Carries(y, f, b) => y = x
      BY <2>1, <3>1 DEF CarriedAt, Carries
    <3>3. Carriers(f, b) = {x}
      BY <2>2, <3>1, <3>2
    <3> QED
      BY <2>3, <3>3, FS_Singleton
  <2>4. CASE forks[f].arr[b] # "none"
    <3>1. \A y : ~ Carries(y, f, b)
      BY <2>1, <2>4 DEF CarriedAt, Carries
    <3>2. Carriers(f, b) = {}
      BY <2>2, <3>1
    <3> QED
      BY <2>4, <3>2, FS_EmptySet
  <2> QED
    BY <2>3, <2>4
<1> QED
  BY <1>1, RegionsStayWhole, PTL

\* A region has one successor: its join, after every branch, or the repair of a generation that
\* was superseded; never both, and neither twice.
THEOREM RegionsEndOnce == WgSpec => []OneSuccessor
<1>1. WgInv => OneSuccessor
  <2> SUFFICES ASSUME WgInv, NEW f \in Slots,
                      NEW joins, joins = {i \in Acts : acts[i].join = f},
                      NEW heirs, heirs = {i \in Acts : acts[i].heir = f}
               PROVE  /\ Cardinality(joins) + Cardinality(heirs) <= 1
                      /\ joins # {} => forks[f].st \in {"joined", "superseded"} /\ \A b \in Branches(f) : forks[f].arr[b] # "none"
                      /\ heirs # {} => forks[f].st = "superseded"
    BY DEF OneSuccessor
  <2>1. Succeeded /\ f # 0
    BY DEF WgInv, Ledger, Slots
  <2>2. \A i \in joins : /\ forks[f].st = "joined" \/ (forks[f].st = "superseded" /\ Branch(f))
                         /\ \A b \in Branches(f) : forks[f].arr[b] # "none"
    BY <2>1 DEF Succeeded
  <2>3. \A i \in heirs : forks[f].st = "superseded" /\ ~ Branch(f)
    BY <2>1 DEF Succeeded
  <2>4. joins = {} \/ heirs = {}
    BY <2>2, <2>3
  <2>5. Cardinality(joins) \in {0, 1} /\ (joins = {} => Cardinality(joins) = 0)
    <3>1. \A i, j \in joins : i = j
      BY <2>1 DEF Succeeded
    <3>2. joins = {} \/ \E i : joins = {i}
      BY <3>1
    <3> QED
      BY <3>2, FS_EmptySet, FS_Singleton
  <2>6. Cardinality(heirs) \in {0, 1} /\ (heirs = {} => Cardinality(heirs) = 0)
    <3>1. \A i, j \in heirs : i = j
      BY <2>1 DEF Succeeded
    <3>2. heirs = {} \/ \E i : heirs = {i}
      BY <3>1
    <3> QED
      BY <3>2, FS_EmptySet, FS_Singleton
  <2>7. Cardinality(joins) + Cardinality(heirs) <= 1
    BY <2>4, <2>5, <2>6
  <2> QED
    BY <2>2, <2>3, <2>7
<1> QED
  BY <1>1, RegionsStayWhole, PTL

\* The repair starts only when nothing of the old generation works or may come to work, and
\* nothing of it ever works again.
THEOREM RepairWaits == WgSpec => []RepairFenced
<1>1. WgInv => RepairFenced
  BY DEF WgInv, Fenced, RepairFenced
<1> QED
  BY <1>1, RegionsStayWhole, PTL

=============================================================================
