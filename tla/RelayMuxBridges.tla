-------------------------- MODULE RelayMuxBridges --------------------------
(***************************************************************************)
(* The invariant of a multiplexed session, MuxInv, and the steps of the     *)
(* bridges: a reader or a writer of one stream moves, and what the other    *)
(* end, the other streams and the way between them hold still agrees.       *)
(***************************************************************************)
EXTENDS RelayMux, FiniteSetTheorems, TLAPS

-----------------------------------------------------------------------------
(* Queues of frames. *)

In(q, f)   == \E i \in 1..Len(q) : q[i] = f
Once(q, f) == \A i, j \in 1..Len(q) : q[i] = f /\ q[j] = f => i = j
\* Before every g of q there is an f.
Precedes(q, f, g) == \A i \in 1..Len(q) : q[i] = g => \E j \in 1..(i - 1) : q[j] = f
\* No g of q is before an f.
Leads(q, f, g) == \A i, j \in 1..Len(q) : q[i] = f /\ q[j] = g => i < j
Count(q, f) == Cardinality({i \in 1..Len(q) : q[i] = f})

-----------------------------------------------------------------------------
(* The invariant. *)

DataKinds == {"Data", "Fin"}
\* Only the desktop opens streams, and only the daemon answers.
CtlKinds(e) == IF e = "desktop" THEN {"Open", "WindowUpdate", "Reset"}
               ELSE {"Opened", "OpenFailed", "WindowUpdate", "Reset"}
Frames == {Frame(k, s) : k \in Kinds, s \in Streams} \cup {DataFrame(s, n) : s \in Streams, n \in Nat}
Events == [kind : DataKinds \cup {"Reset"}, n : Nat]
Entries == [outstanding : Nat, unread : Nat, lfin : BOOLEAN, rfin : BOOLEAN,
            opening : BOOLEAN, present : BOOLEAN]
Reasons == {"open", "protocol", "reused", "crypto", "link", "shutdown"}
RdStates == {"off", "reading", "writing", "ended", "over"}
WrStates == {"off", "idle", "stream", "conn", "data", "fin", "ended", "over"}
Openers == {"idle", "reserved", "waiting", "open", "failed"}
Dials   == {"none", "dialing", "done", "refused"}
Asked   == {"reserved", "waiting"}

MuxShape ==
  /\ table \in [Ends -> [Streams -> Entries]]
  /\ sema \in [Ends -> [Streams -> {n \in Int : n >= -1}]]
  /\ pool \in [Ends -> 0..ConnCredit] /\ closed \in [Ends -> Reasons]
  /\ gap \in [Ends -> BOOLEAN] /\ inbox \in [Ends -> [Streams -> Seq(Events)]]
  /\ opener \in [Streams -> Openers] /\ dialed \in [Streams -> Dials]
  /\ rd \in [Ends -> [Streams -> RdStates]] /\ wr \in [Ends -> [Streams -> WrStates]]
  /\ put \in [Ends -> [Streams -> Nat]] /\ got \in [Ends -> [Streams -> Nat]]
  /\ \A e \in Ends, s \in Streams : ~ Live(e, s) => table[e][s] = Absent

QueueShape ==
  /\ ctl \in [Ends -> Seq(Frames)] /\ data \in [Ends -> Seq(Frames)]
  /\ wire \in [Ends -> Seq(Frames)]
  /\ \A e \in Ends :
       /\ Len(data[e]) <= DataCap
       /\ \A i \in 1..Len(ctl[e]) : ctl[e][i].kind \in CtlKinds(e)
       /\ \A i \in 1..Len(data[e]) : data[e][i].kind \in DataKinds
       /\ \A i \in 1..Len(wire[e]) : wire[e][i].kind \in CtlKinds(e) \cup DataKinds

\* Where the data of stream s on its way from e to the other end may be.
InFlight(e, f) == In(wire[e], f) \/ In(data[e], f)
Queued(e, f)   == In(wire[e], f) \/ In(ctl[e], f)
Unread(e, s)   == table[e][s].unread
Ending(e, s)   == table[e][s].rfin /\ rd[e][s] # "ended"   \* a Fin waits to be read
Read(e, s)     == got[e][s] + Unread(e, s)        \* taken from the link by e

\* What the reader of s at the end o has before it: chunks without a gap, then the end.
Inbox(e, s) ==
  LET o == Other(e)
      q == inbox[o][s]
  IN  /\ got[o][s] <= put[e][s] /\ put[e][s] <= Chunks[e]
      /\ \A i \in 1..Len(q) :
           /\ q[i].kind = "Data" => q[i].n = got[o][s] + i /\ got[o][s] + i <= put[e][s]
           /\ q[i].kind = "Fin" => got[o][s] + i = put[e][s] + 1
      /\ Live(o, s) =>
           /\ Len(q) = Unread(o, s) + (IF Ending(o, s) THEN 1 ELSE 0)
           /\ \A i \in 1..Unread(o, s) : q[i].kind = "Data"
           /\ Ending(o, s) => q[Unread(o, s) + 1].kind = "Fin"
      /\ rd[o][s] = "ended" => got[o][s] = put[e][s] /\ (Live(o, s) => table[o][s].rfin)

\* A writer with something in its hands has it to say; the end of the stream comes last.
Sent(e, s) ==
  LET o == Other(e) IN
  /\ wr[e][s] \in {"stream", "conn", "data"} => put[e][s] < Chunks[e]
  /\ \/ InFlight(e, Frame("Fin", s)) \/ table[o][s].rfin \/ rd[o][s] = "ended"
     \/ \E i \in 1..Len(inbox[o][s]) : inbox[o][s][i].kind = "Fin"
     => wr[e][s] \in {"ended", "over"}

Updates(e, s) == Count(ctl[e], Frame("WindowUpdate", s)) + Count(wire[e], Frame("WindowUpdate", s))
Free(e, s)  == IF sema[e][s] > 0 THEN sema[e][s] ELSE 0
Holds(e, s) == IF wr[e][s] \in {"conn", "data"} THEN 1 ELSE 0
Taken(e, s) == IF wr[e][s] = "data" THEN 1 ELSE 0

\* The permits of a stream: free, held, used by a chunk nobody has read, on the way back.
Window(e, s) ==
  LET away == put[e][s] - got[Other(e)][s] + Updates(Other(e), s) IN
  /\ Free(e, s) + Holds(e, s) + away <= StreamCredit
  /\ Live(e, s) => sema[e][s] >= 0 /\ Taken(e, s) + away <= table[e][s].outstanding

\* Chunks that must be read before frame g of the stream.
Items(s) == {DataFrame(s, n) : n \in Nat} \cup {Frame("Fin", s)}
Earlier(e, g) ==
  {m \in Nat : /\ m > Read(Other(e), g.s) /\ m <= put[e][g.s]
               /\ g.kind = "Data" => m < g.n}

\* As long as nothing is lost, the frames of a stream come in order, each one once.
InOrder(e, g) ==
  /\ InFlight(e, g) => ~ table[Other(e)][g.s].rfin
  /\ InFlight(e, g) /\ g.kind = "Data" => g.n > Read(Other(e), g.s) /\ g.n <= put[e][g.s]
  /\ Once(wire[e], g) /\ Once(data[e], g) /\ ~ (In(wire[e], g) /\ In(data[e], g))
  /\ \A m \in Earlier(e, g) :
       /\ Precedes(wire[e], DataFrame(g.s, m), g)
       /\ \/ In(wire[e], DataFrame(g.s, m)) \/ ~ In(data[e], g)
          \/ Precedes(data[e], DataFrame(g.s, m), g)
Order(e, s) ==
  Live(Other(e), s) /\ ~ gap[e] =>
    /\ \A g \in Items(s) : InOrder(e, g)
    /\ closed[e] = "open" =>
         \A m \in Nat : m > Read(Other(e), s) /\ m <= put[e][s] => InFlight(e, DataFrame(s, m))

\* Nothing of a stream is anywhere before it is asked for, and little before it is dialed.
Unheard(e, s) == \A f \in Frames : f.s = s => ~ Queued(e, f) /\ ~ In(data[e], f)
Still(e, s) == rd[e][s] = "off" /\ wr[e][s] = "off"
Start(s) ==
  /\ opener[s] = "idle" => /\ dialed[s] = "none" /\ Unheard("desktop", s)
                           /\ ~ Live("desktop", s)
  /\ dialed[s] = "none" =>
       /\ Unheard("daemon", s) /\ ~ Live("daemon", s)
       /\ \A f \in Frames : f.s = s =>
            ~ In(data["desktop"], f) /\ (Queued("desktop", f) => f.kind = "Open")
       /\ \A e \in Ends : /\ Still(e, s) /\ inbox[e][s] = <<>>
                          /\ put[e][s] = 0 /\ got[e][s] = 0
  /\ dialed[s] # "done" => Still("daemon", s)

\* The desktop's entry waits for an answer exactly while the opener does; the answer
\* comes once, and no Reset of the daemon comes before it.
Answers(s) == {Frame("Opened", s), Frame("OpenFailed", s)}
Answer(s) ==
  LET R == Frame("Reset", s) IN
  /\ dialed[s] \in {"none", "dialing"} =>
       \A f \in Answers(s) \cup {R} : ~ Queued("daemon", f)
  /\ \A f \in Answers(s) :
       /\ Once(wire["daemon"], f) /\ Once(ctl["daemon"], f)
       /\ ~ (In(wire["daemon"], f) /\ In(ctl["daemon"], f))
       /\ \A g \in Answers(s) : Queued("daemon", f) /\ Queued("daemon", g) => f = g
       /\ Leads(wire["daemon"], f, R) /\ Leads(ctl["daemon"], f, R)
       /\ ~ (In(wire["daemon"], R) /\ In(ctl["daemon"], f))
Opening(s) ==
  /\ ~ table["daemon"][s].opening
  /\ table["desktop"][s].opening =>
       /\ opener[s] \in Asked /\ ~ table["desktop"][s].lfin /\ Still("desktop", s)
  /\ closed["desktop"] = "open" =>
       /\ opener[s] \in Asked => table["desktop"][s].opening
       /\ dialed[s] = "none" /\ opener[s] # "idle" => opener[s] \in Asked
       /\ dialed[s] = "dialing" => opener[s] \in Asked
       /\ \A f \in Answers(s) : Queued("daemon", f) => opener[s] \in Asked

Line(e, s) == Inbox(e, s) /\ Sent(e, s) /\ Window(e, s) /\ Order(e, s)
StreamInv(s) == /\ \A e \in Ends : Line(e, s)
                /\ Start(s) /\ Answer(s) /\ Opening(s)
MuxInv ==
  /\ MuxShape /\ QueueShape /\ ConnectionCreditWhole /\ NoFalseAccusation
  /\ \A s \in Streams : StreamInv(s)

-----------------------------------------------------------------------------
(* Queues of frames: what a frame at the end or at the head changes. *)

LEMMA AppendIs ==
  ASSUME NEW S, NEW q \in Seq(S), NEW h \in S
  PROVE  /\ Append(q, h) \in Seq(S) /\ Len(Append(q, h)) = Len(q) + 1 /\ Len(q) \in Nat
         /\ \A i \in 1..Len(q) : Append(q, h)[i] = q[i]
         /\ Append(q, h)[Len(q) + 1] = h
OBVIOUS

LEMMA TailIs ==
  ASSUME NEW S, NEW q \in Seq(S), q # <<>>
  PROVE  /\ Tail(q) \in Seq(S) /\ Len(Tail(q)) = Len(q) - 1 /\ Len(q) \in Nat \ {0}
         /\ \A i \in 1..Len(Tail(q)) : Tail(q)[i] = q[i + 1]
         /\ Head(q) = q[1] /\ Head(q) \in S
OBVIOUS

LEMMA CountIsNat ==
  ASSUME NEW S, NEW q \in Seq(S), NEW f
  PROVE  /\ Count(q, f) \in Nat /\ IsFiniteSet({i \in 1..Len(q) : q[i] = f})
         /\ In(q, f) => Count(q, f) > 0
         /\ ~ In(q, f) => Count(q, f) = 0
<1> DEFINE N == {i \in 1..Len(q) : q[i] = f}
<1>1. IsFiniteSet(1..Len(q)) /\ N \subseteq 1..Len(q)
  <2>1. Len(q) \in Nat
    OBVIOUS
  <2> QED
    BY <2>1, FS_Interval
<1>2. IsFiniteSet(N) /\ Cardinality(N) \in Nat
  BY <1>1, FS_Subset, FS_CardinalityType
<1>3. Cardinality(N) = 0 <=> N = {}
  BY <1>2, FS_EmptySet, Zenon
<1>4. In(q, f) <=> N # {}
  BY DEF In
<1> QED
  BY <1>2, <1>3, <1>4 DEF Count

\* A frame at the end.
LEMMA AppendQueue ==
  ASSUME NEW S, NEW q \in Seq(S), NEW h \in S
  PROVE  /\ \A f : In(Append(q, h), f) <=> In(q, f) \/ f = h
         /\ \A f : Once(q, f) /\ (f = h => ~ In(q, f)) => Once(Append(q, h), f)
         /\ \A f, g : Precedes(q, f, g) /\ (g = h => In(q, f)) => Precedes(Append(q, h), f, g)
         /\ \A f, g : Leads(q, f, g) /\ f # g /\ (f = h => ~ In(q, g)) => Leads(Append(q, h), f, g)
         /\ \A f : Count(Append(q, h), f) = Count(q, f) + (IF f = h THEN 1 ELSE 0)
<1> DEFINE r == Append(q, h)
<1>1. /\ Len(r) = Len(q) + 1 /\ Len(q) \in Nat
      /\ \A i \in 1..Len(q) : r[i] = q[i]
      /\ r[Len(q) + 1] = h /\ r \in Seq(S)
  BY AppendIs
<1> HIDE DEF r
<1>2. \A i \in 1..Len(r) : i \in 1..Len(q) \/ i = Len(q) + 1
  BY <1>1
<1>3. ASSUME NEW f
      PROVE  In(r, f) <=> In(q, f) \/ f = h
  <2>1. Len(q) + 1 \in 1..Len(r) /\ 1..Len(q) \subseteq 1..Len(r)
    BY <1>1
  <2> QED
    BY <1>1, <1>2, <2>1, Zenon DEF In
<1>4. ASSUME NEW f, Once(q, f), f = h => ~ In(q, f)
      PROVE  Once(r, f)
  BY <1>1, <1>2, <1>4 DEF Once, In
<1>5. ASSUME NEW f, NEW g, Precedes(q, f, g), g = h => In(q, f)
      PROVE  Precedes(r, f, g)
  <2> SUFFICES ASSUME NEW i \in 1..Len(r), r[i] = g
               PROVE  \E j \in 1..(i - 1) : r[j] = f
    BY DEF Precedes
  <2>1. CASE i \in 1..Len(q)
    <3>1. PICK j \in 1..(i - 1) : q[j] = f
      BY <2>1, <1>1, <1>5 DEF Precedes
    <3> QED
      BY <3>1, <2>1, <1>1
  <2>2. CASE i = Len(q) + 1
    <3>1. PICK j \in 1..Len(q) : q[j] = f
      BY <2>2, <1>1, <1>5 DEF In
    <3> QED
      BY <3>1, <2>2, <1>1
  <2> QED
    BY <2>1, <2>2, <1>2
<1>6. ASSUME NEW f, NEW g, Leads(q, f, g), f # g, f = h => ~ In(q, g)
      PROVE  Leads(r, f, g)
  <2> SUFFICES ASSUME NEW i \in 1..Len(r), NEW j \in 1..Len(r), r[i] = f, r[j] = g
               PROVE  i < j
    BY DEF Leads
  <2> QED
    BY <1>1, <1>2, <1>6 DEF Leads, In
<1>7. ASSUME NEW f
      PROVE  Count(r, f) = Count(q, f) + (IF f = h THEN 1 ELSE 0)
  <2> DEFINE N == {i \in 1..Len(q) : q[i] = f}
             M == {i \in 1..Len(r) : r[i] = f}
  <2>1. IsFiniteSet(N) /\ Cardinality(N) \in Nat
    BY CountIsNat, Zenon DEF Count
  <2>2. CASE f = h
    <3>1. M = N \cup {Len(q) + 1}
      BY <2>2, <1>1, <1>2
    <3>2. Len(q) + 1 \notin N
      BY <1>1
    <3>3. Cardinality(N \cup {Len(q) + 1}) = Cardinality(N) + 1
      BY <2>1, <3>2, FS_AddElement, Zenon
    <3> QED
      BY <3>1, <3>3, <2>2, Zenon DEF Count
  <2>3. CASE f # h
    <3>1. M = N
      BY <2>3, <1>1, <1>2
    <3>2. Count(r, f) = Cardinality(N) /\ Count(q, f) = Cardinality(N)
      BY <3>1, Zenon DEF Count
    <3>3. (IF f = h THEN 1 ELSE 0) = 0
      BY <2>3
    <3> QED
      BY <3>2, <3>3, <2>1
  <2> QED
    BY <2>2, <2>3
<1> QED
  BY <1>3, <1>4, <1>5, <1>6, <1>7 DEF r

\* The head leaves.
LEMMA TailQueue ==
  ASSUME NEW S, NEW q \in Seq(S), q # <<>>
  PROVE  /\ \A f : In(q, f) <=> In(Tail(q), f) \/ f = Head(q)
         /\ \A f : Once(q, f) => Once(Tail(q), f) /\ (f = Head(q) => ~ In(Tail(q), f))
         /\ \A f, g : Precedes(q, f, g) => (f # Head(q) => Precedes(Tail(q), f, g)) /\ g # Head(q)
         /\ \A f, g : Leads(q, f, g) => Leads(Tail(q), f, g) /\ (g = Head(q) /\ f # g => ~ In(Tail(q), f))
         /\ \A f : Count(q, f) = Count(Tail(q), f) + (IF f = Head(q) THEN 1 ELSE 0)
<1> DEFINE r == Tail(q)
           h == Head(q)
<1>1. /\ Len(r) = Len(q) - 1 /\ Len(q) \in Nat \ {0}
      /\ \A i \in 1..Len(r) : r[i] = q[i + 1]
      /\ h = q[1] /\ r \in Seq(S)
  BY TailIs
<1> HIDE DEF r, h
<1>2. \A i \in 1..Len(q) : i = 1 \/ (i - 1 \in 1..Len(r) /\ q[i] = r[i - 1])
  BY <1>1
<1>3. \A i \in 1..Len(r) : i + 1 \in 1..Len(q)
  BY <1>1
<1>4. ASSUME NEW f
      PROVE  In(q, f) <=> In(r, f) \/ f = h
  <2>1. 1 \in 1..Len(q)
    BY <1>1
  <2> QED
    BY <1>1, <1>2, <1>3, <2>1 DEF In
<1>5. ASSUME NEW f, Once(q, f)
      PROVE  Once(r, f) /\ (f = h => ~ In(r, f))
  <2>1. Once(r, f)
    BY <1>1, <1>3, <1>5 DEF Once
  <2>2. ASSUME f = h, In(r, f)
        PROVE  FALSE
    <3>1. PICK i \in 1..Len(r) : r[i] = f
      BY <2>2 DEF In
    <3>2. i + 1 \in 1..Len(q) /\ 1 \in 1..Len(q) /\ q[i + 1] = f /\ q[1] = f
      BY <3>1, <1>1, <1>3, <2>2
    <3>3. i + 1 = 1
      BY <3>2, <1>5 DEF Once
    <3> QED
      BY <3>3
  <2> QED
    BY <2>1, <2>2
<1>6. ASSUME NEW f, NEW g, Precedes(q, f, g)
      PROVE  (f # h => Precedes(r, f, g)) /\ g # h
  <2>1. g # h
    <3> SUFFICES ASSUME g = h PROVE FALSE
      OBVIOUS
    <3>1. 1 \in 1..Len(q) /\ q[1] = g
      BY <1>1
    <3>2. \E j \in 1..(1 - 1) : q[j] = f
      BY <3>1, <1>6 DEF Precedes
    <3> QED
      BY <3>2
  <2>2. ASSUME f # h, NEW i \in 1..Len(r), r[i] = g
        PROVE  \E j \in 1..(i - 1) : r[j] = f
    <3>1. PICK j \in 1..((i + 1) - 1) : q[j] = f
      BY <2>2, <1>1, <1>3, <1>6 DEF Precedes
    <3>2. j # 1 /\ j \in 1..Len(q)
      BY <3>1, <2>2, <1>1
    <3>3. j - 1 \in 1..(i - 1) /\ r[j - 1] = f
      BY <3>1, <3>2, <1>2, <1>1
    <3> QED
      BY <3>3
  <2> QED
    BY <2>1, <2>2 DEF Precedes
<1>7. ASSUME NEW f, NEW g, Leads(q, f, g)
      PROVE  Leads(r, f, g) /\ (g = h /\ f # g => ~ In(r, f))
  <2>1. Leads(r, f, g)
    <3> SUFFICES ASSUME NEW i \in 1..Len(r), NEW j \in 1..Len(r), r[i] = f, r[j] = g
                 PROVE  i < j
      BY DEF Leads
    <3>1. i + 1 \in 1..Len(q) /\ j + 1 \in 1..Len(q) /\ q[i + 1] = f /\ q[j + 1] = g
      BY <1>1, <1>3
    <3>2. i + 1 < j + 1
      BY <3>1, <1>7 DEF Leads
    <3> QED
      BY <3>2
  <2>2. ASSUME g = h, NEW i \in 1..Len(r), r[i] = f
        PROVE  FALSE
    <3>1. i + 1 \in 1..Len(q) /\ 1 \in 1..Len(q) /\ q[i + 1] = f /\ q[1] = g
      BY <1>1, <1>3, <2>2
    <3>2. i + 1 < 1
      BY <3>1, <1>7 DEF Leads
    <3> QED
      BY <3>2
  <2> QED
    BY <2>1, <2>2 DEF In
<1>8. ASSUME NEW f
      PROVE  Count(q, f) = Count(r, f) + (IF f = h THEN 1 ELSE 0)
  <2> DEFINE N == {i \in 1..Len(r) : r[i] = f}
             M == {i \in 1..Len(q) : q[i] = f}
             P == M \ {1}
  <2>1. IsFiniteSet(N) /\ IsFiniteSet(M)
    BY <1>1, CountIsNat, Zenon
  <2>2. Cardinality(P) = Cardinality(N)
    <3> DEFINE B == [i \in N |-> i + 1]
    <3>1. \A i \in N : i + 1 \in P
      BY <1>1, <1>3
    <3>2. \A j \in P : j - 1 \in N /\ j = (j - 1) + 1
      BY <1>1, <1>2
    <3>3. B \in [N -> P]
      BY <3>1
    <3>4. \A i, j \in N : B[i] = B[j] => i = j
      OBVIOUS
    <3>5. \A j \in P : \E i \in N : B[i] = j
      BY <3>2
    <3>6. B \in Bijection(N, P)
      BY <3>3, <3>4, <3>5 DEF Bijection, Injection, IsInjective, Surjection
    <3> HIDE DEF B
    <3>7. ExistsBijection(N, P)
      BY <3>6 DEF ExistsBijection
    <3> QED
      BY <3>7, <2>1, FS_Bijection
  <2>3. IsFiniteSet(P) /\ Cardinality(P) \in Nat
    BY <2>1, FS_Subset, FS_CardinalityType
  <2>4. CASE f = h
    <3>1. M = P \cup {1}
      BY <2>4, <1>1
    <3>2. 1 \notin P
      OBVIOUS
    <3>3. Cardinality(P \cup {1}) = Cardinality(P) + 1
      BY <2>3, <3>2, FS_AddElement, Zenon
    <3> QED
      BY <3>1, <3>3, <2>2, <2>4, Zenon DEF Count
  <2>5. CASE f # h
    <3>1. M = P
      BY <2>5, <1>1
    <3>2. Count(q, f) = Cardinality(P) /\ Count(r, f) = Cardinality(P)
      BY <3>1, <2>2, Zenon DEF Count
    <3>3. (IF f = h THEN 1 ELSE 0) = 0
      BY <2>5
    <3> QED
      BY <3>2, <3>3, <2>3
  <2> QED
    BY <2>4, <2>5
<1> QED
  BY <1>4, <1>5, <1>6, <1>7, <1>8 DEF r, h

LEMMA NothingQueued ==
  /\ \A f : ~ In(<<>>, f) /\ Once(<<>>, f) /\ Count(<<>>, f) = 0
  /\ \A f, g : Precedes(<<>>, f, g) /\ Leads(<<>>, f, g)
<1>1. Len(<<>>) = 0
  OBVIOUS
<1>2. \A f : {i \in 1..Len(<<>>) : <<>>[i] = f} = {}
  BY <1>1
<1>3. Cardinality({}) = 0
  BY FS_EmptySet
<1> QED
  BY <1>1, <1>2, <1>3 DEF In, Once, Count, Precedes, Leads

-----------------------------------------------------------------------------
(* The permits that are out, as a set. *)

OwedOf(h) == UNION {{s} \X (1..h[s]) : s \in Streams}

LEMMA PermitsOfOne ==
  ASSUME NEW s, NEW n \in Nat
  PROVE  IsFiniteSet({s} \X (1..n)) /\ Cardinality({s} \X (1..n)) = n
<1>1. IsFiniteSet({s}) /\ Cardinality({s}) = 1
  BY FS_Singleton, Zenon
<1>2. IsFiniteSet(1..n) /\ Cardinality(1..n) = n
  <2>1. 1 \in Int /\ n \in Int
    OBVIOUS
  <2>2. /\ IsFiniteSet(1..n)
        /\ Cardinality(1..n) = IF 1 > n THEN 0 ELSE n - 1 + 1
    BY <2>1, FS_Interval
  <2> QED
    BY <2>2
<1>3. IsFiniteSet({s} \X (1..n)) /\ Cardinality({s} \X (1..n)) = Cardinality({s}) * Cardinality(1..n)
  BY <1>1, <1>2, FS_Product, Zenon
<1> QED
  BY <1>1, <1>2, <1>3

LEMMA StreamsFinite == IsFiniteSet(Streams)
<1>1. NumStreams \in Int /\ 1 \in Int
  BY MuxAssumption
<1> QED
  BY <1>1, FS_Interval DEF Streams

LEMMA RestIsFinite ==
  ASSUME NEW h \in [Streams -> Nat], NEW T \in SUBSET Streams
  PROVE  IsFiniteSet(UNION {{t} \X (1..h[t]) : t \in T})
<1> DEFINE G == [t \in T |-> {t} \X (1..h[t])]
           A == {G[t] : t \in T}
<1>1. IsFiniteSet(T)
  BY StreamsFinite, FS_Subset
<1>2. G \in Surjection(T, A)
  BY Zenon DEF Surjection
<1>3. IsFiniteSet(A)
  <2> HIDE DEF G, A
  <2> QED
    BY <1>1, <1>2, FS_Surjection
<1>4. \A B \in A : IsFiniteSet(B)
  <2>1. ASSUME NEW t \in T
        PROVE  IsFiniteSet({t} \X (1..h[t]))
    <3>1. h[t] \in Nat
      OBVIOUS
    <3> QED
      BY <3>1, PermitsOfOne, Zenon
  <2> QED
    BY <2>1
<1>5. IsFiniteSet(UNION A)
  <2> HIDE DEF A
  <2> QED
    BY <1>3, <1>4, FS_UNION
<1>6. A = {{t} \X (1..h[t]) : t \in T}
  OBVIOUS
<1> QED
  BY <1>5, <1>6, Zenon

\* One stream's permits change.
LEMMA OwedChanges ==
  ASSUME NEW h \in [Streams -> Nat], NEW k \in [Streams -> Nat], NEW s \in Streams,
         \A t \in Streams : t # s => h[t] = k[t]
  PROVE  /\ Cardinality(OwedOf(h)) \in Nat /\ Cardinality(OwedOf(k)) \in Nat
         /\ Cardinality(OwedOf(k)) = Cardinality(OwedOf(h)) - h[s] + k[s]
         /\ h[s] <= Cardinality(OwedOf(h))
<1> DEFINE T == Streams \ {s}
           R == UNION {{t} \X (1..h[t]) : t \in T}
<1>1. IsFiniteSet(R) /\ Cardinality(R) \in Nat
  BY RestIsFinite, FS_CardinalityType, Zenon
<1>2. R = UNION {{t} \X (1..k[t]) : t \in T}
  OBVIOUS
<1>3. OwedOf(h) = R \cup ({s} \X (1..h[s])) /\ OwedOf(k) = R \cup ({s} \X (1..k[s]))
  <2>1. ASSUME NEW f
        PROVE  UNION {{t} \X (1..f[t]) : t \in Streams}
                 = (UNION {{t} \X (1..f[t]) : t \in T}) \cup ({s} \X (1..f[s]))
    OBVIOUS
  <2> QED
    BY <1>2, <2>1 DEF OwedOf
<1>4. \A p \in R : p[1] # s
  OBVIOUS
<1> HIDE DEF R
<1>5. ASSUME NEW n \in Nat
      PROVE  Cardinality(R \cup ({s} \X (1..n))) = Cardinality(R) + n
  <2>1. R \cap ({s} \X (1..n)) = {}
    BY <1>4
  <2> DEFINE P == {s} \X (1..n)
  <2>2. IsFiniteSet(P) /\ Cardinality(P) = n
    BY PermitsOfOne, Zenon
  <2>3. R \cap P = {}
    BY <2>1
  <2> HIDE DEF P
  <2>4. Cardinality(R \cup P) = Cardinality(R) + Cardinality(P) - Cardinality(R \cap P)
    BY <1>1, <2>2, FS_Union
  <2>5. Cardinality(R \cap P) = 0
    BY <2>3, FS_EmptySet
  <2>6. Cardinality(R \cup P) = Cardinality(R) + n
    BY <1>1, <2>2, <2>4, <2>5
  <2> QED
    BY <2>6 DEF P
<1>6. h[s] \in Nat /\ k[s] \in Nat
  OBVIOUS
<1>7. Cardinality(OwedOf(h)) = Cardinality(R) + h[s] /\ Cardinality(OwedOf(k)) = Cardinality(R) + k[s]
  BY <1>3, <1>5, <1>6
<1> QED
  BY <1>1, <1>6, <1>7

LEMMA NothingOwed ==
  ASSUME NEW h \in [Streams -> Nat], \A s \in Streams : h[s] = 0
  PROVE  Cardinality(OwedOf(h)) = 0
<1>1. OwedOf(h) = {}
  BY DEF OwedOf
<1> QED
  BY <1>1, FS_EmptySet

Out(e) == [s \in Streams |-> table[e][s].outstanding]
LEMMA OwedIs == \A e : Owed(e) = OwedOf(Out(e))
BY DEF Owed, OwedOf, Out

-----------------------------------------------------------------------------
(* Ends, frames and entries. *)

LEMMA AddOne ==
  \A a, b \in Nat : a + (b + 1) = (a + 1) + b /\ a + (b + 1) = a + b + 1
OBVIOUS

LEMMA TheOther ==
  \A e \in Ends : /\ Other(e) \in Ends /\ Other(e) # e /\ Other(Other(e)) = e
                  /\ \A d \in Ends : d = e \/ d = Other(e)
BY DEF Ends, Other

LEMMA FrameFields ==
  /\ \A k, s : Frame(k, s).kind = k /\ Frame(k, s).s = s
  /\ \A s, n : DataFrame(s, n).kind = "Data" /\ DataFrame(s, n).s = s /\ DataFrame(s, n).n = n
BY DEF Frame, DataFrame

LEMMA FramesAre ==
  /\ \A k \in Kinds, s \in Streams : Frame(k, s) \in Frames
  /\ \A s \in Streams, n \in Nat : DataFrame(s, n) \in Frames
  /\ \A f \in Frames : /\ f.kind \in Kinds /\ f.s \in Streams
                       /\ f.kind # "Data" => f = Frame(f.kind, f.s)
                       /\ f.kind = "Data" => f = DataFrame(f.s, f.n) /\ f.n \in Nat
<1>1. ASSUME NEW k \in Kinds, NEW s \in Streams
      PROVE  /\ Frame(k, s) \in Frames /\ Frame(k, s).kind = k /\ Frame(k, s).s = s
             /\ Frame("Data", s) = DataFrame(s, 0) /\ DataFrame(s, 0).n = 0
  BY DEF Frames, Frame, DataFrame
<1>2. ASSUME NEW s \in Streams, NEW n \in Nat
      PROVE  /\ DataFrame(s, n) \in Frames /\ DataFrame(s, n).kind = "Data"
             /\ DataFrame(s, n).s = s /\ DataFrame(s, n).n = n /\ "Data" \in Kinds
  BY DEF Frames, DataFrame, Kinds
<1>3. ASSUME NEW f \in Frames
      PROVE  /\ f.kind \in Kinds /\ f.s \in Streams
             /\ f.kind # "Data" => f = Frame(f.kind, f.s)
             /\ f.kind = "Data" => f = DataFrame(f.s, f.n) /\ f.n \in Nat
  <2>1. CASE \E k \in Kinds, s \in Streams : f = Frame(k, s)
    <3>1. PICK k \in Kinds, s \in Streams : f = Frame(k, s)
      BY <2>1
    <3>2. f.kind = k /\ f.s = s
      BY <3>1, <1>1
    <3>3. k = "Data" => f = DataFrame(s, 0) /\ f.n = 0
      BY <3>1, <1>1
    <3> QED
      BY <3>1, <3>2, <3>3
  <2>2. CASE \E s \in Streams, n \in Nat : f = DataFrame(s, n)
    BY <2>2, <1>2
  <2> QED
    BY <2>1, <2>2 DEF Frames
<1> QED
  BY <1>1, <1>2, <1>3

LEMMA ItemIs ==
  ASSUME NEW s \in Streams, NEW g \in Items(s)
  PROVE  /\ g \in Frames /\ g.s = s /\ g.kind \in DataKinds
         /\ g.kind = "Data" => g = DataFrame(s, g.n) /\ g.n \in Nat
         /\ g.kind = "Fin" => g = Frame("Fin", s)
<1>1. "Fin" \in Kinds
  BY DEF Kinds
<1>2. (\E n \in Nat : g = DataFrame(s, n)) \/ g = Frame("Fin", s)
  BY DEF Items
<1> QED
  BY <1>1, <1>2, FrameFields, FramesAre DEF DataKinds

LEMMA ItemsAre ==
  ASSUME NEW s \in Streams
  PROVE  (\A n \in Nat : DataFrame(s, n) \in Items(s)) /\ Frame("Fin", s) \in Items(s)
BY DEF Items

\* One place of a table of two levels changes.
LEMMA Place ==
  ASSUME NEW V, NEW f \in [Ends -> [Streams -> V]], NEW e \in Ends, NEW s \in Streams, NEW v \in V
  PROVE  LET g == [f EXCEPT ![e][s] = v]
         IN  /\ g \in [Ends -> [Streams -> V]] /\ g[e][s] = v
             /\ \A d \in Ends, t \in Streams : d # e \/ t # s => g[d][t] = f[d][t]
OBVIOUS

LEMMA FreshEntry ==
  /\ Absent \in Entries /\ ~ Absent.present /\ Absent.outstanding = 0 /\ Absent.unread = 0
  /\ ~ Absent.rfin /\ ~ Absent.lfin /\ ~ Absent.opening
  /\ \A b \in BOOLEAN : /\ Fresh(b) \in Entries /\ Fresh(b).present /\ Fresh(b).outstanding = 0
                        /\ Fresh(b).unread = 0 /\ ~ Fresh(b).rfin /\ ~ Fresh(b).lfin
                        /\ Fresh(b).opening = b
BY Zenon DEF Absent, Fresh, Entries

LEMMA EntryFields ==
  \A r \in Entries : /\ r.outstanding \in Nat /\ r.unread \in Nat /\ r.lfin \in BOOLEAN
                     /\ r.rfin \in BOOLEAN /\ r.opening \in BOOLEAN /\ r.present \in BOOLEAN
BY DEF Entries

\* One field of an entry changes.
LEMMA EntryChanges ==
  ASSUME NEW r \in Entries
  PROVE  /\ \A n \in Nat : LET q == [r EXCEPT !.outstanding = n] IN
              /\ q \in Entries /\ q.outstanding = n /\ q.unread = r.unread /\ q.lfin = r.lfin
              /\ q.rfin = r.rfin /\ q.opening = r.opening /\ q.present = r.present
         /\ \A n \in Nat : LET q == [r EXCEPT !.unread = n] IN
              /\ q \in Entries /\ q.outstanding = r.outstanding /\ q.unread = n /\ q.lfin = r.lfin
              /\ q.rfin = r.rfin /\ q.opening = r.opening /\ q.present = r.present
         /\ \A b \in BOOLEAN : LET q == [r EXCEPT !.lfin = b] IN
              /\ q \in Entries /\ q.outstanding = r.outstanding /\ q.unread = r.unread /\ q.lfin = b
              /\ q.rfin = r.rfin /\ q.opening = r.opening /\ q.present = r.present
         /\ \A b \in BOOLEAN : LET q == [r EXCEPT !.rfin = b] IN
              /\ q \in Entries /\ q.outstanding = r.outstanding /\ q.unread = r.unread
              /\ q.lfin = r.lfin /\ q.rfin = b /\ q.opening = r.opening /\ q.present = r.present
         /\ \A b \in BOOLEAN : LET q == [r EXCEPT !.opening = b] IN
              /\ q \in Entries /\ q.outstanding = r.outstanding /\ q.unread = r.unread
              /\ q.lfin = r.lfin /\ q.rfin = r.rfin /\ q.opening = b /\ q.present = r.present
BY DEF Entries

-----------------------------------------------------------------------------
(* Steps that leave a part of the invariant of stream s alone. *)

LEMMA InboxKept ==
  ASSUME MuxShape, MuxShape',
         NEW d \in Ends, NEW s \in Streams, NEW o \in Ends, o = Other(d), Inbox(d, s),
         put'[d][s] = put[d][s], got'[o][s] = got[o][s], inbox'[o][s] = inbox[o][s],
         table'[o][s].present => /\ table[o][s].present /\ table'[o][s].unread = table[o][s].unread
                                 /\ table'[o][s].rfin = table[o][s].rfin,
         rd'[o][s] = "ended" => rd[o][s] = "ended",
         table'[o][s].present /\ rd[o][s] = "ended" => rd'[o][s] = "ended"
  PROVE  Inbox(d, s)'
<1> DEFINE q == inbox[o][s]
<1>1. /\ got[o][s] <= put[d][s] /\ put[d][s] <= Chunks[d]
      /\ \A i \in 1..Len(q) :
           /\ q[i].kind = "Data" => q[i].n = got[o][s] + i /\ got[o][s] + i <= put[d][s]
           /\ q[i].kind = "Fin" => got[o][s] + i = put[d][s] + 1
      /\ Live(o, s) =>
           /\ Len(q) = Unread(o, s) + (IF Ending(o, s) THEN 1 ELSE 0)
           /\ \A i \in 1..Unread(o, s) : q[i].kind = "Data"
           /\ Ending(o, s) => q[Unread(o, s) + 1].kind = "Fin"
      /\ rd[o][s] = "ended" => got[o][s] = put[d][s] /\ (Live(o, s) => table[o][s].rfin)
  BY DEF Inbox
<1>2. Live(o, s)' => Live(o, s) /\ Unread(o, s)' = Unread(o, s) /\ (Ending(o, s)' <=> Ending(o, s))
  BY DEF Live, Unread, Ending
<1>3. rd'[o][s] = "ended" => got'[o][s] = put'[d][s] /\ (Live(o, s)' => table'[o][s].rfin)
  BY <1>1, <1>2 DEF Live
<1> HIDE DEF Live, Unread, Ending
<1>4. inbox'[o][s] = q
  OBVIOUS
<1> HIDE DEF q
<1> QED
  BY <1>1, <1>2, <1>3, <1>4 DEF Inbox

LEMMA SentKept ==
  ASSUME MuxShape, MuxShape',
         NEW d \in Ends, NEW s \in Streams, NEW o \in Ends, o = Other(d), Sent(d, s),
         put'[d][s] = put[d][s], inbox'[o][s] = inbox[o][s],
         In(wire'[d], Frame("Fin", s)) \/ In(data'[d], Frame("Fin", s)) => InFlight(d, Frame("Fin", s)),
         table'[o][s].rfin => table[o][s].rfin,
         rd'[o][s] = "ended" => rd[o][s] = "ended",
         wr'[d][s] \in {"stream", "conn", "data"} =>
           wr[d][s] \in {"stream", "conn", "data"} \/ put[d][s] < Chunks[d],
         wr[d][s] \in {"ended", "over"} => wr'[d][s] \in {"ended", "over"}
  PROVE  Sent(d, s)'
BY DEF Sent, InFlight

LEMMA UpdatesAreNat ==
  ASSUME QueueShape, NEW e \in Ends, NEW s \in Streams
  PROVE  /\ Updates(e, s) \in Nat
         /\ In(wire[e], Frame("WindowUpdate", s)) => Updates(e, s) > 0
<1> DEFINE f == Frame("WindowUpdate", s)
<1>1. ctl[e] \in Seq(Frames) /\ wire[e] \in Seq(Frames)
  BY DEF QueueShape
<1>2. /\ Count(ctl[e], f) \in Nat /\ Count(wire[e], f) \in Nat
      /\ In(wire[e], f) => Count(wire[e], f) > 0
  BY <1>1, CountIsNat, Zenon
<1> QED
  BY <1>2 DEF Updates

LEMMA WindowKept ==
  ASSUME MuxShape, MuxShape', QueueShape, QueueShape',
         NEW d \in Ends, NEW s \in Streams, NEW o \in Ends, o = Other(d), Window(d, s),
         put'[d][s] = put[d][s], got'[o][s] = got[o][s],
         Free(d, s)' + Holds(d, s)' + Updates(o, s)' <= Free(d, s) + Holds(d, s) + Updates(o, s),
         table'[d][s].present =>
           /\ table[d][s].present /\ sema'[d][s] >= 0
           /\ Taken(d, s)' + Updates(o, s)' + table[d][s].outstanding
                <= Taken(d, s) + Updates(o, s) + table'[d][s].outstanding
  PROVE  Window(d, s)'
<1>1. Updates(o, s) \in Nat /\ Updates(o, s)' \in Nat
  <2>1. Updates(o, s) \in Nat
    BY UpdatesAreNat
  <2>2. Updates(o, s)' \in Nat
    <3>1. ctl'[o] \in Seq(Frames) /\ wire'[o] \in Seq(Frames)
      BY DEF QueueShape
    <3>2. /\ Count(ctl'[o], Frame("WindowUpdate", s)) \in Nat
          /\ Count(wire'[o], Frame("WindowUpdate", s)) \in Nat
      BY <3>1, CountIsNat, Zenon
    <3> QED
      BY <3>2 DEF Updates
  <2> QED
    BY <2>1, <2>2
<1>2. /\ sema[d][s] \in Int /\ sema'[d][s] \in Int /\ put[d][s] \in Nat /\ got[o][s] \in Nat
      /\ table[d][s] \in Entries /\ table'[d][s] \in Entries
  BY DEF MuxShape
<1>3. /\ Free(d, s) \in Nat /\ Free(d, s)' \in Nat /\ Holds(d, s) \in Nat /\ Holds(d, s)' \in Nat
      /\ Taken(d, s) \in Nat /\ Taken(d, s)' \in Nat
      /\ table[d][s].outstanding \in Nat /\ table'[d][s].outstanding \in Nat
  BY <1>2, EntryFields DEF Free, Holds, Taken
<1>4. /\ Free(d, s) + Holds(d, s) + (put[d][s] - got[o][s] + Updates(o, s)) <= StreamCredit
      /\ table[d][s].present => /\ sema[d][s] >= 0
           /\ Taken(d, s) + (put[d][s] - got[o][s] + Updates(o, s)) <= table[d][s].outstanding
  BY DEF Window, Live
<1>5. StreamCredit \in Nat
  BY MuxAssumption
<1> HIDE DEF Updates, Free, Holds, Taken
<1>6. /\ Free(d, s)' + Holds(d, s)' + (put'[d][s] - got'[o][s] + Updates(o, s)') <= StreamCredit
      /\ table'[d][s].present => /\ sema'[d][s] >= 0
           /\ Taken(d, s)' + (put'[d][s] - got'[o][s] + Updates(o, s)') <= table'[d][s].outstanding
  BY <1>1, <1>2, <1>3, <1>4, <1>5
<1> QED
  BY <1>6 DEF Window, Live

\* What of the queues of end d is about stream s, and data.
ItemsKept(q, r, s) ==
  \A g \in Items(s) :
    /\ In(r, g) <=> In(q, g)
    /\ Once(q, g) => Once(r, g)
    /\ \A f \in Items(s) : Precedes(q, f, g) => Precedes(r, f, g)

LEMMA OrderKept ==
  ASSUME MuxShape, MuxShape',
         NEW d \in Ends, NEW s \in Streams, NEW o \in Ends, o = Other(d), Order(d, s),
         table'[o][s].present => /\ table[o][s].present /\ table'[o][s].unread = table[o][s].unread
                                 /\ table'[o][s].rfin = table[o][s].rfin,
         put'[d][s] = put[d][s], got'[o][s] = got[o][s], ~ gap'[d] => ~ gap[d],
         ItemsKept(wire[d], wire'[d], s),
         ItemsKept(data[d], data'[d], s) \/ (data'[d] = <<>> /\ closed'[d] # "open"),
         closed'[d] = "open" => closed[d] = "open"
  PROVE  Order(d, s)'
<1> SUFFICES ASSUME Live(o, s)', ~ gap'[d]
             PROVE  /\ \A g \in Items(s) : InOrder(d, g)'
                    /\ closed'[d] = "open" =>
                         \A m \in Nat : m > Read(o, s)' /\ m <= put'[d][s]
                                          => InFlight(d, DataFrame(s, m))'
  BY DEF Order
<1>1. /\ Live(o, s) /\ ~ gap[d] /\ Read(o, s)' = Read(o, s)
      /\ table'[o][s].rfin = table[o][s].rfin
  BY DEF Live, Read, Unread
<1>2. /\ \A g \in Items(s) : InOrder(d, g)
      /\ closed[d] = "open" =>
           \A m \in Nat : m > Read(o, s) /\ m <= put[d][s] => InFlight(d, DataFrame(s, m))
  BY <1>1 DEF Order
<1>3. ASSUME NEW g \in Items(s)
      PROVE  InOrder(d, g)'
  <2>1. g.s = s
    BY ItemIs
  <2>2. Earlier(d, g)' = Earlier(d, g)
    <3>1. table'[o][s].unread = table[o][s].unread
      BY DEF Live
    <3> QED
      BY <3>1, <2>1 DEF Earlier, Read, Unread
  <2>3. InOrder(d, g)
    BY <1>2
  <2>4. In(wire'[d], g) <=> In(wire[d], g)
    BY DEF ItemsKept
  <2>5. /\ In(data'[d], g) => In(data[d], g)
        /\ Once(data[d], g) => Once(data'[d], g)
        /\ \A f \in Items(s) : Precedes(data[d], f, g) => Precedes(data'[d], f, g)
    BY NothingQueued DEF ItemsKept
  <2>6. InFlight(d, g)' => InFlight(d, g)
    BY <2>4, <2>5 DEF InFlight
  <2>7. Once(wire'[d], g) /\ Once(data'[d], g) /\ ~ (In(wire'[d], g) /\ In(data'[d], g))
    BY <2>3, <2>4, <2>5 DEF ItemsKept, InOrder
  <2>8. ASSUME NEW m \in Earlier(d, g)
        PROVE  /\ Precedes(wire'[d], DataFrame(s, m), g)
               /\ \/ In(wire'[d], DataFrame(s, m)) \/ ~ In(data'[d], g)
                  \/ Precedes(data'[d], DataFrame(s, m), g)
    <3>1. DataFrame(s, m) \in Items(s)
      BY ItemsAre DEF Earlier
    <3>2. /\ Precedes(wire[d], DataFrame(s, m), g)
          /\ \/ In(wire[d], DataFrame(s, m)) \/ ~ In(data[d], g)
             \/ Precedes(data[d], DataFrame(s, m), g)
      BY <2>1, <2>3 DEF InOrder
    <3> QED
      BY <3>1, <3>2, <2>5 DEF ItemsKept
  <2> QED
    BY <1>1, <2>1, <2>2, <2>3, <2>6, <2>7, <2>8 DEF InOrder, Read, Unread
<1>4. ASSUME closed'[d] = "open", NEW m \in Nat, m > Read(o, s), m <= put[d][s]
      PROVE  InFlight(d, DataFrame(s, m))'
  <2>1. DataFrame(s, m) \in Items(s)
    BY ItemsAre
  <2>2. InFlight(d, DataFrame(s, m))
    BY <1>2, <1>4
  <2> QED
    BY <2>1, <2>2, <1>4 DEF InFlight, ItemsKept
<1> QED
  BY <1>1, <1>3, <1>4

LEMMA StartLate ==
  ASSUME NEW s \in Streams, dialed'[s] # "none", opener'[s] # "idle",
         dialed'[s] # "done" => rd'["daemon"][s] = "off" /\ wr'["daemon"][s] = "off"
  PROVE  Start(s)'
BY DEF Start, Still

LEMMA AnswerKept ==
  ASSUME NEW s \in Streams, Answer(s),
         dialed'[s] \in {"none", "dialing"} => dialed[s] \in {"none", "dialing"},
         \A f \in Answers(s) \cup {Frame("Reset", s)} :
           /\ In(wire'["daemon"], f) => In(wire["daemon"], f)
           /\ In(ctl'["daemon"], f) => In(ctl["daemon"], f),
         \A f \in Answers(s) :
           /\ Once(wire["daemon"], f) => Once(wire'["daemon"], f)
           /\ Once(ctl["daemon"], f) => Once(ctl'["daemon"], f)
           /\ Leads(wire["daemon"], f, Frame("Reset", s)) => Leads(wire'["daemon"], f, Frame("Reset", s))
           /\ Leads(ctl["daemon"], f, Frame("Reset", s)) => Leads(ctl'["daemon"], f, Frame("Reset", s))
  PROVE  Answer(s)'
BY DEF Answer, Queued

LEMMA OpeningKept ==
  ASSUME NEW s \in Streams, Opening(s),
         opener'[s] = opener[s], dialed'[s] = dialed[s], closed'["desktop"] = closed["desktop"],
         table'["daemon"][s].opening => table["daemon"][s].opening,
         table'["desktop"][s].opening = table["desktop"][s].opening,
         table["desktop"][s].opening =>
           /\ table'["desktop"][s].lfin = table["desktop"][s].lfin
           /\ rd'["desktop"][s] = "off" /\ wr'["desktop"][s] = "off",
         \A f \in Answers(s) : Queued("daemon", f)' => Queued("daemon", f)
  PROVE  Opening(s)'
BY DEF Opening, Still

-----------------------------------------------------------------------------
(* Streams that a step does not concern. *)

Same(q, r, s) ==
  \A f, g \in Frames : f.s = s /\ g.s = s =>
    /\ In(r, f) <=> In(q, f)
    /\ Once(q, f) => Once(r, f)
    /\ Precedes(q, f, g) => Precedes(r, f, g)
    /\ Leads(q, f, g) => Leads(r, f, g)
    /\ Count(r, f) = Count(q, f)

LEMMA SameAppend ==
  ASSUME NEW q \in Seq(Frames), NEW h \in Frames, NEW s \in Streams
  PROVE  /\ h.s # s => Same(q, Append(q, h), s)
         /\ h \notin Items(s) => ItemsKept(q, Append(q, h), s)
<1>1. /\ \A f : In(Append(q, h), f) <=> In(q, f) \/ f = h
      /\ \A f : Once(q, f) /\ (f = h => ~ In(q, f)) => Once(Append(q, h), f)
      /\ \A f, g : Precedes(q, f, g) /\ (g = h => In(q, f)) => Precedes(Append(q, h), f, g)
      /\ \A f, g : Leads(q, f, g) /\ f # g /\ (f = h => ~ In(q, g)) => Leads(Append(q, h), f, g)
      /\ \A f : Count(Append(q, h), f) = Count(q, f) + (IF f = h THEN 1 ELSE 0)
  BY AppendQueue
<1>2. ASSUME NEW f, f # h
      PROVE  Count(Append(q, h), f) = Count(q, f)
  <2>1. (IF f = h THEN 1 ELSE 0) = 0 /\ Count(q, f) \in Nat
    BY <1>2, CountIsNat, Zenon
  <2>2. Count(Append(q, h), f) = Count(q, f) + (IF f = h THEN 1 ELSE 0)
    BY <1>1
  <2> QED
    BY <2>1, <2>2
<1>3. ASSUME NEW f, NEW g, f # h, Leads(q, f, g)
      PROVE  Leads(Append(q, h), f, g)
  <2>1. CASE f # g
    BY <1>1, <1>3, <2>1
  <2>2. CASE f = g
    <3>1. ~ In(q, f)
      BY <1>3, <2>2 DEF Leads, In
    <3>2. ~ In(Append(q, h), f)
      BY <3>1, <1>1, <1>3
    <3> QED
      BY <3>2, <2>2 DEF Leads, In
  <2> QED
    BY <2>1, <2>2
<1>4. ASSUME h.s # s
      PROVE  Same(q, Append(q, h), s)
  <2> DEFINE r == Append(q, h)
  <2> HIDE DEF r
  <2> SUFFICES ASSUME NEW f \in Frames, NEW g \in Frames, f.s = s, g.s = s
               PROVE  /\ In(r, f) <=> In(q, f)
                      /\ Once(q, f) => Once(r, f)
                      /\ Precedes(q, f, g) => Precedes(r, f, g)
                      /\ Leads(q, f, g) => Leads(r, f, g)
                      /\ Count(r, f) = Count(q, f)
    BY DEF Same, r
  <2>1. f # h /\ g # h
    BY <1>4
  <2> QED
    BY <1>1, <1>2, <1>3, <2>1 DEF r
<1>5. ASSUME h \notin Items(s)
      PROVE  ItemsKept(q, Append(q, h), s)
  BY <1>1, <1>5 DEF ItemsKept
<1> QED
  BY <1>4, <1>5

LEMMA SameTail ==
  ASSUME NEW q \in Seq(Frames), q # <<>>, NEW s \in Streams
  PROVE  /\ Head(q).s # s => Same(q, Tail(q), s)
         /\ Head(q) \notin Items(s) => ItemsKept(q, Tail(q), s)
<1> DEFINE h == Head(q)
           r == Tail(q)
<1>1. /\ \A f : In(q, f) <=> In(r, f) \/ f = h
      /\ \A f : Once(q, f) => Once(r, f) /\ (f = h => ~ In(r, f))
      /\ \A f, g : Precedes(q, f, g) => (f # h => Precedes(r, f, g)) /\ g # h
      /\ \A f, g : Leads(q, f, g) => Leads(r, f, g) /\ (g = h /\ f # g => ~ In(r, f))
      /\ \A f : Count(q, f) = Count(r, f) + (IF f = h THEN 1 ELSE 0)
  BY TailQueue
<1>2. r \in Seq(Frames)
  BY TailIs
<1> HIDE DEF h, r
<1>3. ASSUME NEW f, f # h
      PROVE  Count(r, f) = Count(q, f)
  <2>1. (IF f = h THEN 1 ELSE 0) = 0 /\ Count(r, f) \in Nat
    BY <1>2, <1>3, CountIsNat, Zenon
  <2>2. Count(q, f) = Count(r, f) + (IF f = h THEN 1 ELSE 0)
    BY <1>1
  <2> QED
    BY <2>1, <2>2
<1>4. ASSUME h.s # s
      PROVE  Same(q, r, s)
  <2> SUFFICES ASSUME NEW f \in Frames, NEW g \in Frames, f.s = s, g.s = s
               PROVE  /\ In(r, f) <=> In(q, f)
                      /\ Once(q, f) => Once(r, f)
                      /\ Precedes(q, f, g) => Precedes(r, f, g)
                      /\ Leads(q, f, g) => Leads(r, f, g)
                      /\ Count(r, f) = Count(q, f)
    BY DEF Same
  <2>1. f # h /\ g # h
    BY <1>4
  <2>2. (In(r, f) <=> In(q, f)) /\ (Once(q, f) => Once(r, f))
    BY <1>1, <2>1
  <2>3. Precedes(q, f, g) => Precedes(r, f, g)
    BY <1>1, <2>1
  <2>4. Leads(q, f, g) => Leads(r, f, g)
    BY <1>1
  <2> QED
    BY <1>3, <2>1, <2>2, <2>3, <2>4
<1>5. ASSUME h \notin Items(s)
      PROVE  ItemsKept(q, r, s)
  BY <1>1, <1>5 DEF ItemsKept
<1> QED
  BY <1>4, <1>5 DEF h, r

LEMMA SameSelf ==
  ASSUME NEW q, NEW s
  PROVE  Same(q, q, s) /\ ItemsKept(q, q, s)
BY DEF Same, ItemsKept

LEMMA SameItems ==
  ASSUME NEW s \in Streams, NEW q, NEW r, Same(q, r, s)
  PROVE  ItemsKept(q, r, s)
<1> SUFFICES ASSUME NEW g \in Items(s), NEW f \in Items(s)
             PROVE  /\ In(r, g) <=> In(q, g)
                    /\ Once(q, g) => Once(r, g)
                    /\ Precedes(q, f, g) => Precedes(r, f, g)
  BY DEF ItemsKept
<1>1. f \in Frames /\ f.s = s /\ g \in Frames /\ g.s = s
  BY ItemIs
<1> QED
  BY <1>1 DEF Same

LEMMA StreamApart ==
  ASSUME MuxShape, MuxShape', QueueShape, QueueShape', NEW s \in Streams, StreamInv(s),
         closed' = closed, gap' = gap, opener'[s] = opener[s], dialed'[s] = dialed[s],
         \A e \in Ends :
           /\ table'[e][s] = table[e][s] /\ sema'[e][s] = sema[e][s] /\ inbox'[e][s] = inbox[e][s]
           /\ rd'[e][s] = rd[e][s] /\ wr'[e][s] = wr[e][s]
           /\ put'[e][s] = put[e][s] /\ got'[e][s] = got[e][s]
           /\ Same(ctl[e], ctl'[e], s) /\ Same(data[e], data'[e], s) /\ Same(wire[e], wire'[e], s)
  PROVE  StreamInv(s)'
<1>0. \A k \in Kinds : Frame(k, s) \in Frames /\ Frame(k, s).s = s
  BY FramesAre, FrameFields
<1>1. ASSUME NEW d \in Ends
      PROVE  Line(d, s)'
  <2> DEFINE o == Other(d)
  <2>1. o \in Ends
    BY TheOther
  <2> HIDE DEF o
  <2>2. o = Other(d)
    BY DEF o
  <2>3. Inbox(d, s) /\ Sent(d, s) /\ Window(d, s) /\ Order(d, s)
    BY DEF StreamInv, Line
  <2>4. Inbox(d, s)'
    BY <2>1, <2>2, <2>3, InboxKept
  <2>5. Sent(d, s)'
    <3>1. Frame("Fin", s) \in Frames /\ Frame("Fin", s).s = s
      BY <1>0 DEF Kinds
    <3>2. In(wire'[d], Frame("Fin", s)) \/ In(data'[d], Frame("Fin", s)) => InFlight(d, Frame("Fin", s))
      BY <3>1 DEF Same, InFlight
    <3> QED
      BY <2>1, <2>2, <2>3, <3>2, SentKept
  <2>6. Window(d, s)'
    <3>1. Frame("WindowUpdate", s) \in Frames /\ Frame("WindowUpdate", s).s = s
      BY <1>0 DEF Kinds
    <3>2. Updates(o, s)' = Updates(o, s)
      BY <2>1, <3>1 DEF Same, Updates
    <3>3. Free(d, s)' = Free(d, s) /\ Holds(d, s)' = Holds(d, s) /\ Taken(d, s)' = Taken(d, s)
      BY DEF Free, Holds, Taken
    <3>4. Updates(o, s) \in Nat
      BY <2>1, UpdatesAreNat
    <3>5. sema[d][s] \in Int /\ table[d][s] \in Entries
      BY DEF MuxShape
    <3>6. Free(d, s) \in Nat /\ Holds(d, s) \in Nat /\ Taken(d, s) \in Nat /\ table[d][s].outstanding \in Nat
      BY <3>5, EntryFields DEF Free, Holds, Taken
    <3>7. Free(d, s)' + Holds(d, s)' + Updates(o, s)' <= Free(d, s) + Holds(d, s) + Updates(o, s)
      BY <3>2, <3>3, <3>4, <3>6
    <3>8. Taken(d, s)' + Updates(o, s)' + table[d][s].outstanding
                <= Taken(d, s) + Updates(o, s) + table'[d][s].outstanding
      BY <3>2, <3>3, <3>4, <3>6
    <3>9. table[d][s].present => sema'[d][s] >= 0
      BY <2>3 DEF Window, Live
    <3> QED
      BY <2>1, <2>2, <2>3, <3>7, <3>8, <3>9, WindowKept
  <2>7. Order(d, s)'
    <3>1. ItemsKept(wire[d], wire'[d], s) /\ ItemsKept(data[d], data'[d], s)
      BY SameItems
    <3> QED
      BY <2>1, <2>2, <2>3, <3>1, OrderKept
  <2> QED
    BY <2>4, <2>5, <2>6, <2>7 DEF Line
<1>2. "desktop" \in Ends /\ "daemon" \in Ends
  BY DEF Ends
<1>3. Start(s)'
  <2>1. Start(s)
    BY DEF StreamInv
  <2>2. \A e \in Ends, f \in Frames : f.s = s =>
          /\ In(wire'[e], f) <=> In(wire[e], f)
          /\ In(ctl'[e], f) <=> In(ctl[e], f)
          /\ In(data'[e], f) <=> In(data[e], f)
    BY DEF Same
  <2> QED
    BY <1>2, <2>1, <2>2, Zenon DEF Start, Unheard, Queued, Still, Live
<1>4. /\ Frame("Reset", s) \in Frames /\ Frame("Reset", s).s = s
      /\ \A f \in Answers(s) : f \in Frames /\ f.s = s
  BY <1>0 DEF Answers, Kinds
<1>5. Answer(s)'
  <2>1. Answer(s)
    BY DEF StreamInv
  <2>2. \A f \in Answers(s) \cup {Frame("Reset", s)} :
           /\ In(wire'["daemon"], f) => In(wire["daemon"], f)
           /\ In(ctl'["daemon"], f) => In(ctl["daemon"], f)
    BY <1>2, <1>4 DEF Same
  <2>3. \A f \in Answers(s) :
           /\ Once(wire["daemon"], f) => Once(wire'["daemon"], f)
           /\ Once(ctl["daemon"], f) => Once(ctl'["daemon"], f)
           /\ Leads(wire["daemon"], f, Frame("Reset", s)) => Leads(wire'["daemon"], f, Frame("Reset", s))
           /\ Leads(ctl["daemon"], f, Frame("Reset", s)) => Leads(ctl'["daemon"], f, Frame("Reset", s))
    BY <1>2, <1>4 DEF Same
  <2> QED
    BY <2>1, <2>2, <2>3, AnswerKept
<1>6. Opening(s)'
  <2>1. Opening(s)
    BY DEF StreamInv
  <2>2. \A f \in Answers(s) : Queued("daemon", f)' => Queued("daemon", f)
    BY <1>2, <1>4 DEF Same, Queued
  <2>3. table["desktop"][s].opening => rd'["desktop"][s] = "off" /\ wr'["desktop"][s] = "off"
    BY <1>2, <2>1 DEF Opening, Still
  <2> QED
    BY <1>2, <2>1, <2>2, <2>3, OpeningKept, Zenon
<1> QED
  BY <1>1, <1>3, <1>5, <1>6 DEF StreamInv

-----------------------------------------------------------------------------
(* Steps of one bridge: the queues of its end grow by frames of its stream. *)

Grows(q, r, e, s, K) ==
  \/ r = q
  \/ \E f \in Frames : f.s = s /\ f.kind \in K /\ r = [q EXCEPT ![e] = Append(@, f)]

LEMMA OneGrows ==
  ASSUME NEW q \in [Ends -> Seq(Frames)], NEW r, NEW e \in Ends, NEW s \in Streams, NEW K,
         Grows(q, r, e, s, K)
  PROVE  /\ r \in [Ends -> Seq(Frames)]
         /\ \A d \in Ends : d # e => r[d] = q[d]
         /\ \A d \in Ends, t \in Streams : t # s => Same(q[d], r[d], t)
         /\ r # q => Len(r[e]) = Len(q[e]) + 1
         /\ \A d \in Ends : \A i \in 1..Len(r[d]) :
              \/ i \in 1..Len(q[d]) /\ r[d][i] = q[d][i]
              \/ d = e /\ r[d][i].kind \in K
<1>1. CASE r = q
  BY <1>1, SameSelf
<1>2. CASE r # q
  <2>1. PICK f \in Frames : f.s = s /\ f.kind \in K /\ r = [q EXCEPT ![e] = Append(@, f)]
    BY <1>2 DEF Grows
  <2>2. q[e] \in Seq(Frames)
    OBVIOUS
  <2> DEFINE p == Append(q[e], f)
  <2>3. /\ p \in Seq(Frames) /\ Len(p) = Len(q[e]) + 1 /\ Len(q[e]) \in Nat
        /\ \A i \in 1..Len(q[e]) : p[i] = q[e][i]
        /\ p[Len(q[e]) + 1] = f
    BY <2>2, AppendIs
  <2>4. r[e] = p /\ \A d \in Ends : d # e => r[d] = q[d]
    BY <2>1
  <2>5. \A t \in Streams : t # s => Same(q[e], p, t)
    BY <2>1, <2>2, SameAppend
  <2> HIDE DEF p
  <2>6. r \in [Ends -> Seq(Frames)]
    <3>1. r = [q EXCEPT ![e] = p]
      BY <2>1 DEF p
    <3> QED
      BY <3>1, <2>3
  <2>7. \A d \in Ends, t \in Streams : t # s => Same(q[d], r[d], t)
    BY <2>4, <2>5, SameSelf
  <2>8. \A d \in Ends : \A i \in 1..Len(r[d]) :
              \/ i \in 1..Len(q[d]) /\ r[d][i] = q[d][i]
              \/ d = e /\ r[d][i].kind \in K
    BY <2>1, <2>3, <2>4
  <2> QED
    BY <2>3, <2>4, <2>6, <2>7, <2>8
<1> QED
  BY <1>1, <1>2

QueuesApart(s) ==
  \A d \in Ends, t \in Streams : t # s =>
    Same(ctl[d], ctl'[d], t) /\ Same(data[d], data'[d], t) /\ Same(wire[d], wire'[d], t)

LEMMA QueuesGrow ==
  ASSUME QueueShape, NEW e \in Ends, NEW s \in Streams,
         Grows(ctl, ctl', e, s, CtlKinds(e)), Grows(data, data', e, s, DataKinds),
         data' = data \/ Len(data[e]) < DataCap, wire' = wire
  PROVE  QueueShape' /\ QueuesApart(s)
<1>1. /\ ctl \in [Ends -> Seq(Frames)] /\ data \in [Ends -> Seq(Frames)]
      /\ wire \in [Ends -> Seq(Frames)]
      /\ \A d \in Ends :
           /\ Len(data[d]) <= DataCap
           /\ \A i \in 1..Len(ctl[d]) : ctl[d][i].kind \in CtlKinds(d)
           /\ \A i \in 1..Len(data[d]) : data[d][i].kind \in DataKinds
           /\ \A i \in 1..Len(wire[d]) : wire[d][i].kind \in CtlKinds(d) \cup DataKinds
  BY DEF QueueShape
<1>2. /\ ctl' \in [Ends -> Seq(Frames)]
      /\ \A d \in Ends : d # e => ctl'[d] = ctl[d]
      /\ \A d \in Ends, t \in Streams : t # s => Same(ctl[d], ctl'[d], t)
      /\ ctl' # ctl => Len(ctl'[e]) = Len(ctl[e]) + 1
      /\ \A d \in Ends : \A i \in 1..Len(ctl'[d]) :
           \/ i \in 1..Len(ctl[d]) /\ ctl'[d][i] = ctl[d][i]
           \/ d = e /\ ctl'[d][i].kind \in CtlKinds(e)
  <2>1. ctl \in [Ends -> Seq(Frames)]
    BY <1>1
  <2> QED
    BY <2>1, OneGrows, Zenon
<1>3. /\ data' \in [Ends -> Seq(Frames)]
      /\ \A d \in Ends : d # e => data'[d] = data[d]
      /\ \A d \in Ends, t \in Streams : t # s => Same(data[d], data'[d], t)
      /\ data' # data => Len(data'[e]) = Len(data[e]) + 1
      /\ \A d \in Ends : \A i \in 1..Len(data'[d]) :
           \/ i \in 1..Len(data[d]) /\ data'[d][i] = data[d][i]
           \/ d = e /\ data'[d][i].kind \in DataKinds
  <2>1. data \in [Ends -> Seq(Frames)]
    BY <1>1
  <2> QED
    BY <2>1, OneGrows, Zenon
<1>4. \A d \in Ends : Len(data'[d]) <= DataCap
  <2>1. DataCap \in Nat /\ Len(data[e]) \in Nat
    BY <1>1, MuxAssumption
  <2>2. CASE data' = data
    BY <2>2, <1>1
  <2>3. CASE data' # data
    <3>1. Len(data'[e]) <= DataCap
      BY <2>1, <2>3, <1>3
    <3> QED
      BY <3>1, <1>1, <1>3
  <2> QED
    BY <2>2, <2>3
<1>5. /\ \A d \in Ends : \A i \in 1..Len(ctl'[d]) : ctl'[d][i].kind \in CtlKinds(d)
      /\ \A d \in Ends : \A i \in 1..Len(data'[d]) : data'[d][i].kind \in DataKinds
  BY <1>1, <1>2, <1>3, Zenon
<1>6. QueueShape'
  BY <1>1, <1>2, <1>3, <1>4, <1>5 DEF QueueShape
<1>7. QueuesApart(s)
  BY <1>2, <1>3, SameSelf DEF QueuesApart
<1> QED
  BY <1>6, <1>7

\* Everything of the other streams but the queues.
OthersKept(s) ==
  /\ closed' = closed /\ gap' = gap
  /\ \A t \in Streams : t # s => opener'[t] = opener[t] /\ dialed'[t] = dialed[t]
  /\ \A d \in Ends, t \in Streams : t # s =>
       /\ table'[d][t] = table[d][t] /\ sema'[d][t] = sema[d][t] /\ inbox'[d][t] = inbox[d][t]
       /\ rd'[d][t] = rd[d][t] /\ wr'[d][t] = wr[d][t]
       /\ put'[d][t] = put[d][t] /\ got'[d][t] = got[d][t]

LEMMA OthersStay ==
  ASSUME MuxShape, MuxShape', QueueShape, QueueShape', NEW s \in Streams,
         \A t \in Streams : StreamInv(t), OthersKept(s), QueuesApart(s)
  PROVE  \A t \in Streams : t # s => StreamInv(t)'
<1> SUFFICES ASSUME NEW t \in Streams, t # s
             PROVE  StreamInv(t)'
  OBVIOUS
<1>1. StreamInv(t)
  OBVIOUS
<1>2. closed' = closed /\ gap' = gap /\ opener'[t] = opener[t] /\ dialed'[t] = dialed[t]
  BY DEF OthersKept
<1>3. \A d \in Ends :
           /\ table'[d][t] = table[d][t] /\ sema'[d][t] = sema[d][t] /\ inbox'[d][t] = inbox[d][t]
           /\ rd'[d][t] = rd[d][t] /\ wr'[d][t] = wr[d][t]
           /\ put'[d][t] = put[d][t] /\ got'[d][t] = got[d][t]
           /\ Same(ctl[d], ctl'[d], t) /\ Same(data[d], data'[d], t) /\ Same(wire[d], wire'[d], t)
  BY DEF OthersKept, QueuesApart
<1> QED
  BY <1>1, <1>2, <1>3, StreamApart

LEMMA OneStreamMoves ==
  ASSUME MuxInv, MuxShape', QueueShape', ConnectionCreditWhole', NEW s \in Streams,
         OthersKept(s), QueuesApart(s), StreamInv(s)'
  PROVE  MuxInv'
<1>1. \A t \in Streams : t # s => StreamInv(t)'
  BY OthersStay DEF MuxInv
<1>2. NoFalseAccusation'
  BY DEF MuxInv, NoFalseAccusation, OthersKept
<1>3. \A t \in Streams : StreamInv(t)'
  BY <1>1
<1> QED
  BY <1>2, <1>3 DEF MuxInv

-----------------------------------------------------------------------------
(* The credit of the connection. *)

LEMMA OutIs ==
  ASSUME MuxShape
  PROVE  \A e \in Ends : Out(e) \in [Streams -> Nat]
BY EntryFields DEF MuxShape, Out

LEMMA RefundFits ==
  ASSUME MuxShape, ConnectionCreditWhole, NEW e \in Ends, NEW s \in Streams, closed[e] = "open"
  PROVE  pool[e] + table[e][s].outstanding \in 0..ConnCredit
<1>1. Out(e) \in [Streams -> Nat] /\ Out(e)[s] = table[e][s].outstanding
  BY OutIs DEF Out
<1>2. pool[e] + Cardinality(OwedOf(Out(e))) = ConnCredit
  BY OwedIs DEF ConnectionCreditWhole
<1>3. Out(e)[s] <= Cardinality(OwedOf(Out(e))) /\ Cardinality(OwedOf(Out(e))) \in Nat
  BY <1>1, OwedChanges
<1>4. pool[e] \in Nat /\ ConnCredit \in Nat
  BY MuxAssumption DEF MuxShape
<1>5. table[e][s].outstanding \in Nat
  BY <1>1
<1> QED
  BY <1>1, <1>2, <1>3, <1>4, <1>5

LEMMA CreditKept ==
  ASSUME MuxShape, MuxShape', ConnectionCreditWhole, NEW e \in Ends, NEW s \in Streams,
         \A d \in Ends : closed'[d] = "open" => closed[d] = "open",
         \A d \in Ends, t \in Streams : d # e \/ t # s =>
           table'[d][t].outstanding = table[d][t].outstanding,
         \A d \in Ends : d # e => pool'[d] = pool[d],
         closed'[e] = "open" =>
           pool'[e] + table'[e][s].outstanding = pool[e] + table[e][s].outstanding
  PROVE  ConnectionCreditWhole'
<1> SUFFICES ASSUME NEW d \in Ends, closed'[d] = "open"
             PROVE  pool'[d] + Cardinality(OwedOf([t \in Streams |-> table'[d][t].outstanding])) = ConnCredit
  BY DEF ConnectionCreditWhole, Owed, OwedOf
<1> DEFINE h == [t \in Streams |-> table[d][t].outstanding]
           k == [t \in Streams |-> table'[d][t].outstanding]
<1>1. h \in [Streams -> Nat] /\ k \in [Streams -> Nat]
  <2>1. \A t \in Streams : table[d][t] \in Entries /\ table'[d][t] \in Entries
    BY DEF MuxShape
  <2>2. \A t \in Streams : table[d][t].outstanding \in Nat /\ table'[d][t].outstanding \in Nat
    BY <2>1, EntryFields
  <2> QED
    BY <2>2
<1>2. pool[d] + Cardinality(OwedOf(h)) = ConnCredit
  BY DEF ConnectionCreditWhole, Owed, OwedOf
<1>3. pool[d] \in Nat /\ pool'[d] \in Nat /\ ConnCredit \in Nat
  BY MuxAssumption DEF MuxShape
<1>4. CASE d # e
  <2>1. k = h
    BY <1>4
  <2> HIDE DEF k, h
  <2> QED
    BY <2>1, <1>2, <1>4 DEF k
<1>5. CASE d = e
  <2>1. \A t \in Streams : t # s => h[t] = k[t]
    BY <1>5
  <2>2. h[s] = table[e][s].outstanding /\ k[s] = table'[e][s].outstanding /\ h[s] \in Nat /\ k[s] \in Nat
    BY <1>1, <1>5
  <2> HIDE DEF k, h
  <2>3. /\ Cardinality(OwedOf(h)) \in Nat /\ Cardinality(OwedOf(k)) \in Nat
        /\ Cardinality(OwedOf(k)) = Cardinality(OwedOf(h)) - h[s] + k[s]
    BY <1>1, <2>1, OwedChanges
  <2>4. pool'[d] + k[s] = pool[d] + h[s]
    BY <2>2, <1>5
  <2>5. pool'[d] + Cardinality(OwedOf(k)) = ConnCredit
    BY <1>2, <1>3, <2>2, <2>3, <2>4
  <2> QED
    BY <2>5 DEF k
<1> QED
  BY <1>4, <1>5

\* Nothing of the connection's credit moves.
LEMMA CreditSame ==
  ASSUME MuxShape, MuxShape', ConnectionCreditWhole,
         \A d \in Ends : closed'[d] = "open" => closed[d] = "open", pool' = pool,
         \A d \in Ends, t \in Streams : table'[d][t].outstanding = table[d][t].outstanding
  PROVE  ConnectionCreditWhole'
<1>1. 1 \in Streams /\ "desktop" \in Ends
  BY MuxAssumption DEF Streams, Ends
<1>2. pool'["desktop"] + table'["desktop"][1].outstanding = pool["desktop"] + table["desktop"][1].outstanding
  BY <1>1
<1> QED
  BY <1>1, <1>2, CreditKept

LEMMA ShapeMoves ==
  ASSUME MuxShape, NEW e \in Ends, NEW s \in Streams,
         table' \in [Ends -> [Streams -> Entries]],
         \A d \in Ends, t \in Streams : d # e \/ t # s => table'[d][t] = table[d][t],
         ~ table'[e][s].present => table'[e][s] = Absent,
         sema' \in [Ends -> [Streams -> {n \in Int : n >= -1}]],
         pool' \in [Ends -> 0..ConnCredit], closed' = closed, gap' = gap,
         inbox' \in [Ends -> [Streams -> Seq(Events)]],
         opener' \in [Streams -> Openers], dialed' \in [Streams -> Dials],
         rd' \in [Ends -> [Streams -> RdStates]], wr' \in [Ends -> [Streams -> WrStates]],
         put' \in [Ends -> [Streams -> Nat]], got' \in [Ends -> [Streams -> Nat]]
  PROVE  MuxShape'
<1>1. ASSUME NEW d \in Ends, NEW t \in Streams, ~ table'[d][t].present
      PROVE  table'[d][t] = Absent
  <2>1. CASE d = e /\ t = s
    BY <2>1, <1>1
  <2>2. CASE d # e \/ t # s
    <3>1. table'[d][t] = table[d][t]
      BY <2>2
    <3>2. \A c \in Ends, u \in Streams : ~ table[c][u].present => table[c][u] = Absent
      BY DEF MuxShape, Live
    <3> QED
      BY <3>1, <3>2, <1>1, Zenon
  <2> QED
    BY <2>1, <2>2
<1>2. closed' \in [Ends -> Reasons] /\ gap' \in [Ends -> BOOLEAN]
  BY Zenon DEF MuxShape
<1> QED
  BY <1>1, <1>2, Zenon DEF MuxShape, Live

-----------------------------------------------------------------------------
(* Steps of the bridge of stream s at end e. *)

\* The step leaves the other end as it is, and the frames that end has sent.
FarKept(e, s) ==
  LET o == Other(e) IN
  /\ closed' = closed /\ gap' = gap /\ wire' = wire
  /\ table'[o][s] = table[o][s] /\ sema'[o][s] = sema[o][s] /\ inbox'[o][s] = inbox[o][s]
  /\ rd'[o][s] = rd[o][s] /\ wr'[o][s] = wr[o][s]
  /\ put'[o][s] = put[o][s] /\ got'[o][s] = got[o][s]
  /\ ctl'[o] = ctl[o] /\ data'[o] = data[o]

\* What the step does to the reader's and to the writer's half at e.
EntryShrinks(e, s) ==
  /\ table'[e][s].present => /\ table[e][s].present /\ table'[e][s].unread = table[e][s].unread
                             /\ table'[e][s].rfin = table[e][s].rfin
  /\ table'[e][s].rfin => table[e][s].rfin
  /\ rd'[e][s] = "ended" => rd[e][s] = "ended"
  /\ table'[e][s].present /\ rd[e][s] = "ended" => rd'[e][s] = "ended"
WriterMoves(e, s) ==
  /\ wr'[e][s] \in {"stream", "conn", "data"} =>
       wr[e][s] \in {"stream", "conn", "data"} \/ put[e][s] < Chunks[e]
  /\ wr[e][s] \in {"ended", "over"} => wr'[e][s] \in {"ended", "over"}
  /\ Free(e, s)' + Holds(e, s)' <= Free(e, s) + Holds(e, s)
  /\ table'[e][s].present =>
       /\ table[e][s].present /\ sema'[e][s] >= 0
       /\ Taken(e, s)' + table[e][s].outstanding <= Taken(e, s) + table'[e][s].outstanding

LEMMA HoldingsAreNat ==
  ASSUME MuxShape, NEW e \in Ends, NEW s \in Streams
  PROVE  /\ Free(e, s) \in Nat /\ Holds(e, s) \in Nat /\ Taken(e, s) \in Nat
         /\ table[e][s].outstanding \in Nat /\ sema[e][s] \in Int
         /\ put[e][s] \in Nat /\ got[e][s] \in Nat
<1>1. sema[e][s] \in Int /\ table[e][s] \in Entries /\ put[e][s] \in Nat /\ got[e][s] \in Nat
  BY DEF MuxShape
<1> QED
  BY <1>1, EntryFields DEF Free, Holds, Taken

LEMMA HoldingsStayNat ==
  ASSUME MuxShape', NEW e \in Ends, NEW s \in Streams
  PROVE  /\ Free(e, s)' \in Nat /\ Holds(e, s)' \in Nat /\ Taken(e, s)' \in Nat
         /\ table'[e][s].outstanding \in Nat /\ sema'[e][s] \in Int
         /\ put'[e][s] \in Nat /\ got'[e][s] \in Nat
<1>1. sema'[e][s] \in Int /\ table'[e][s] \in Entries /\ put'[e][s] \in Nat /\ got'[e][s] \in Nat
  BY DEF MuxShape
<1> QED
  BY <1>1, EntryFields DEF Free, Holds, Taken

LEMMA WriterKeepsWindow ==
  ASSUME MuxShape, MuxShape', QueueShape, QueueShape', NEW e \in Ends, NEW s \in Streams,
         Window(e, s), FarKept(e, s), WriterMoves(e, s), put'[e][s] = put[e][s]
  PROVE  Window(e, s)'
<1> DEFINE o == Other(e)
<1>1. o \in Ends
  BY TheOther
<1>2. Updates(o, s)' = Updates(o, s)
  BY DEF Updates, FarKept
<1>3. Updates(o, s) \in Nat
  BY <1>1, UpdatesAreNat
<1>4. got'[o][s] = got[o][s]
  BY DEF FarKept
<1> HIDE DEF o
<1>5. o = Other(e)
  BY DEF o
<1>6. /\ Free(e, s)' + Holds(e, s)' + Updates(o, s)' <= Free(e, s) + Holds(e, s) + Updates(o, s)
      /\ table'[e][s].present =>
           /\ table[e][s].present /\ sema'[e][s] >= 0
           /\ Taken(e, s)' + Updates(o, s)' + table[e][s].outstanding
                <= Taken(e, s) + Updates(o, s) + table'[e][s].outstanding
  <2>1. /\ Free(e, s)' + Holds(e, s)' <= Free(e, s) + Holds(e, s)
        /\ table'[e][s].present =>
             /\ table[e][s].present /\ sema'[e][s] >= 0
             /\ Taken(e, s)' + table[e][s].outstanding <= Taken(e, s) + table'[e][s].outstanding
    BY DEF WriterMoves
  <2>2. /\ Free(e, s) \in Nat /\ Holds(e, s) \in Nat /\ Taken(e, s) \in Nat
        /\ table[e][s].outstanding \in Nat
    BY HoldingsAreNat
  <2>3. /\ Free(e, s)' \in Nat /\ Holds(e, s)' \in Nat /\ Taken(e, s)' \in Nat
        /\ table'[e][s].outstanding \in Nat
    BY HoldingsStayNat
  <2> QED
    BY <1>2, <1>3, <2>1, <2>2, <2>3
<1> QED
  BY <1>1, <1>4, <1>5, <1>6, WindowKept

\* The direction in which e writes, when it hands nothing over.
LEMMA SpeaksOn ==
  ASSUME MuxShape, MuxShape', QueueShape, QueueShape', NEW e \in Ends, NEW s \in Streams,
         Line(e, s), FarKept(e, s), WriterMoves(e, s),
         put'[e][s] = put[e][s], data'[e] = data[e]
  PROVE  Line(e, s)'
<1> DEFINE o == Other(e)
<1>1. o \in Ends
  BY TheOther
<1>2. Inbox(e, s) /\ Sent(e, s) /\ Window(e, s) /\ Order(e, s)
  BY DEF Line
<1>3. Window(e, s)'
  BY <1>2, WriterKeepsWindow
<1>4. /\ closed' = closed /\ gap' = gap /\ wire' = wire
      /\ table'[o][s] = table[o][s] /\ inbox'[o][s] = inbox[o][s] /\ rd'[o][s] = rd[o][s]
      /\ got'[o][s] = got[o][s]
  BY DEF FarKept
<1> HIDE DEF o
<1>5. o = Other(e)
  BY DEF o
<1>6. Inbox(e, s)'
  BY <1>1, <1>2, <1>4, <1>5, InboxKept
<1>7. Sent(e, s)'
  <2>1. In(wire'[e], Frame("Fin", s)) \/ In(data'[e], Frame("Fin", s)) => InFlight(e, Frame("Fin", s))
    BY <1>4 DEF InFlight
  <2>2. /\ wr'[e][s] \in {"stream", "conn", "data"} =>
             wr[e][s] \in {"stream", "conn", "data"} \/ put[e][s] < Chunks[e]
        /\ wr[e][s] \in {"ended", "over"} => wr'[e][s] \in {"ended", "over"}
    BY DEF WriterMoves
  <2> QED
    BY <1>1, <1>2, <1>4, <1>5, <2>1, <2>2, SentKept
<1>8. Order(e, s)'
  <2>1. ItemsKept(wire[e], wire'[e], s) /\ ItemsKept(data[e], data'[e], s)
    BY <1>4, SameSelf
  <2> QED
    BY <1>1, <1>2, <1>4, <1>5, <2>1, OrderKept
<1> QED
  BY <1>3, <1>6, <1>7, <1>8 DEF Line

\* The other direction, when e takes nothing from its inbox and returns no credit.
LEMMA HearsOn ==
  ASSUME MuxShape, MuxShape', QueueShape, QueueShape', NEW e \in Ends, NEW s \in Streams,
         Line(Other(e), s), FarKept(e, s), EntryShrinks(e, s), Updates(e, s)' = Updates(e, s),
         got'[e][s] = got[e][s], inbox'[e][s] = inbox[e][s]
  PROVE  Line(Other(e), s)'
<1> DEFINE o == Other(e)
<1>1. o \in Ends /\ Other(o) = e
  BY TheOther
<1>2. /\ closed' = closed /\ gap' = gap /\ wire' = wire
      /\ table'[o][s] = table[o][s] /\ sema'[o][s] = sema[o][s] /\ wr'[o][s] = wr[o][s]
      /\ put'[o][s] = put[o][s] /\ data'[o] = data[o]
  BY DEF FarKept
<1>3. Line(o, s)
  OBVIOUS
<1> HIDE DEF o
<1>4. Inbox(o, s) /\ Sent(o, s) /\ Window(o, s) /\ Order(o, s)
  BY <1>3 DEF Line
<1>5. Inbox(o, s)'
  BY <1>1, <1>2, <1>4, InboxKept DEF EntryShrinks
<1>6. Sent(o, s)'
  <2>1. In(wire'[o], Frame("Fin", s)) \/ In(data'[o], Frame("Fin", s)) => InFlight(o, Frame("Fin", s))
    BY <1>2 DEF InFlight
  <2> QED
    BY <1>1, <1>2, <1>4, <2>1, SentKept DEF EntryShrinks
<1>7. Window(o, s)'
  <2>1. Updates(e, s) \in Nat
    BY UpdatesAreNat
  <2>2. Free(o, s)' = Free(o, s) /\ Holds(o, s)' = Holds(o, s) /\ Taken(o, s)' = Taken(o, s)
    BY <1>2 DEF Free, Holds, Taken
  <2>3. /\ Free(o, s) \in Nat /\ Holds(o, s) \in Nat /\ Taken(o, s) \in Nat
        /\ table[o][s].outstanding \in Nat
    BY <1>1, HoldingsAreNat
  <2>4. table'[o][s].present => sema'[o][s] >= 0
    BY <1>2, <1>4 DEF Window, Live
  <2>5. /\ Free(o, s)' + Holds(o, s)' + Updates(e, s)' <= Free(o, s) + Holds(o, s) + Updates(e, s)
        /\ Taken(o, s)' + Updates(e, s)' + table[o][s].outstanding
             <= Taken(o, s) + Updates(e, s) + table'[o][s].outstanding
    BY <1>2, <2>1, <2>2, <2>3
  <2> QED
    BY <1>1, <1>2, <1>4, <2>4, <2>5, WindowKept
<1>8. Order(o, s)'
  <2>1. ItemsKept(wire[o], wire'[o], s) /\ ItemsKept(data[o], data'[o], s)
    BY <1>2, SameSelf
  <2> QED
    BY <1>1, <1>2, <1>4, <2>1, OrderKept DEF EntryShrinks
<1>9. Line(o, s)'
  BY <1>5, <1>6, <1>7, <1>8 DEF Line
<1> QED
  BY <1>9 DEF o

LEMMA Bridging ==
  ASSUME NEW e \in Ends, NEW s \in Streams, StreamInv(s), ~ Still(e, s)
  PROVE  /\ dialed[s] # "none" /\ opener[s] # "idle"
         /\ e = "daemon" => dialed[s] = "done"
         /\ ~ table[e][s].opening
<1>1. Start(s) /\ Opening(s)
  BY DEF StreamInv
<1>2. e \in {"desktop", "daemon"}
  BY DEF Ends
<1> QED
  BY <1>1, <1>2 DEF Start, Opening

BridgeSays == {"WindowUpdate", "Reset"}

LEMMA Tells ==
  ASSUME QueueShape, NEW e \in Ends, NEW s \in Streams, Grows(ctl, ctl', e, s, BridgeSays)
  PROVE  /\ Grows(ctl, ctl', e, s, CtlKinds(e))
         /\ \A d \in Ends : d # e => ctl'[d] = ctl[d]
         /\ ctl' = ctl \/ \E f \in Frames : /\ f.s = s /\ f.kind \in BridgeSays
                                            /\ ctl'[e] = Append(ctl[e], f)
<1>1. ctl \in [Ends -> Seq(Frames)]
  BY DEF QueueShape
<1>2. BridgeSays \subseteq CtlKinds(e)
  BY DEF BridgeSays, CtlKinds
<1>3. CASE ctl' = ctl
  BY <1>3 DEF Grows
<1>4. CASE ctl' # ctl
  <2>1. PICK f \in Frames : f.s = s /\ f.kind \in BridgeSays /\ ctl' = [ctl EXCEPT ![e] = Append(@, f)]
    BY <1>4 DEF Grows
  <2>2. ctl'[e] = Append(ctl[e], f) /\ \A d \in Ends : d # e => ctl'[d] = ctl[d]
    BY <1>1, <2>1
  <2>3. f.kind \in CtlKinds(e)
    BY <1>2, <2>1
  <2> QED
    BY <2>1, <2>2, <2>3, Zenon DEF Grows
<1> QED
  BY <1>3, <1>4

\* The rest of the invariant of s, for a step of its bridge.
LEMMA BridgeRest ==
  ASSUME QueueShape, NEW e \in Ends, NEW s \in Streams, StreamInv(s), ~ Still(e, s), FarKept(e, s),
         opener'[s] = opener[s], dialed'[s] = dialed[s],
         Grows(ctl, ctl', e, s, BridgeSays), ~ table'[e][s].opening
  PROVE  Start(s)' /\ Answer(s)' /\ Opening(s)'
<1>1. Start(s) /\ Answer(s) /\ Opening(s)
  BY DEF StreamInv
<1>2. /\ dialed[s] # "none" /\ opener[s] # "idle" /\ (e = "daemon" => dialed[s] = "done")
      /\ ~ table[e][s].opening
  BY Bridging
<1>3. opener'[s] = opener[s] /\ dialed'[s] = dialed[s] /\ closed' = closed /\ wire' = wire
  BY DEF FarKept
<1>4. CASE e = "desktop"
  <2>1. /\ Other(e) = "daemon" /\ rd'["daemon"][s] = rd["daemon"][s] /\ wr'["daemon"][s] = wr["daemon"][s]
        /\ table'["daemon"][s] = table["daemon"][s] /\ ctl'["daemon"] = ctl["daemon"]
    BY <1>4 DEF FarKept, Other
  <2>2. dialed[s] # "done" => rd["daemon"][s] = "off" /\ wr["daemon"][s] = "off"
    BY <1>1 DEF Start, Still
  <2>3. Start(s)'
    BY <1>2, <1>3, <2>1, <2>2, StartLate
  <2>4. Answer(s)'
    BY <1>1, <1>3, <2>1, AnswerKept
  <2>5. Opening(s)'
    <3>1. \A f \in Answers(s) : Queued("daemon", f)' => Queued("daemon", f)
      BY <1>3, <2>1 DEF Queued
    <3>2. ~ table["desktop"][s].opening /\ ~ table'["desktop"][s].opening
      BY <1>2, <1>4
    <3> QED
      BY <1>1, <1>3, <2>1, <3>1, <3>2 DEF Opening
  <2> QED
    BY <2>3, <2>4, <2>5
<1>5. CASE e = "daemon"
  <2>1. /\ Other(e) = "desktop" /\ rd'["desktop"][s] = rd["desktop"][s]
        /\ wr'["desktop"][s] = wr["desktop"][s] /\ table'["desktop"][s] = table["desktop"][s]
    BY <1>5 DEF FarKept, Other
  <2>2. Start(s)'
    BY <1>2, <1>3, <1>5, StartLate
  <2>3. /\ ctl["daemon"] \in Seq(Frames) /\ Frame("Reset", s) \in Frames
        /\ Frame("Reset", s).kind = "Reset" /\ Frame("Reset", s).s = s
        /\ \A f \in Answers(s) : f.kind \in {"Opened", "OpenFailed"}
    BY <1>5, FramesAre, FrameFields DEF QueueShape, Answers, Kinds
  <2>4. /\ \A f \in Answers(s) : /\ In(ctl'["daemon"], f) => In(ctl["daemon"], f)
                                 /\ Once(ctl["daemon"], f) => Once(ctl'["daemon"], f)
        /\ \A f \in Answers(s) : Leads(ctl["daemon"], f, Frame("Reset", s))
                                   => Leads(ctl'["daemon"], f, Frame("Reset", s))
    <3>1. CASE ctl' = ctl
      BY <3>1
    <3>2. CASE ctl' # ctl
      <4>1. PICK h \in Frames : h.s = s /\ h.kind \in BridgeSays /\ ctl'["daemon"] = Append(ctl["daemon"], h)
        BY <1>5, <3>2, Tells
      <4>2. \A f \in Answers(s) : f # h /\ f # Frame("Reset", s)
        BY <4>1, <2>3 DEF BridgeSays
      <4>3. /\ \A f : In(ctl'["daemon"], f) <=> In(ctl["daemon"], f) \/ f = h
            /\ \A f : Once(ctl["daemon"], f) /\ (f = h => ~ In(ctl["daemon"], f)) => Once(ctl'["daemon"], f)
            /\ \A f, g : Leads(ctl["daemon"], f, g) /\ f # g /\ (f = h => ~ In(ctl["daemon"], g))
                           => Leads(ctl'["daemon"], f, g)
        BY <2>3, <4>1, AppendQueue
      <4> QED
        BY <4>2, <4>3
    <3> QED
      BY <3>1, <3>2
  <2>5. Answer(s)'
    BY <1>1, <1>2, <1>3, <1>5, <2>4 DEF Answer, Queued
  <2>6. Opening(s)'
    <3>1. \A f \in Answers(s) : Queued("daemon", f)' => Queued("daemon", f)
      BY <1>3, <2>4 DEF Queued
    <3> QED
      BY <1>1, <1>3, <1>5, <2>1, <3>1 DEF Opening, Still
  <2> QED
    BY <2>2, <2>5, <2>6
<1> QED
  BY <1>4, <1>5 DEF Ends

\* A Reset changes no number of credit records, a WindowUpdate adds one.
LEMMA UpdatesTold ==
  ASSUME QueueShape, QueueShape', NEW e \in Ends, NEW s \in Streams, wire' = wire
  PROVE  /\ Grows(ctl, ctl', e, s, {"Reset"}) => Updates(e, s)' = Updates(e, s)
         /\ ctl'[e] = Append(ctl[e], Frame("WindowUpdate", s)) => Updates(e, s)' = Updates(e, s) + 1
<1> DEFINE w == Frame("WindowUpdate", s)
<1>1. ctl \in [Ends -> Seq(Frames)] /\ ctl[e] \in Seq(Frames) /\ wire[e] \in Seq(Frames)
  BY DEF QueueShape
<1>2. Count(ctl[e], w) \in Nat /\ Count(wire[e], w) \in Nat
  BY <1>1, CountIsNat, Zenon
<1>3. w.kind = "WindowUpdate" /\ w \in Frames
  BY FrameFields, FramesAre DEF Kinds
<1> HIDE DEF w
<1>4. \A h \in Frames : Count(Append(ctl[e], h), w) = Count(ctl[e], w) + (IF w = h THEN 1 ELSE 0)
  BY <1>1, AppendQueue
<1>5. ASSUME Grows(ctl, ctl', e, s, {"Reset"})
      PROVE  Count(ctl'[e], w) = Count(ctl[e], w)
  <2>1. CASE ctl' = ctl
    BY <2>1
  <2>2. CASE ctl' # ctl
    <3>1. PICK h \in Frames : h.kind = "Reset" /\ ctl' = [ctl EXCEPT ![e] = Append(@, h)]
      BY <1>5, <2>2 DEF Grows
    <3>2. ctl'[e] = Append(ctl[e], h)
      BY <1>1, <3>1
    <3>3. (IF w = h THEN 1 ELSE 0) = 0
      BY <1>3, <3>1
    <3> QED
      BY <1>2, <1>4, <3>2, <3>3
  <2> QED
    BY <2>1, <2>2
<1>6. ASSUME ctl'[e] = Append(ctl[e], w)
      PROVE  Count(ctl'[e], w) = Count(ctl[e], w) + 1
  <2>1. (IF w = w THEN 1 ELSE 0) = 1
    OBVIOUS
  <2> QED
    BY <1>3, <1>4, <1>6, <2>1
<1>7. Updates(e, s) = Count(ctl[e], w) + Count(wire[e], w) /\ Updates(e, s)' = Count(ctl'[e], w) + Count(wire[e], w)
  BY DEF Updates, w
<1>8. ctl'[e] = Append(ctl[e], Frame("WindowUpdate", s)) => Count(ctl'[e], w) = Count(ctl[e], w) + 1
  BY <1>6 DEF w
<1> QED
  BY <1>2, <1>5, <1>7, <1>8

\* A step of one bridge, whatever it does, put together.
LEMMA BridgeStep ==
  ASSUME MuxInv, MuxShape', NEW e \in Ends, NEW s \in Streams, ~ Still(e, s),
         opener' = opener, dialed' = dialed, FarKept(e, s), OthersKept(s), Grows(ctl, ctl', e, s, BridgeSays),
         Grows(data, data', e, s, DataKinds), data' = data \/ Len(data[e]) < DataCap,
         \A d \in Ends : d # e => pool'[d] = pool[d],
         closed[e] = "open" =>
           pool'[e] + table'[e][s].outstanding = pool[e] + table[e][s].outstanding,
         ~ table'[e][s].opening,
         QueueShape' => Line(e, s)' /\ Line(Other(e), s)'
  PROVE  MuxInv'
<1>1. MuxShape /\ QueueShape /\ ConnectionCreditWhole /\ StreamInv(s)
  BY DEF MuxInv
<1>2. wire' = wire /\ closed' = closed /\ table'[Other(e)][s] = table[Other(e)][s]
  BY DEF FarKept
<1>3. QueueShape' /\ QueuesApart(s)
  <2>1. Grows(ctl, ctl', e, s, CtlKinds(e))
    BY <1>1, Tells
  <2> QED
    BY <1>1, <1>2, <2>1, QueuesGrow
<1>4. ConnectionCreditWhole'
  <2>1. ASSUME NEW d \in Ends, NEW t \in Streams, d # e \/ t # s
        PROVE  table'[d][t].outstanding = table[d][t].outstanding
    <3>1. CASE t # s
      BY <3>1 DEF OthersKept
    <3>2. CASE t = s
      BY <3>2, <2>1, <1>2, TheOther
    <3> QED
      BY <3>1, <3>2
  <2> QED
    BY <1>1, <1>2, <2>1, CreditKept
<1>5. Start(s)' /\ Answer(s)' /\ Opening(s)'
  BY <1>1, BridgeRest
<1>6. \A d \in Ends : Line(d, s)'
  <2>1. Line(e, s)' /\ Line(Other(e), s)'
    BY <1>3
  <2> QED
    BY <2>1, TheOther
<1>7. StreamInv(s)'
  BY <1>5, <1>6 DEF StreamInv
<1> QED
  BY <1>3, <1>4, <1>7, OneStreamMoves

\* A step that hands nothing over and takes nothing in.
LEMMA ControlStep ==
  ASSUME MuxInv, MuxShape', NEW e \in Ends, NEW s \in Streams, ~ Still(e, s),
         opener' = opener, dialed' = dialed, FarKept(e, s), OthersKept(s), Grows(ctl, ctl', e, s, {"Reset"}), data' = data,
         \A d \in Ends : d # e => pool'[d] = pool[d],
         closed[e] = "open" =>
           pool'[e] + table'[e][s].outstanding = pool[e] + table[e][s].outstanding,
         ~ table'[e][s].opening, EntryShrinks(e, s), WriterMoves(e, s),
         put'[e][s] = put[e][s], got'[e][s] = got[e][s], inbox'[e][s] = inbox[e][s]
  PROVE  MuxInv'
<1>1. MuxShape /\ QueueShape /\ StreamInv(s)
  BY DEF MuxInv
<1>2. Line(e, s) /\ Line(Other(e), s)
  BY <1>1, TheOther DEF StreamInv
<1>3. wire' = wire
  BY DEF FarKept
<1>4. ASSUME QueueShape'
      PROVE  Line(e, s)' /\ Line(Other(e), s)'
  <2>1. Updates(e, s)' = Updates(e, s)
    BY <1>1, <1>3, <1>4, UpdatesTold
  <2>2. Line(Other(e), s)'
    BY <1>1, <1>2, <1>4, <2>1, HearsOn
  <2>3. data'[e] = data[e]
    OBVIOUS
  <2>4. Line(e, s)'
    BY <1>1, <1>2, <1>4, <2>3, SpeaksOn
  <2> QED
    BY <2>2, <2>4
<1>5. Grows(ctl, ctl', e, s, BridgeSays) /\ Grows(data, data', e, s, DataKinds)
  BY DEF Grows, BridgeSays
<1> QED
  BY <1>4, <1>5, BridgeStep

-----------------------------------------------------------------------------
(* The bridge fails. *)

LEMMA FailFacts ==
  ASSUME MuxInv, NEW e \in Ends, NEW s \in Streams, Fail(e, s)
  PROVE  /\ table' \in [Ends -> [Streams -> Entries]] /\ table'[e][s] = Absent
         /\ rd' \in [Ends -> [Streams -> RdStates]] /\ rd'[e][s] = "over"
         /\ wr' \in [Ends -> [Streams -> WrStates]] /\ wr'[e][s] = "over"
         /\ \A d \in Ends, t \in Streams : d # e \/ t # s =>
              table'[d][t] = table[d][t] /\ rd'[d][t] = rd[d][t] /\ wr'[d][t] = wr[d][t]
         /\ pool' \in [Ends -> 0..ConnCredit] /\ \A d \in Ends : d # e => pool'[d] = pool[d]
         /\ closed[e] = "open" => pool'[e] + table'[e][s].outstanding = pool[e] + table[e][s].outstanding
         /\ Grows(ctl, ctl', e, s, {"Reset"})
<1>1. MuxShape /\ ConnectionCreditWhole
  BY DEF MuxInv
<1>2. /\ table \in [Ends -> [Streams -> Entries]] /\ rd \in [Ends -> [Streams -> RdStates]]
      /\ wr \in [Ends -> [Streams -> WrStates]] /\ pool \in [Ends -> 0..ConnCredit]
      /\ ~ Live(e, s) => table[e][s] = Absent
  BY <1>1 DEF MuxShape
<1>3. rd' = [rd EXCEPT ![e][s] = "over"] /\ wr' = [wr EXCEPT ![e][s] = "over"]
  BY DEF Fail, Over
<1>4. "over" \in RdStates /\ "over" \in WrStates
  BY DEF RdStates, WrStates
<1>5. /\ rd' \in [Ends -> [Streams -> RdStates]] /\ rd'[e][s] = "over"
      /\ \A d \in Ends, t \in Streams : d # e \/ t # s => rd'[d][t] = rd[d][t]
  BY <1>2, <1>3, <1>4, Place
<1>6. /\ wr' \in [Ends -> [Streams -> WrStates]] /\ wr'[e][s] = "over"
      /\ \A d \in Ends, t \in Streams : d # e \/ t # s => wr'[d][t] = wr[d][t]
  BY <1>2, <1>3, <1>4, Place
<1>7. CASE ~ Live(e, s)
  <2>1. table' = table /\ pool' = pool /\ ctl' = ctl
    BY <1>7 DEF Fail
  <2> QED
    BY <1>2, <1>5, <1>6, <1>7, <2>1 DEF Grows
<1>8. CASE Live(e, s)
  <2>1. /\ table' = [table EXCEPT ![e][s] = Absent]
        /\ pool' = [pool EXCEPT ![e] = IF closed[e] = "open" THEN @ + table[e][s].outstanding ELSE @]
        /\ ctl' = [ctl EXCEPT ![e] = Append(@, Frame("Reset", s))]
    BY <1>8 DEF Fail, Removed, Refund, Tell
  <2>2. /\ table' \in [Ends -> [Streams -> Entries]] /\ table'[e][s] = Absent
        /\ \A d \in Ends, t \in Streams : d # e \/ t # s => table'[d][t] = table[d][t]
    BY <1>2, <2>1, FreshEntry, Place
  <2>3. closed[e] = "open" => pool[e] + table[e][s].outstanding \in 0..ConnCredit
    BY <1>1, RefundFits
  <2>4. /\ pool' \in [Ends -> 0..ConnCredit] /\ \A d \in Ends : d # e => pool'[d] = pool[d]
        /\ closed[e] = "open" => pool'[e] = pool[e] + table[e][s].outstanding
    BY <1>2, <2>1, <2>3
  <2>5. closed[e] = "open" => pool'[e] + table'[e][s].outstanding = pool[e] + table[e][s].outstanding
    BY <2>2, <2>3, <2>4, FreshEntry
  <2>6. Frame("Reset", s) \in Frames /\ Frame("Reset", s).s = s /\ Frame("Reset", s).kind = "Reset"
    BY FramesAre, FrameFields DEF Kinds
  <2>7. Grows(ctl, ctl', e, s, {"Reset"})
    BY <2>1, <2>6, Zenon DEF Grows
  <2> QED
    BY <1>5, <1>6, <2>2, <2>4, <2>5, <2>7
<1> QED
  BY <1>7, <1>8

LEMMA FailMoves ==
  ASSUME MuxInv, NEW e \in Ends, NEW s \in Streams, Fail(e, s), UNCHANGED sema
  PROVE  EntryShrinks(e, s) /\ WriterMoves(e, s) /\ ~ table'[e][s].opening
<1>1. table'[e][s] = Absent /\ rd'[e][s] = "over" /\ wr'[e][s] = "over"
  BY FailFacts
<1>2. ~ table'[e][s].present /\ ~ table'[e][s].rfin /\ ~ table'[e][s].opening
  BY <1>1, FreshEntry
<1>3. Free(e, s)' = Free(e, s) /\ Holds(e, s)' = 0 /\ Holds(e, s) \in Nat /\ Free(e, s) \in Nat
  BY <1>1, HoldingsAreNat DEF Free, Holds, MuxInv
<1>4. EntryShrinks(e, s)
  BY <1>1, <1>2 DEF EntryShrinks
<1>5. WriterMoves(e, s)
  BY <1>1, <1>2, <1>3 DEF WriterMoves
<1> QED
  BY <1>2, <1>4, <1>5

\* What a step of the bridge at e does not touch.
LEMMA FarIs ==
  ASSUME NEW e \in Ends, NEW s \in Streams, MuxInv,
         UNCHANGED <<closed, gap, wire, opener, dialed>>,
         \A d \in Ends, t \in Streams : d # e \/ t # s =>
           /\ table'[d][t] = table[d][t] /\ sema'[d][t] = sema[d][t] /\ inbox'[d][t] = inbox[d][t]
           /\ rd'[d][t] = rd[d][t] /\ wr'[d][t] = wr[d][t]
           /\ put'[d][t] = put[d][t] /\ got'[d][t] = got[d][t],
         \A d \in Ends : d # e => ctl'[d] = ctl[d] /\ data'[d] = data[d]
  PROVE  FarKept(e, s) /\ OthersKept(s)
BY TheOther DEF FarKept, OthersKept

LEMMA FailKeeps ==
  ASSUME MuxInv, NEW e \in Ends, NEW s \in Streams, ~ Still(e, s), Fail(e, s), Elsewhere,
         UNCHANGED <<sema, data, inbox, put, got>>
  PROVE  MuxInv'
<1>1. /\ table' \in [Ends -> [Streams -> Entries]] /\ table'[e][s] = Absent
      /\ rd' \in [Ends -> [Streams -> RdStates]] /\ wr' \in [Ends -> [Streams -> WrStates]]
      /\ \A d \in Ends, t \in Streams : d # e \/ t # s =>
           table'[d][t] = table[d][t] /\ rd'[d][t] = rd[d][t] /\ wr'[d][t] = wr[d][t]
      /\ pool' \in [Ends -> 0..ConnCredit] /\ \A d \in Ends : d # e => pool'[d] = pool[d]
      /\ closed[e] = "open" => pool'[e] + table'[e][s].outstanding = pool[e] + table[e][s].outstanding
      /\ Grows(ctl, ctl', e, s, {"Reset"})
  BY FailFacts
<1>2. MuxShape /\ QueueShape
  BY DEF MuxInv
<1>3. UNCHANGED <<closed, wire, gap, opener, dialed>>
  BY DEF Elsewhere
<1>4. MuxShape'
  <2>1. /\ sema' \in [Ends -> [Streams -> {n \in Int : n >= -1}]]
        /\ inbox' \in [Ends -> [Streams -> Seq(Events)]]
        /\ opener' \in [Streams -> Openers] /\ dialed' \in [Streams -> Dials]
        /\ put' \in [Ends -> [Streams -> Nat]] /\ got' \in [Ends -> [Streams -> Nat]]
    BY <1>2, <1>3 DEF MuxShape
  <2> QED
    BY <1>1, <1>2, <1>3, <2>1, ShapeMoves, Zenon
<1>5. \A d \in Ends : d # e => ctl'[d] = ctl[d]
  <2>1. Grows(ctl, ctl', e, s, BridgeSays)
    BY <1>1 DEF Grows, BridgeSays
  <2> QED
    BY <1>2, <2>1, Tells
<1>6. FarKept(e, s) /\ OthersKept(s)
  <2>1. \A d \in Ends, t \in Streams : d # e \/ t # s =>
          /\ table'[d][t] = table[d][t] /\ sema'[d][t] = sema[d][t] /\ inbox'[d][t] = inbox[d][t]
          /\ rd'[d][t] = rd[d][t] /\ wr'[d][t] = wr[d][t]
          /\ put'[d][t] = put[d][t] /\ got'[d][t] = got[d][t]
    BY <1>1
  <2>2. \A d \in Ends : d # e => ctl'[d] = ctl[d] /\ data'[d] = data[d]
    BY <1>5
  <2> QED
    BY <1>3, <2>1, <2>2, FarIs, Zenon
<1>7. EntryShrinks(e, s) /\ WriterMoves(e, s) /\ ~ table'[e][s].opening
  BY FailMoves
<1> QED
  BY <1>1, <1>3, <1>4, <1>6, <1>7, ControlStep

-----------------------------------------------------------------------------
(* The steps of a bridge that neither take nor hand over a chunk. *)

LEMMA PlaceField ==
  ASSUME table \in [Ends -> [Streams -> Entries]], NEW e \in Ends, NEW s \in Streams
  PROVE  /\ \A n \in Nat : /\ [table EXCEPT ![e][s].outstanding = n]
                                = [table EXCEPT ![e][s] = [table[e][s] EXCEPT !.outstanding = n]]
                           /\ [table EXCEPT ![e][s].unread = n]
                                = [table EXCEPT ![e][s] = [table[e][s] EXCEPT !.unread = n]]
         /\ \A b \in BOOLEAN : /\ [table EXCEPT ![e][s].lfin = b]
                                    = [table EXCEPT ![e][s] = [table[e][s] EXCEPT !.lfin = b]]
                               /\ [table EXCEPT ![e][s].rfin = b]
                                    = [table EXCEPT ![e][s] = [table[e][s] EXCEPT !.rfin = b]]
                               /\ [table EXCEPT ![e][s].opening = b]
                                    = [table EXCEPT ![e][s] = [table[e][s] EXCEPT !.opening = b]]
OBVIOUS

LEMMA QuietStep ==
  ASSUME MuxInv, NEW e \in Ends, NEW s \in Streams, ~ Still(e, s), Elsewhere,
         UNCHANGED <<ctl, data, inbox, put, got>>,
         table' \in [Ends -> [Streams -> Entries]],
         sema' \in [Ends -> [Streams -> {n \in Int : n >= -1}]],
         rd' \in [Ends -> [Streams -> RdStates]], wr' \in [Ends -> [Streams -> WrStates]],
         pool' \in [Ends -> 0..ConnCredit],
         \A d \in Ends, t \in Streams : d # e \/ t # s => table'[d][t] = table[d][t],
         \A d \in Ends, t \in Streams : d # e \/ t # s => sema'[d][t] = sema[d][t],
         \A d \in Ends, t \in Streams : d # e \/ t # s => rd'[d][t] = rd[d][t],
         \A d \in Ends, t \in Streams : d # e \/ t # s => wr'[d][t] = wr[d][t],
         ~ table'[e][s].present => table'[e][s] = Absent,
         \A d \in Ends : d # e => pool'[d] = pool[d],
         closed[e] = "open" =>
           pool'[e] + table'[e][s].outstanding = pool[e] + table[e][s].outstanding,
         ~ table'[e][s].opening, EntryShrinks(e, s), WriterMoves(e, s)
  PROVE  MuxInv'
<1>1. MuxShape /\ QueueShape
  BY DEF MuxInv
<1>2. UNCHANGED <<closed, wire, gap, opener, dialed>>
  BY DEF Elsewhere
<1>3. MuxShape'
  <2>1. /\ inbox' \in [Ends -> [Streams -> Seq(Events)]]
        /\ opener' \in [Streams -> Openers] /\ dialed' \in [Streams -> Dials]
        /\ put' \in [Ends -> [Streams -> Nat]] /\ got' \in [Ends -> [Streams -> Nat]]
    BY <1>1, <1>2, Zenon DEF MuxShape
  <2> QED
    BY <1>1, <1>2, <2>1, ShapeMoves, Zenon
<1>4. FarKept(e, s) /\ OthersKept(s)
  <2>1. \A d \in Ends, t \in Streams : d # e \/ t # s =>
           /\ table'[d][t] = table[d][t] /\ sema'[d][t] = sema[d][t] /\ inbox'[d][t] = inbox[d][t]
           /\ rd'[d][t] = rd[d][t] /\ wr'[d][t] = wr[d][t]
           /\ put'[d][t] = put[d][t] /\ got'[d][t] = got[d][t]
    OBVIOUS
  <2> QED
    BY <1>2, <2>1, FarIs
<1>5. Grows(ctl, ctl', e, s, {"Reset"})
  BY DEF Grows
<1> QED
  BY <1>2, <1>3, <1>4, <1>5, ControlStep

LEMMA ShapeParts ==
  ASSUME MuxInv
  PROVE  /\ table \in [Ends -> [Streams -> Entries]]
         /\ sema \in [Ends -> [Streams -> {n \in Int : n >= -1}]]
         /\ rd \in [Ends -> [Streams -> RdStates]] /\ wr \in [Ends -> [Streams -> WrStates]]
         /\ pool \in [Ends -> 0..ConnCredit] /\ closed \in [Ends -> Reasons]
         /\ put \in [Ends -> [Streams -> Nat]] /\ got \in [Ends -> [Streams -> Nat]]
         /\ inbox \in [Ends -> [Streams -> Seq(Events)]]
         /\ opener \in [Streams -> Openers] /\ dialed \in [Streams -> Dials]
         /\ ctl \in [Ends -> Seq(Frames)] /\ data \in [Ends -> Seq(Frames)]
         /\ wire \in [Ends -> Seq(Frames)]
         /\ \A e \in Ends, s \in Streams :
              /\ table[e][s] \in Entries /\ (~ Live(e, s) => table[e][s] = Absent)
              /\ sema[e][s] \in Int /\ pool[e] \in Nat
              /\ StreamInv(s) /\ Line(e, s) /\ Line(Other(e), s)
<1>1. MuxShape /\ QueueShape
  BY DEF MuxInv
<1>2. ASSUME NEW e \in Ends, NEW s \in Streams
      PROVE  /\ table[e][s] \in Entries /\ (~ Live(e, s) => table[e][s] = Absent)
             /\ sema[e][s] \in Int /\ pool[e] \in Nat
  BY <1>1 DEF MuxShape
<1>3. \A e \in Ends, s \in Streams : StreamInv(s) /\ Line(e, s) /\ Line(Other(e), s)
  BY TheOther DEF MuxInv, StreamInv
<1>4. /\ table \in [Ends -> [Streams -> Entries]]
      /\ sema \in [Ends -> [Streams -> {n \in Int : n >= -1}]]
      /\ rd \in [Ends -> [Streams -> RdStates]] /\ wr \in [Ends -> [Streams -> WrStates]]
      /\ pool \in [Ends -> 0..ConnCredit] /\ closed \in [Ends -> Reasons]
      /\ put \in [Ends -> [Streams -> Nat]] /\ got \in [Ends -> [Streams -> Nat]]
      /\ inbox \in [Ends -> [Streams -> Seq(Events)]]
      /\ opener \in [Streams -> Openers] /\ dialed \in [Streams -> Dials]
  BY <1>1, Zenon DEF MuxShape
<1>5. /\ ctl \in [Ends -> Seq(Frames)] /\ data \in [Ends -> Seq(Frames)]
      /\ wire \in [Ends -> Seq(Frames)]
  BY <1>1, Zenon DEF QueueShape
<1> QED
  BY <1>2, <1>3, <1>4, <1>5, Zenon

LEMMA SocketTakesKeeps ==
  ASSUME MuxInv, NEW e \in Ends, NEW s \in Streams, SocketTakes(e, s)
  PROVE  MuxInv'
<1>1. /\ rd[e][s] = "writing" /\ rd' = [rd EXCEPT ![e][s] = "reading"] /\ Elsewhere
      /\ UNCHANGED <<table, sema, pool, ctl, data, inbox, wr, put, got, spent>>
  BY DEF SocketTakes
<1>2. "reading" \in RdStates
  BY DEF RdStates
<1>3. /\ rd' \in [Ends -> [Streams -> RdStates]] /\ rd'[e][s] = "reading"
      /\ \A d \in Ends, t \in Streams : d # e \/ t # s => rd'[d][t] = rd[d][t]
  BY <1>1, <1>2, ShapeParts, Place
<1>4. ~ Still(e, s)
  BY <1>1 DEF Still
<1>5. ~ table[e][s].opening
  BY <1>4, ShapeParts, Bridging
<1>6. EntryShrinks(e, s)
  BY <1>1, <1>3 DEF EntryShrinks
<1>7. WriterMoves(e, s)
  <2>1. Line(e, s) /\ Free(e, s) \in Nat /\ Holds(e, s) \in Nat /\ Taken(e, s) \in Nat
        /\ table[e][s].outstanding \in Nat
    BY ShapeParts, HoldingsAreNat DEF MuxInv
  <2>2. Free(e, s)' = Free(e, s) /\ Holds(e, s)' = Holds(e, s) /\ Taken(e, s)' = Taken(e, s)
    BY <1>1 DEF Free, Holds, Taken
  <2>3. table[e][s].present => sema[e][s] >= 0
    BY <2>1 DEF Line, Window, Live
  <2> QED
    BY <1>1, <2>1, <2>2, <2>3 DEF WriterMoves
<1>8. /\ table' \in [Ends -> [Streams -> Entries]]
      /\ sema' \in [Ends -> [Streams -> {n \in Int : n >= -1}]]
      /\ wr' \in [Ends -> [Streams -> WrStates]] /\ pool' \in [Ends -> 0..ConnCredit]
      /\ ~ table'[e][s].present => table'[e][s] = Absent
  BY <1>1, ShapeParts, Zenon DEF Live
<1> QED
  BY <1>1, <1>3, <1>4, <1>5, <1>6, <1>7, <1>8, QuietStep, Zenon

LEMMA SocketBreaksKeeps ==
  ASSUME MuxInv, NEW e \in Ends, NEW s \in Streams, SocketBreaks(e, s)
  PROVE  MuxInv'
<1>1. ~ Still(e, s)
  BY DEF SocketBreaks, Still
<1> QED
  BY <1>1, FailKeeps DEF SocketBreaks

LEMMA ReadErrorKeeps ==
  ASSUME MuxInv, NEW e \in Ends, NEW s \in Streams, ReadError(e, s)
  PROVE  MuxInv'
<1>1. ~ Still(e, s)
  BY DEF ReadError, Still
<1> QED
  BY <1>1, FailKeeps DEF ReadError

LEMMA EntryAs ==
  ASSUME MuxInv, NEW e \in Ends, NEW s \in Streams, UNCHANGED table
  PROVE  /\ table' \in [Ends -> [Streams -> Entries]]
         /\ ~ table'[e][s].present => table'[e][s] = Absent
         /\ ~ Still(e, s) => ~ table'[e][s].opening
         /\ rd' = rd => EntryShrinks(e, s)
<1>1. ~ Still(e, s) => ~ table[e][s].opening
  BY ShapeParts, Bridging
<1> QED
  BY <1>1, ShapeParts, Zenon DEF EntryShrinks, Live

LEMMA SocketSaysKeeps ==
  ASSUME MuxInv, NEW e \in Ends, NEW s \in Streams, SocketSays(e, s)
  PROVE  MuxInv'
<1>1. ~ Still(e, s)
  BY DEF SocketSays, Still
<1>2. CASE ~ Live(e, s)
  BY <1>1, <1>2, FailKeeps DEF SocketSays
<1>3. CASE Live(e, s)
  <2>1. /\ wr[e][s] = "idle" /\ wr' = [wr EXCEPT ![e][s] = "stream"] /\ Elsewhere
        /\ UNCHANGED <<table, sema, pool, ctl, data, inbox, rd, put, got>>
        /\ put[e][s] < Chunks[e]
    BY <1>3 DEF SocketSays
  <2>2. "stream" \in WrStates
    BY DEF WrStates
  <2>3. /\ wr' \in [Ends -> [Streams -> WrStates]] /\ wr'[e][s] = "stream"
        /\ \A d \in Ends, t \in Streams : d # e \/ t # s => wr'[d][t] = wr[d][t]
    BY <2>1, <2>2, ShapeParts, Place
  <2>4. WriterMoves(e, s)
    <3>1. Line(e, s) /\ Free(e, s) \in Nat /\ table[e][s].outstanding \in Nat
      BY ShapeParts, HoldingsAreNat DEF MuxInv
    <3>2. /\ Free(e, s)' = Free(e, s) /\ Holds(e, s)' = 0 /\ Holds(e, s) = 0
          /\ Taken(e, s)' = 0 /\ Taken(e, s) = 0
      BY <2>1, <2>3 DEF Free, Holds, Taken
    <3>3. sema[e][s] >= 0
      BY <1>3, <3>1 DEF Line, Window
    <3> QED
      BY <1>3, <2>1, <2>3, <3>1, <3>2, <3>3 DEF WriterMoves, Live
  <2>5. /\ sema' \in [Ends -> [Streams -> {n \in Int : n >= -1}]]
        /\ rd' \in [Ends -> [Streams -> RdStates]] /\ pool' \in [Ends -> 0..ConnCredit]
        /\ pool'[e] + table'[e][s].outstanding = pool[e] + table[e][s].outstanding
    BY <2>1, ShapeParts, Zenon
  <2>6. /\ table' \in [Ends -> [Streams -> Entries]]
        /\ ~ table'[e][s].present => table'[e][s] = Absent
        /\ ~ table'[e][s].opening /\ EntryShrinks(e, s)
    BY <1>1, <2>1, EntryAs
  <2> QED
    BY <1>1, <2>1, <2>3, <2>4, <2>5, <2>6, QuietStep, Zenon
<1> QED
  BY <1>2, <1>3

LEMMA TakeStreamCreditKeeps ==
  ASSUME MuxInv, NEW e \in Ends, NEW s \in Streams, TakeStreamCredit(e, s)
  PROVE  MuxInv'
<1>1. ~ Still(e, s)
  BY DEF TakeStreamCredit, Still
<1>2. CASE Fail(e, s) /\ UNCHANGED sema
  BY <1>1, <1>2, FailKeeps DEF TakeStreamCredit
<1>3. CASE ~ (Fail(e, s) /\ UNCHANGED sema)
  <2>1. /\ wr[e][s] = "stream" /\ wr' = [wr EXCEPT ![e][s] = "conn"] /\ Elsewhere
        /\ sema[e][s] > 0 /\ sema' = [sema EXCEPT ![e][s] = sema[e][s] - 1]
        /\ UNCHANGED <<table, pool, ctl, data, inbox, rd, put, got>>
    BY <1>3 DEF TakeStreamCredit
  <2>2. "conn" \in WrStates
    BY DEF WrStates
  <2>3. /\ wr' \in [Ends -> [Streams -> WrStates]] /\ wr'[e][s] = "conn"
        /\ \A d \in Ends, t \in Streams : d # e \/ t # s => wr'[d][t] = wr[d][t]
    BY <2>1, <2>2, ShapeParts, Place
  <2>4. sema[e][s] \in Int /\ sema[e][s] - 1 \in {n \in Int : n >= -1}
    BY <2>1, ShapeParts
  <2>5. /\ sema' \in [Ends -> [Streams -> {n \in Int : n >= -1}]] /\ sema'[e][s] = sema[e][s] - 1
        /\ \A d \in Ends, t \in Streams : d # e \/ t # s => sema'[d][t] = sema[d][t]
    BY <2>1, <2>4, ShapeParts, Place
  <2>6. WriterMoves(e, s)
    <3>1. table[e][s].outstanding \in Nat
      BY HoldingsAreNat DEF MuxInv
    <3>2. Free(e, s)' = sema[e][s] - 1 /\ Free(e, s) = sema[e][s]
      BY <2>1, <2>4, <2>5 DEF Free
    <3>3. /\ Holds(e, s)' = 1 /\ Holds(e, s) = 0 /\ Taken(e, s)' = 0 /\ Taken(e, s) = 0
      BY <2>1, <2>3 DEF Holds, Taken
    <3> QED
      BY <2>1, <2>3, <2>4, <2>5, <3>1, <3>2, <3>3 DEF WriterMoves
  <2>7. /\ rd' \in [Ends -> [Streams -> RdStates]] /\ pool' \in [Ends -> 0..ConnCredit]
        /\ pool'[e] + table'[e][s].outstanding = pool[e] + table[e][s].outstanding
    BY <2>1, ShapeParts, Zenon
  <2>8. /\ table' \in [Ends -> [Streams -> Entries]]
        /\ ~ table'[e][s].present => table'[e][s] = Absent
        /\ ~ table'[e][s].opening /\ EntryShrinks(e, s)
    BY <1>1, <2>1, EntryAs
  <2> QED
    BY <1>1, <2>1, <2>3, <2>5, <2>6, <2>7, <2>8, QuietStep, Zenon
<1> QED
  BY <1>2, <1>3

LEMMA TakeConnCreditKeeps ==
  ASSUME MuxInv, NEW e \in Ends, NEW s \in Streams, TakeConnCredit(e, s)
  PROVE  MuxInv'
<1>1. ~ Still(e, s)
  BY DEF TakeConnCredit, Still
<1>2. CASE Fail(e, s)
  BY <1>1, <1>2, FailKeeps DEF TakeConnCredit
<1>3. CASE ~ Fail(e, s)
  <2> DEFINE n == table[e][s].outstanding + 1
             r == [table[e][s] EXCEPT !.outstanding = n]
  <2>1. /\ wr[e][s] = "conn" /\ wr' = [wr EXCEPT ![e][s] = "data"] /\ Elsewhere
        /\ closed[e] = "open" /\ Live(e, s) /\ pool[e] > 0
        /\ pool' = [pool EXCEPT ![e] = @ - 1]
        /\ table' = [table EXCEPT ![e][s].outstanding = n]
        /\ UNCHANGED <<sema, ctl, data, inbox, rd, put, got>>
    BY <1>3 DEF TakeConnCredit
  <2>2. "data" \in WrStates
    BY DEF WrStates
  <2>3. /\ wr' \in [Ends -> [Streams -> WrStates]] /\ wr'[e][s] = "data"
        /\ \A d \in Ends, t \in Streams : d # e \/ t # s => wr'[d][t] = wr[d][t]
    BY <2>1, <2>2, ShapeParts, Place
  <2>4. n \in Nat /\ table[e][s] \in Entries /\ table[e][s].outstanding \in Nat
    <3>1. table[e][s].outstanding \in Nat
      BY HoldingsAreNat DEF MuxInv
    <3> QED
      BY <3>1, ShapeParts
  <2>5. table' = [table EXCEPT ![e][s] = r]
    BY <2>1, <2>4, ShapeParts, PlaceField
  <2>6. /\ r \in Entries /\ r.outstanding = n /\ r.unread = table[e][s].unread
        /\ r.rfin = table[e][s].rfin /\ r.opening = table[e][s].opening
        /\ r.present = table[e][s].present
    BY <2>4, EntryChanges
  <2> HIDE DEF r
  <2>7. /\ table' \in [Ends -> [Streams -> Entries]] /\ table'[e][s] = r
        /\ \A d \in Ends, t \in Streams : d # e \/ t # s => table'[d][t] = table[d][t]
    BY <2>5, <2>6, ShapeParts, Place
  <2>8. /\ pool' \in [Ends -> 0..ConnCredit] /\ pool'[e] = pool[e] - 1 /\ pool[e] \in Nat
        /\ \A d \in Ends : d # e => pool'[d] = pool[d]
    <3>1. pool \in [Ends -> 0..ConnCredit]
      BY ShapeParts
    <3>2. pool[e] \in 0..ConnCredit
      BY <3>1
    <3>3. pool[e] - 1 \in 0..ConnCredit
      BY <2>1, <3>2, MuxAssumption
    <3> QED
      BY <2>1, <3>1, <3>2, <3>3
  <2>9. WriterMoves(e, s)
    <3>1. Line(e, s) /\ Free(e, s) \in Nat
      BY ShapeParts, HoldingsAreNat DEF MuxInv
    <3>2. Free(e, s)' = Free(e, s)
      BY <2>1 DEF Free
    <3>3. /\ Holds(e, s)' = 1 /\ Holds(e, s) = 1 /\ Taken(e, s)' = 1 /\ Taken(e, s) = 0
      BY <2>1, <2>3 DEF Holds, Taken
    <3>4. sema[e][s] >= 0
      BY <2>1, <3>1 DEF Line, Window
    <3> QED
      BY <2>1, <2>3, <2>4, <2>6, <2>7, <3>1, <3>2, <3>3, <3>4 DEF WriterMoves, Live
  <2>10. EntryShrinks(e, s)
    BY <2>1, <2>6, <2>7 DEF EntryShrinks
  <2>11. ~ table[e][s].opening
    BY <1>1, ShapeParts, Bridging
  <2>12. /\ sema' \in [Ends -> [Streams -> {x \in Int : x >= -1}]]
         /\ rd' \in [Ends -> [Streams -> RdStates]]
         /\ pool'[e] + table'[e][s].outstanding = pool[e] + table[e][s].outstanding
         /\ ~ table'[e][s].opening /\ (~ table'[e][s].present => table'[e][s] = Absent)
    <3>1. pool'[e] + table'[e][s].outstanding = pool[e] - 1 + n
      BY <2>6, <2>7, <2>8
    <3>2. /\ sema' \in [Ends -> [Streams -> {x \in Int : x >= -1}]]
          /\ rd' \in [Ends -> [Streams -> RdStates]]
      BY <2>1, ShapeParts, Zenon
    <3>3. ~ table'[e][s].opening /\ table'[e][s].present
      BY <2>1, <2>6, <2>7, <2>11 DEF Live
    <3>4. pool[e] - 1 + n = pool[e] + table[e][s].outstanding
      BY <2>4, <2>8
    <3>5. ~ table'[e][s].present => table'[e][s] = Absent
      BY <3>3
    <3> QED
      BY <3>1, <3>2, <3>3, <3>4, <3>5
  <2> QED
    BY <1>1, <2>1, <2>3, <2>7, <2>8, <2>9, <2>10, <2>12, QuietStep, Zenon
<1> QED
  BY <1>2, <1>3

LEMMA FinishKeeps ==
  ASSUME MuxInv, NEW e \in Ends, NEW s \in Streams, Finish(e, s)
  PROVE  MuxInv'
<1>1. ~ Still(e, s)
  BY DEF Finish, Still
<1>2. /\ wr[e][s] = "idle" /\ wr' = [wr EXCEPT ![e][s] = "fin"] /\ Elsewhere
      /\ UNCHANGED <<sema, ctl, data, inbox, rd, put, got>>
  BY DEF Finish
<1>3. "fin" \in WrStates
  BY DEF WrStates
<1>4. /\ wr' \in [Ends -> [Streams -> WrStates]] /\ wr'[e][s] = "fin"
      /\ \A d \in Ends, t \in Streams : d # e \/ t # s => wr'[d][t] = wr[d][t]
  BY <1>2, <1>3, ShapeParts, Place
<1>5. ~ table[e][s].opening
  BY <1>1, ShapeParts, Bridging
<1>6. ASSUME table'[e][s].present =>
               /\ table[e][s].present /\ table'[e][s].outstanding = table[e][s].outstanding
      PROVE  WriterMoves(e, s)
  <2>1. Line(e, s) /\ Free(e, s) \in Nat /\ table[e][s].outstanding \in Nat
    BY ShapeParts, HoldingsAreNat DEF MuxInv
  <2>2. /\ Free(e, s)' = Free(e, s) /\ Holds(e, s)' = 0 /\ Holds(e, s) = 0
        /\ Taken(e, s)' = 0 /\ Taken(e, s) = 0
    BY <1>2, <1>4 DEF Free, Holds, Taken
  <2>3. table[e][s].present => sema[e][s] >= 0
    BY <2>1 DEF Line, Window, Live
  <2> QED
    BY <1>2, <1>4, <1>6, <2>1, <2>2, <2>3 DEF WriterMoves
<1>7. /\ sema' \in [Ends -> [Streams -> {n \in Int : n >= -1}]]
      /\ rd' \in [Ends -> [Streams -> RdStates]]
  BY <1>2, ShapeParts, Zenon
<1>8. CASE Live(e, s) /\ table[e][s].rfin
  <2>1. /\ table' = [table EXCEPT ![e][s] = Absent]
        /\ pool' = [pool EXCEPT ![e] = IF closed[e] = "open" THEN @ + table[e][s].outstanding ELSE @]
    BY <1>8 DEF Finish, Removed, Refund
  <2>2. /\ table' \in [Ends -> [Streams -> Entries]] /\ table'[e][s] = Absent
        /\ \A d \in Ends, t \in Streams : d # e \/ t # s => table'[d][t] = table[d][t]
    BY <2>1, FreshEntry, ShapeParts, Place
  <2>3. closed[e] = "open" => pool[e] + table[e][s].outstanding \in 0..ConnCredit
    BY RefundFits DEF MuxInv
  <2>4. /\ pool' \in [Ends -> 0..ConnCredit] /\ \A d \in Ends : d # e => pool'[d] = pool[d]
        /\ closed[e] = "open" => pool'[e] = pool[e] + table[e][s].outstanding
    BY <2>1, <2>3, ShapeParts, Zenon
  <2>5. /\ closed[e] = "open" => pool'[e] + table'[e][s].outstanding = pool[e] + table[e][s].outstanding
        /\ ~ table'[e][s].opening
    BY <2>2, <2>3, <2>4, FreshEntry
  <2>6. WriterMoves(e, s)
    BY <1>6, <2>2, FreshEntry
  <2>7. EntryShrinks(e, s)
    BY <1>2, <2>2, FreshEntry DEF EntryShrinks
  <2> QED
    BY <1>1, <1>2, <1>4, <1>7, <2>2, <2>4, <2>5, <2>6, <2>7, QuietStep, Zenon
<1>9. CASE Live(e, s) /\ ~ table[e][s].rfin
  <2> DEFINE r == [table[e][s] EXCEPT !.lfin = TRUE]
  <2>1. table' = [table EXCEPT ![e][s].lfin = TRUE] /\ pool' = pool
    BY <1>9 DEF Finish
  <2>2. table' = [table EXCEPT ![e][s] = r]
    BY <2>1, ShapeParts, PlaceField
  <2>3. /\ r \in Entries /\ r.outstanding = table[e][s].outstanding /\ r.unread = table[e][s].unread
        /\ r.rfin = table[e][s].rfin /\ r.opening = table[e][s].opening
        /\ r.present = table[e][s].present
    BY ShapeParts, EntryChanges, Zenon
  <2> HIDE DEF r
  <2>4. /\ table' \in [Ends -> [Streams -> Entries]] /\ table'[e][s] = r
        /\ \A d \in Ends, t \in Streams : d # e \/ t # s => table'[d][t] = table[d][t]
    BY <2>2, <2>3, ShapeParts, Place
  <2>5. WriterMoves(e, s)
    BY <1>6, <2>3, <2>4
  <2>6. EntryShrinks(e, s)
    BY <1>2, <2>3, <2>4 DEF EntryShrinks
  <2>7. /\ pool' \in [Ends -> 0..ConnCredit] /\ \A d \in Ends : d # e => pool'[d] = pool[d]
        /\ closed[e] = "open" =>
             pool'[e] + table'[e][s].outstanding = pool[e] + table[e][s].outstanding
        /\ ~ table'[e][s].opening /\ (~ table'[e][s].present => table'[e][s] = Absent)
    BY <1>5, <1>9, <2>1, <2>3, <2>4, ShapeParts, Zenon DEF Live
  <2> QED
    BY <1>1, <1>2, <1>4, <1>7, <2>4, <2>5, <2>6, <2>7, QuietStep, Zenon
<1>10. CASE ~ Live(e, s)
  <2>1. table' = table /\ pool' = pool
    BY <1>10 DEF Finish
  <2>2. /\ table' \in [Ends -> [Streams -> Entries]]
        /\ ~ table'[e][s].present => table'[e][s] = Absent
        /\ ~ table'[e][s].opening /\ EntryShrinks(e, s)
    BY <1>1, <1>2, <2>1, EntryAs
  <2>3. WriterMoves(e, s)
    BY <1>6, <1>10, <2>1 DEF Live
  <2>4. /\ pool' \in [Ends -> 0..ConnCredit]
        /\ pool'[e] + table'[e][s].outstanding = pool[e] + table[e][s].outstanding
    BY <2>1, ShapeParts
  <2> QED
    BY <1>1, <1>2, <1>4, <1>7, <2>1, <2>2, <2>3, <2>4, QuietStep, Zenon
<1> QED
  BY <1>8, <1>9, <1>10

-----------------------------------------------------------------------------
(* A chunk or the end of a stream is handed to the writer task. *)

LEMMA NotIn ==
  ASSUME NEW q, NEW g, ~ In(q, g)
  PROVE  \A f : Precedes(q, f, g)
BY DEF In, Precedes

LEMMA ReadBehind ==
  ASSUME MuxShape, NEW e \in Ends, NEW s \in Streams, NEW o \in Ends, o = Other(e), Inbox(e, s), Live(o, s)
  PROVE  /\ Read(o, s) <= put[e][s] /\ Read(o, s) \in Nat
         /\ Unread(o, s) \in Nat /\ Len(inbox[o][s]) \in Nat
<1>1. /\ table[o][s] \in Entries /\ got[o][s] \in Nat /\ put[e][s] \in Nat
      /\ inbox[o][s] \in Seq(Events)
  BY DEF MuxShape
<1>2. table[o][s].unread \in Nat /\ Len(inbox[o][s]) \in Nat
  BY <1>1, EntryFields
<1>3. /\ got[o][s] <= put[e][s]
      /\ \A i \in 1..Len(inbox[o][s]) : inbox[o][s][i].kind = "Data" => got[o][s] + i <= put[e][s]
      /\ Len(inbox[o][s]) = table[o][s].unread + (IF Ending(o, s) THEN 1 ELSE 0)
      /\ \A i \in 1..table[o][s].unread : inbox[o][s][i].kind = "Data"
  BY DEF Inbox, Unread
<1>4. table[o][s].unread <= Len(inbox[o][s])
  <2>1. CASE Ending(o, s)
    BY <1>2, <1>3, <2>1
  <2>2. CASE ~ Ending(o, s)
    BY <1>2, <1>3, <2>2
  <2> QED
    BY <2>1, <2>2
<1>5. CASE table[o][s].unread = 0
  BY <1>1, <1>2, <1>3, <1>5 DEF Read, Unread
<1>6. CASE table[o][s].unread # 0
  <2>1. table[o][s].unread \in 1..table[o][s].unread /\ table[o][s].unread \in 1..Len(inbox[o][s])
    BY <1>2, <1>4, <1>6
  <2>2. got[o][s] + table[o][s].unread <= put[e][s]
    BY <1>3, <2>1
  <2> QED
    BY <1>1, <1>2, <2>2 DEF Read, Unread
<1> QED
  BY <1>5, <1>6

LEMMA OrderGrows ==
  ASSUME MuxShape, MuxShape',
         NEW d \in Ends, NEW s \in Streams, NEW o \in Ends, o = Other(d), Order(d, s),
         data[d] \in Seq(Frames), NEW h \in Items(s), data'[d] = Append(data[d], h),
         closed' = closed, gap' = gap, wire' = wire, closed[d] = "open",
         table'[o][s] = table[o][s], got'[o][s] = got[o][s],
         \/ h = Frame("Fin", s) /\ put'[d][s] = put[d][s]
         \/ h = DataFrame(s, put[d][s] + 1) /\ put'[d][s] = put[d][s] + 1,
         Live(o, s) => Read(o, s) <= put[d][s],
         ~ InFlight(d, Frame("Fin", s)), ~ table[o][s].rfin
  PROVE  Order(d, s)'
<1> SUFFICES ASSUME Live(o, s)', ~ gap'[d]
             PROVE  /\ \A g \in Items(s) : InOrder(d, g)'
                    /\ closed'[d] = "open" =>
                         \A m \in Nat : m > Read(o, s)' /\ m <= put'[d][s]
                                          => InFlight(d, DataFrame(s, m))'
  BY DEF Order
<1>1. Live(o, s) /\ ~ gap[d] /\ Read(o, s)' = Read(o, s) /\ Read(o, s) <= put[d][s]
  BY DEF Live, Read, Unread
<1>2. put[d][s] \in Nat /\ got[o][s] \in Nat /\ Read(o, s) \in Int
  <2>1. put[d][s] \in Nat /\ got[o][s] \in Nat /\ table[o][s] \in Entries
    BY DEF MuxShape
  <2> QED
    BY <2>1, EntryFields DEF Read, Unread
<1>3. \A g \in Items(s) : InOrder(d, g)
  BY <1>1 DEF Order
<1>4. \A m \in Nat : m > Read(o, s) /\ m <= put[d][s] => InFlight(d, DataFrame(s, m))
  BY <1>1 DEF Order
<1>5. /\ h \in Frames /\ h.s = s
      /\ h.kind = "Data" => h.n = put[d][s] + 1 /\ put'[d][s] = put[d][s] + 1
      /\ h.kind # "Data" => h = Frame("Fin", s) /\ put'[d][s] = put[d][s]
      /\ h.kind = "Data" \/ h = Frame("Fin", s)
  BY ItemIs, FrameFields
<1>6. ~ InFlight(d, h)
  <2>1. CASE h.kind = "Data"
    <3>1. InFlight(d, h) => h.n <= put[d][s]
      BY <1>3, <1>5, <2>1 DEF InOrder
    <3> QED
      BY <1>2, <1>5, <2>1, <3>1
  <2>2. CASE h.kind # "Data"
    BY <1>5, <2>2
  <2> QED
    BY <2>1, <2>2
<1>7. ~ In(wire[d], h) /\ ~ In(data[d], h)
  BY <1>6 DEF InFlight
<1>8. /\ \A f : In(data'[d], f) <=> In(data[d], f) \/ f = h
      /\ \A f : Once(data[d], f) /\ (f = h => ~ In(data[d], f)) => Once(data'[d], f)
      /\ \A f, g : Precedes(data[d], f, g) /\ (g = h => In(data[d], f)) => Precedes(data'[d], f, g)
  <2> HIDE DEF InFlight
  <2> QED
    BY <1>5, AppendQueue
<1>9. ASSUME NEW g \in Items(s)
      PROVE  InOrder(d, g)'
  <2>1. /\ g.s = s /\ (g.kind = "Data" => g.n \in Nat)
        /\ g.kind = "Data" \/ g = Frame("Fin", s)
    BY ItemIs DEF DataKinds
  <2>2. InOrder(d, g)
    BY <1>3
  <2>3. InFlight(d, g)' => InFlight(d, g) \/ g = h
    BY <1>8 DEF InFlight
  <2>4. ~ table'[o][s].rfin
    OBVIOUS
  <2>5. InFlight(d, g)' /\ g.kind = "Data" => g.n > Read(o, s)' /\ g.n <= put'[d][s]
    <3>1. InFlight(d, g) /\ g.kind = "Data" => g.n > Read(o, s) /\ g.n <= put[d][s]
      BY <2>1, <2>2 DEF InOrder
    <3>2. put'[d][s] \in Nat /\ put'[d][s] >= put[d][s]
      BY <1>2, <1>5
    <3> QED
      BY <1>1, <1>2, <1>5, <2>1, <2>3, <3>1, <3>2
  <2>6. Once(wire'[d], g) /\ Once(data'[d], g) /\ ~ (In(wire'[d], g) /\ In(data'[d], g))
    BY <2>2, <1>7, <1>8 DEF InOrder
  <2>7. ASSUME NEW m \in Earlier(d, g)'
        PROVE  /\ Precedes(wire'[d], DataFrame(s, m), g)
               /\ \/ In(wire'[d], DataFrame(s, m)) \/ ~ In(data'[d], g)
                  \/ Precedes(data'[d], DataFrame(s, m), g)
    <3>1. /\ m \in Nat /\ m > Read(o, s) /\ m <= put'[d][s]
          /\ g.kind = "Data" => m < g.n
      BY <1>1, <2>1 DEF Earlier
    <3>2. CASE g = h
      <4>1. m <= put[d][s]
        BY <1>2, <1>5, <3>1, <3>2
      <4>2. In(wire[d], DataFrame(s, m)) \/ In(data[d], DataFrame(s, m))
        BY <1>4, <3>1, <4>1 DEF InFlight
      <4>3. /\ \A f : Precedes(wire[d], f, g)
            /\ \A f : Precedes(data[d], f, g)
        BY <1>7, <3>2, NotIn
      <4> QED
        BY <1>8, <4>2, <4>3
    <3>3. CASE g # h /\ InFlight(d, g)
      <4>1. g.kind = "Data" /\ g.n <= put[d][s]
        BY <2>1, <2>2, <3>3 DEF InOrder
      <4>2. m <= put[d][s]
        BY <1>2, <2>1, <3>1, <4>1
      <4>3. m \in Earlier(d, g)
        BY <2>1, <3>1, <4>2 DEF Earlier
      <4>4. /\ Precedes(wire[d], DataFrame(s, m), g)
            /\ \/ In(wire[d], DataFrame(s, m)) \/ ~ In(data[d], g)
               \/ Precedes(data[d], DataFrame(s, m), g)
        BY <2>1, <2>2, <4>3 DEF InOrder
      <4> QED
        BY <1>8, <3>3, <4>4
    <3>4. CASE g # h /\ ~ InFlight(d, g)
      <4>1. ~ In(wire[d], g) /\ ~ In(data'[d], g)
        BY <1>8, <3>4 DEF InFlight
      <4> QED
        BY <4>1, NotIn
    <3> QED
      BY <3>2, <3>3, <3>4
  <2> QED
    BY <2>1, <2>4, <2>5, <2>6, <2>7 DEF InOrder
<1>10. ASSUME NEW m \in Nat, m > Read(o, s), m <= put'[d][s]
       PROVE  InFlight(d, DataFrame(s, m))'
  <2>1. CASE m <= put[d][s]
    BY <1>4, <1>8, <1>10, <2>1 DEF InFlight
  <2>2. CASE m > put[d][s]
    <3>1. h = DataFrame(s, put[d][s] + 1) /\ put'[d][s] = put[d][s] + 1
      BY <1>2, <1>10, <2>2
    <3>2. m = put[d][s] + 1
      <4>1. put[d][s] \in Nat /\ m \in Nat /\ m <= put[d][s] + 1 /\ m > put[d][s]
        BY <1>2, <1>10, <2>2, <3>1, Zenon
      <4> QED
        BY <4>1
    <3>3. h = DataFrame(s, m)
      BY <3>1, <3>2
    <3> QED
      BY <1>8, <3>3 DEF InFlight
  <2> QED
    BY <1>2, <2>1, <2>2
<1> QED
  BY <1>1, <1>9, <1>10

\* While its writer has more to say, no end of the stream is on its way.
LEMMA NoEndYet ==
  ASSUME MuxInv, NEW e \in Ends, NEW s \in Streams, NEW o \in Ends, o = Other(e),
         wr[e][s] \notin {"ended", "over"}
  PROVE  /\ ~ InFlight(e, Frame("Fin", s)) /\ ~ table[o][s].rfin /\ rd[o][s] # "ended"
         /\ \A i \in 1..Len(inbox[o][s]) : inbox[o][s][i].kind # "Fin"
<1>1. Sent(e, s)
  BY ShapeParts DEF Line
<1> QED
  BY <1>1 DEF Sent

LEMMA PutDataKeeps ==
  ASSUME MuxInv, NEW e \in Ends, NEW s \in Streams, PutData(e, s)
  PROVE  MuxInv'
<1>1. ~ Still(e, s)
  BY DEF PutData, Still
<1>2. CASE Fail(e, s) /\ UNCHANGED <<data, put>>
  BY <1>1, <1>2, FailKeeps DEF PutData
<1>3. CASE ~ (Fail(e, s) /\ UNCHANGED <<data, put>>)
  <2> DEFINE h == DataFrame(s, put[e][s] + 1)
             o == Other(e)
  <2>1. /\ wr[e][s] = "data" /\ wr' = [wr EXCEPT ![e][s] = "idle"] /\ Elsewhere
        /\ closed[e] = "open" /\ Len(data[e]) < DataCap
        /\ data' = [data EXCEPT ![e] = Append(@, h)]
        /\ put' = [put EXCEPT ![e][s] = put[e][s] + 1]
        /\ UNCHANGED <<table, sema, pool, ctl, inbox, rd, got>>
    BY <1>3 DEF PutData
  <2>2. "idle" \in WrStates /\ o \in Ends /\ o # e
    BY TheOther DEF WrStates
  <2>3. /\ wr' \in [Ends -> [Streams -> WrStates]] /\ wr'[e][s] = "idle"
        /\ \A d \in Ends, t \in Streams : d # e \/ t # s => wr'[d][t] = wr[d][t]
    <3>1. wr' = [wr EXCEPT ![e][s] = "idle"] /\ wr \in [Ends -> [Streams -> WrStates]]
      BY <2>1, ShapeParts
    <3> QED
      BY <2>2, <3>1, Place
  <2>4. put[e][s] \in Nat /\ put[e][s] + 1 \in Nat /\ got[o][s] \in Nat
    <3>1. put \in [Ends -> [Streams -> Nat]] /\ got \in [Ends -> [Streams -> Nat]]
      BY ShapeParts, Zenon
    <3> QED
      BY <2>2, <3>1
  <2>5. /\ put' \in [Ends -> [Streams -> Nat]] /\ put'[e][s] = put[e][s] + 1
        /\ \A d \in Ends, t \in Streams : d # e \/ t # s => put'[d][t] = put[d][t]
    <3>1. put' = [put EXCEPT ![e][s] = put[e][s] + 1] /\ put \in [Ends -> [Streams -> Nat]]
      BY <2>1, ShapeParts
    <3> QED
      BY <2>4, <3>1, Place
  <2>6. h \in Frames /\ h.s = s /\ h.kind = "Data" /\ h \in Items(s)
    BY <2>4, FramesAre, FrameFields, ItemsAre
  <2> HIDE DEF h
  <2>7. data'[e] = Append(data[e], h) /\ \A d \in Ends : d # e => data'[d] = data[d]
    BY <2>1, ShapeParts
  <2>8. UNCHANGED <<closed, wire, gap, opener, dialed>>
    BY <2>1 DEF Elsewhere
  <2>9. FarKept(e, s) /\ OthersKept(s)
    <3>1. \A d \in Ends, t \in Streams : d # e \/ t # s =>
             /\ table'[d][t] = table[d][t] /\ sema'[d][t] = sema[d][t] /\ inbox'[d][t] = inbox[d][t]
             /\ rd'[d][t] = rd[d][t] /\ wr'[d][t] = wr[d][t]
             /\ put'[d][t] = put[d][t] /\ got'[d][t] = got[d][t]
      BY <2>1, <2>3, <2>5
    <3>2. \A d \in Ends : d # e => ctl'[d] = ctl[d] /\ data'[d] = data[d]
      BY <2>1, <2>7
    <3> QED
      BY <2>8, <3>1, <3>2, FarIs
  <2>10. Grows(ctl, ctl', e, s, BridgeSays) /\ Grows(data, data', e, s, DataKinds)
    BY <2>1, <2>6, Zenon DEF Grows, DataKinds
  <2>11. /\ table' \in [Ends -> [Streams -> Entries]]
         /\ ~ table'[e][s].present => table'[e][s] = Absent
         /\ ~ table'[e][s].opening /\ EntryShrinks(e, s)
    BY <1>1, <2>1, EntryAs
  <2>12. MuxShape /\ QueueShape /\ Line(e, s) /\ Line(o, s) /\ data[e] \in Seq(Frames)
    BY ShapeParts DEF MuxInv
  <2>13. MuxShape'
    <3>1. /\ sema' \in [Ends -> [Streams -> {n \in Int : n >= -1}]]
          /\ inbox' \in [Ends -> [Streams -> Seq(Events)]] /\ pool' \in [Ends -> 0..ConnCredit]
          /\ opener' \in [Streams -> Openers] /\ dialed' \in [Streams -> Dials]
          /\ rd' \in [Ends -> [Streams -> RdStates]] /\ got' \in [Ends -> [Streams -> Nat]]
          /\ \A d \in Ends, t \in Streams : d # e \/ t # s => table'[d][t] = table[d][t]
      BY <2>1, <2>8, ShapeParts, Zenon
    <3> QED
      BY <2>3, <2>5, <2>8, <2>11, <2>12, <3>1, ShapeMoves, Zenon
  <2>14. ASSUME QueueShape'
         PROVE  Line(e, s)' /\ Line(o, s)'
    <3>1. Updates(e, s)' = Updates(e, s) /\ Updates(o, s)' = Updates(o, s)
      BY <2>1, <2>8 DEF Updates
    <3>2. Line(o, s)'
      <4>1. got'[e][s] = got[e][s] /\ inbox'[e][s] = inbox[e][s]
        BY <2>1
      <4> QED
        BY <2>9, <2>11, <2>12, <2>13, <2>14, <3>1, <4>1, HearsOn
    <3>3. Inbox(e, s) /\ Sent(e, s) /\ Window(e, s) /\ Order(e, s)
      BY <2>12 DEF Line
    <3>4. put[e][s] < Chunks[e] /\ Chunks[e] \in Nat
      BY <2>1, <3>3, MuxAssumption DEF Sent
    <3>5. /\ ~ InFlight(e, Frame("Fin", s)) /\ ~ table[o][s].rfin /\ rd[o][s] # "ended"
          /\ \A i \in 1..Len(inbox[o][s]) : inbox[o][s][i].kind # "Fin"
      BY <2>1, <2>2, NoEndYet
    <3>6. Order(e, s)'
      <4>1. Live(o, s) => Read(o, s) <= put[e][s]
        BY <2>2, <2>12, <3>3, ReadBehind
      <4>2. wire' = wire /\ closed' = closed /\ gap' = gap /\ closed[e] = "open"
            /\ table'[o][s] = table[o][s] /\ got'[o][s] = got[o][s]
        BY <2>1, <2>8
      <4>3. h = DataFrame(s, put[e][s] + 1)
        BY DEF h
      <4> HIDE DEF o
      <4>4. o = Other(e)
        BY DEF o
      <4> QED
        BY <2>2, <2>5, <2>6, <2>7, <2>12, <2>13, <3>3, <3>5, <4>1, <4>2, <4>3, <4>4, OrderGrows, Zenon
    <3>7. Inbox(e, s)'
      <4>1. /\ got[o][s] <= put[e][s] /\ put'[e][s] = put[e][s] + 1
            /\ \A i \in 1..Len(inbox[o][s]) : inbox[o][s][i].kind = "Data" =>
                 inbox[o][s][i].n = got[o][s] + i /\ got[o][s] + i <= put[e][s]
        BY <2>5, <3>3 DEF Inbox
      <4>2. \A i \in 1..Len(inbox[o][s]) : inbox[o][s][i].kind = "Data" =>
               inbox[o][s][i].n = got[o][s] + i /\ got[o][s] + i <= put'[e][s]
        BY <2>4, <4>1
      <4>3. got[o][s] <= put'[e][s] /\ put'[e][s] <= Chunks[e]
        BY <2>4, <3>4, <4>1
      <4>4. /\ got' = got /\ inbox' = inbox /\ table' = table /\ rd' = rd
        BY <2>1
      <4> QED
        BY <3>3, <3>5, <4>2, <4>3, <4>4 DEF Inbox, Unread, Ending, Live
    <3>8. Sent(e, s)'
      <4>1. Frame("Fin", s) # h
        BY <2>6, FrameFields
      <4>2. ~ In(data'[e], Frame("Fin", s)) /\ ~ In(wire'[e], Frame("Fin", s))
        BY <2>6, <2>7, <2>8, <2>12, <3>5, <4>1, AppendQueue DEF InFlight
      <4> QED
        BY <2>1, <2>3, <3>5, <4>2 DEF Sent, InFlight
    <3>9. Window(e, s)'
      <4>1. /\ Free(e, s)' = Free(e, s) /\ Holds(e, s)' = 0 /\ Holds(e, s) = 1
            /\ Taken(e, s)' = 0 /\ Taken(e, s) = 1
        BY <2>1, <2>3 DEF Free, Holds, Taken
      <4>2. Free(e, s) \in Nat /\ table[e][s].outstanding \in Nat /\ Updates(o, s) \in Nat
            /\ StreamCredit \in Nat
        BY <2>2, <2>12, HoldingsAreNat, UpdatesAreNat, MuxAssumption
      <4>3. /\ Free(e, s) + Holds(e, s) + (put[e][s] - got[o][s] + Updates(o, s)) <= StreamCredit
            /\ Live(e, s) => /\ sema[e][s] >= 0
                 /\ Taken(e, s) + (put[e][s] - got[o][s] + Updates(o, s)) <= table[e][s].outstanding
        BY <3>3 DEF Window
      <4>4. /\ Free(e, s)' + Holds(e, s)' + (put'[e][s] - got[o][s] + Updates(o, s)) <= StreamCredit
            /\ Live(e, s) => /\ sema[e][s] >= 0
                 /\ Taken(e, s)' + (put'[e][s] - got[o][s] + Updates(o, s)) <= table[e][s].outstanding
        BY <2>4, <2>5, <4>1, <4>2, <4>3
      <4>5. got' = got /\ table' = table /\ sema' = sema
        BY <2>1
      <4> QED
        BY <3>1, <4>4, <4>5 DEF Window, Live
    <3> QED
      BY <3>2, <3>6, <3>7, <3>8, <3>9 DEF Line
  <2>15. /\ \A d \in Ends : d # e => pool'[d] = pool[d]
         /\ pool'[e] + table'[e][s].outstanding = pool[e] + table[e][s].outstanding
    BY <2>1
  <2> QED
    BY <1>1, <2>1, <2>8, <2>9, <2>10, <2>11, <2>13, <2>14, <2>15, BridgeStep, Zenon
<1> QED
  BY <1>2, <1>3

LEMMA PutFinFacts ==
  ASSUME MuxInv, NEW e \in Ends, NEW s \in Streams, PutFin(e, s)
  PROVE  /\ table' \in [Ends -> [Streams -> Entries]]
         /\ ~ table'[e][s].present => table'[e][s] = Absent
         /\ rd' \in [Ends -> [Streams -> RdStates]]
         /\ wr' \in [Ends -> [Streams -> WrStates]] /\ wr'[e][s] \in {"ended", "over"}
         /\ \A d \in Ends, t \in Streams : d # e \/ t # s =>
              table'[d][t] = table[d][t] /\ rd'[d][t] = rd[d][t] /\ wr'[d][t] = wr[d][t]
         /\ pool' \in [Ends -> 0..ConnCredit] /\ \A d \in Ends : d # e => pool'[d] = pool[d]
         /\ closed[e] = "open" => pool'[e] + table'[e][s].outstanding = pool[e] + table[e][s].outstanding
         /\ Grows(ctl, ctl', e, s, {"Reset"})
         /\ EntryShrinks(e, s) /\ WriterMoves(e, s) /\ ~ table'[e][s].opening
<1>1. wr[e][s] = "fin" /\ UNCHANGED <<sema, inbox, put, got, spent>> /\ ~ Still(e, s)
  BY DEF PutFin, Still
<1>2. CASE rd[e][s] = "ended"
  <2>1. Fail(e, s)
    BY <1>2 DEF PutFin
  <2>2. EntryShrinks(e, s) /\ WriterMoves(e, s) /\ ~ table'[e][s].opening
    BY <1>1, <2>1, FailMoves
  <2>3. /\ table' \in [Ends -> [Streams -> Entries]] /\ table'[e][s] = Absent
        /\ rd' \in [Ends -> [Streams -> RdStates]] /\ rd'[e][s] = "over"
        /\ wr' \in [Ends -> [Streams -> WrStates]] /\ wr'[e][s] = "over"
        /\ \A d \in Ends, t \in Streams : d # e \/ t # s =>
             table'[d][t] = table[d][t] /\ rd'[d][t] = rd[d][t] /\ wr'[d][t] = wr[d][t]
        /\ pool' \in [Ends -> 0..ConnCredit] /\ \A d \in Ends : d # e => pool'[d] = pool[d]
        /\ closed[e] = "open" => pool'[e] + table'[e][s].outstanding = pool[e] + table[e][s].outstanding
        /\ Grows(ctl, ctl', e, s, {"Reset"})
    BY <2>1, FailFacts
  <2> QED
    BY <2>2, <2>3
<1>3. CASE rd[e][s] # "ended"
  <2>1. wr' = [wr EXCEPT ![e][s] = "ended"] /\ UNCHANGED <<rd, table, pool, ctl>>
    BY <1>3 DEF PutFin
  <2>2. "ended" \in WrStates /\ wr \in [Ends -> [Streams -> WrStates]]
    BY ShapeParts DEF WrStates
  <2>3. /\ wr' \in [Ends -> [Streams -> WrStates]] /\ wr'[e][s] = "ended"
        /\ \A d \in Ends, t \in Streams : d # e \/ t # s => wr'[d][t] = wr[d][t]
    BY <2>1, <2>2, Place
  <2>4. /\ table' \in [Ends -> [Streams -> Entries]]
        /\ ~ table'[e][s].present => table'[e][s] = Absent
        /\ ~ table'[e][s].opening /\ EntryShrinks(e, s)
    BY <1>1, <2>1, EntryAs
  <2>5. WriterMoves(e, s)
    <3>1. Line(e, s) /\ Free(e, s) \in Nat /\ table[e][s].outstanding \in Nat
      BY ShapeParts, HoldingsAreNat DEF MuxInv
    <3>2. /\ Free(e, s)' = Free(e, s) /\ Holds(e, s)' = 0 /\ Holds(e, s) = 0
          /\ Taken(e, s)' = 0 /\ Taken(e, s) = 0
      BY <1>1, <2>1, <2>3 DEF Free, Holds, Taken
    <3>3. table[e][s].present => sema[e][s] >= 0
      BY <3>1 DEF Line, Window, Live
    <3> QED
      BY <1>1, <2>1, <2>3, <3>1, <3>2, <3>3 DEF WriterMoves
  <2>6. /\ rd' \in [Ends -> [Streams -> RdStates]] /\ pool' \in [Ends -> 0..ConnCredit]
        /\ Grows(ctl, ctl', e, s, {"Reset"})
    BY <2>1, ShapeParts, Zenon DEF Grows
  <2> QED
    BY <2>1, <2>3, <2>4, <2>5, <2>6
<1> QED
  BY <1>2, <1>3

LEMMA PutFinKeeps ==
  ASSUME MuxInv, NEW e \in Ends, NEW s \in Streams, PutFin(e, s)
  PROVE  MuxInv'
<1> DEFINE h == Frame("Fin", s)
           o == Other(e)
<1>1. /\ wr[e][s] = "fin" /\ ~ Still(e, s) /\ Elsewhere /\ UNCHANGED <<sema, inbox, put, got>>
      /\ closed[e] # "open" \/ Len(data[e]) < DataCap
      /\ data' = IF closed[e] = "open" THEN [data EXCEPT ![e] = Append(@, h)] ELSE data
  BY DEF PutFin, Still
<1>2. /\ table' \in [Ends -> [Streams -> Entries]]
      /\ ~ table'[e][s].present => table'[e][s] = Absent
      /\ rd' \in [Ends -> [Streams -> RdStates]]
      /\ wr' \in [Ends -> [Streams -> WrStates]] /\ wr'[e][s] \in {"ended", "over"}
      /\ \A d \in Ends, t \in Streams : d # e \/ t # s =>
           table'[d][t] = table[d][t] /\ rd'[d][t] = rd[d][t] /\ wr'[d][t] = wr[d][t]
      /\ pool' \in [Ends -> 0..ConnCredit] /\ \A d \in Ends : d # e => pool'[d] = pool[d]
      /\ closed[e] = "open" => pool'[e] + table'[e][s].outstanding = pool[e] + table[e][s].outstanding
      /\ Grows(ctl, ctl', e, s, {"Reset"})
      /\ EntryShrinks(e, s) /\ WriterMoves(e, s) /\ ~ table'[e][s].opening
  BY PutFinFacts
<1>3. /\ h \in Frames /\ h.s = s /\ h.kind = "Fin" /\ h \in Items(s) /\ o \in Ends /\ o # e
  BY FramesAre, FrameFields, ItemsAre, TheOther DEF Kinds
<1> HIDE DEF h
<1>4. UNCHANGED <<closed, wire, gap, opener, dialed>>
  BY <1>1 DEF Elsewhere
<1>5. MuxShape /\ QueueShape /\ Line(e, s) /\ Line(o, s) /\ data \in [Ends -> Seq(Frames)]
      /\ data[e] \in Seq(Frames)
  BY ShapeParts DEF MuxInv
<1>6. Grows(ctl, ctl', e, s, BridgeSays)
  BY <1>2 DEF Grows, BridgeSays
<1>7. /\ \A d \in Ends : d # e => data'[d] = data[d]
      /\ closed[e] = "open" => data'[e] = Append(data[e], h)
      /\ closed[e] # "open" => data' = data
  BY <1>1, <1>5
<1>8. Grows(data, data', e, s, DataKinds) /\ (data' = data \/ Len(data[e]) < DataCap)
  BY <1>1, <1>3, Zenon DEF Grows, DataKinds
<1>9. FarKept(e, s) /\ OthersKept(s)
  <2>1. \A d \in Ends, t \in Streams : d # e \/ t # s =>
           /\ table'[d][t] = table[d][t] /\ sema'[d][t] = sema[d][t] /\ inbox'[d][t] = inbox[d][t]
           /\ rd'[d][t] = rd[d][t] /\ wr'[d][t] = wr[d][t]
           /\ put'[d][t] = put[d][t] /\ got'[d][t] = got[d][t]
    BY <1>1, <1>2
  <2>2. \A d \in Ends : d # e => ctl'[d] = ctl[d] /\ data'[d] = data[d]
    BY <1>5, <1>6, <1>7, Tells
  <2> QED
    BY <1>4, <2>1, <2>2, FarIs
<1>10. MuxShape'
  <2>1. /\ sema' \in [Ends -> [Streams -> {n \in Int : n >= -1}]]
        /\ inbox' \in [Ends -> [Streams -> Seq(Events)]]
        /\ opener' \in [Streams -> Openers] /\ dialed' \in [Streams -> Dials]
        /\ put' \in [Ends -> [Streams -> Nat]] /\ got' \in [Ends -> [Streams -> Nat]]
    BY <1>1, <1>4, ShapeParts, Zenon
  <2> QED
    BY <1>2, <1>4, <1>5, <2>1, ShapeMoves, Zenon
<1>11. ASSUME QueueShape'
       PROVE  Line(e, s)' /\ Line(o, s)'
  <2>1. Line(o, s)'
    <3>1. Updates(e, s)' = Updates(e, s)
      BY <1>2, <1>4, <1>5, <1>11, UpdatesTold
    <3>2. got'[e][s] = got[e][s] /\ inbox'[e][s] = inbox[e][s]
      BY <1>1
    <3> QED
      BY <1>2, <1>5, <1>9, <1>10, <1>11, <3>1, <3>2, HearsOn
  <2>2. CASE data' = data
    <3>1. put'[e][s] = put[e][s] /\ data'[e] = data[e]
      BY <1>1, <2>2
    <3>2. Line(e, s)'
      BY <1>2, <1>5, <1>9, <1>10, <1>11, <3>1, SpeaksOn
    <3> QED
      BY <2>1, <3>2
  <2>3. CASE data' # data
    <3>1. closed[e] = "open" /\ data'[e] = Append(data[e], h)
      BY <1>7, <2>3
    <3>2. Inbox(e, s) /\ Sent(e, s) /\ Window(e, s) /\ Order(e, s)
      BY <1>5 DEF Line
    <3>3. ~ InFlight(e, h) /\ ~ table[o][s].rfin
      BY <1>1, <1>3, NoEndYet DEF h
    <3>4. put'[e][s] = put[e][s] /\ got' = got /\ inbox' = inbox
          /\ table'[o][s] = table[o][s] /\ rd'[o][s] = rd[o][s]
      BY <1>1, <1>2, <1>3
    <3>5. Live(o, s) => Read(o, s) <= put[e][s]
      BY <1>3, <1>5, <3>2, ReadBehind
    <3>6. Window(e, s)'
      BY <1>2, <1>5, <1>9, <1>10, <1>11, <3>2, <3>4, WriterKeepsWindow
    <3> HIDE DEF o
    <3>7. o = Other(e) /\ h = Frame("Fin", s)
      BY DEF o, h
    <3>8. Order(e, s)'
      <4>1. got'[o][s] = got[o][s]
        BY <3>4
      <4> QED
        BY <1>3, <1>4, <1>5, <1>10, <3>1, <3>2, <3>3, <3>4, <3>5, <3>7, <4>1, OrderGrows
    <3>9. Inbox(e, s)'
      BY <1>3, <1>5, <1>10, <3>2, <3>4, <3>7, InboxKept, Zenon
    <3>10. Sent(e, s)'
      BY <1>2 DEF Sent
    <3>11. Line(e, s)'
      BY <3>6, <3>8, <3>9, <3>10 DEF Line
    <3>12. Line(o, s)'
      BY <2>1 DEF o
    <3> QED
      BY <3>11, <3>12 DEF o
  <2> QED
    BY <2>2, <2>3
<1> QED
  BY <1>1, <1>2, <1>4, <1>6, <1>8, <1>9, <1>10, <1>11, BridgeStep, Zenon

-----------------------------------------------------------------------------
(* The reader takes something from its inbox. *)

LEMMA WriterStill ==
  ASSUME MuxInv, NEW e \in Ends, NEW s \in Streams,
         wr'[e][s] = wr[e][s], sema'[e][s] = sema[e][s],
         table'[e][s].present => /\ table[e][s].present
                                 /\ table'[e][s].outstanding = table[e][s].outstanding
  PROVE  WriterMoves(e, s)
<1>1. Line(e, s) /\ Free(e, s) \in Nat /\ Holds(e, s) \in Nat /\ Taken(e, s) \in Nat
      /\ table[e][s].outstanding \in Nat
  BY ShapeParts, HoldingsAreNat DEF MuxInv
<1>2. Free(e, s)' = Free(e, s) /\ Holds(e, s)' = Holds(e, s) /\ Taken(e, s)' = Taken(e, s)
  BY DEF Free, Holds, Taken
<1>3. table[e][s].present => sema[e][s] >= 0
  BY <1>1 DEF Line, Window, Live
<1> QED
  BY <1>1, <1>2, <1>3 DEF WriterMoves

LEMMA ReadFinFacts ==
  ASSUME MuxInv, NEW e \in Ends, NEW s \in Streams, ReadFin(e, s)
  PROVE  /\ table' \in [Ends -> [Streams -> Entries]]
         /\ ~ table'[e][s].present => table'[e][s] = Absent
         /\ rd' \in [Ends -> [Streams -> RdStates]]
         /\ wr' \in [Ends -> [Streams -> WrStates]]
         /\ \A d \in Ends, t \in Streams : d # e \/ t # s =>
              table'[d][t] = table[d][t] /\ rd'[d][t] = rd[d][t] /\ wr'[d][t] = wr[d][t]
         /\ pool' \in [Ends -> 0..ConnCredit] /\ \A d \in Ends : d # e => pool'[d] = pool[d]
         /\ closed[e] = "open" => pool'[e] + table'[e][s].outstanding = pool[e] + table[e][s].outstanding
         /\ Grows(ctl, ctl', e, s, {"Reset"})
         /\ WriterMoves(e, s) /\ ~ table'[e][s].opening
         /\ \/ rd'[e][s] = "over" /\ ~ table'[e][s].present /\ ~ table'[e][s].rfin
            \/ rd'[e][s] = "ended" /\ table'[e][s] = table[e][s]
<1>1. rd[e][s] = "reading" /\ UNCHANGED <<sema, data, put, got, spent>> /\ Ends2(e, s) /\ ~ Still(e, s)
  BY DEF ReadFin, Still
<1>2. CASE wr[e][s] = "ended"
  <2>1. Fail(e, s)
    BY <1>1, <1>2 DEF Ends2
  <2>2. EntryShrinks(e, s) /\ WriterMoves(e, s) /\ ~ table'[e][s].opening
    BY <1>1, <2>1, FailMoves
  <2>3. /\ table' \in [Ends -> [Streams -> Entries]] /\ table'[e][s] = Absent
        /\ rd' \in [Ends -> [Streams -> RdStates]] /\ rd'[e][s] = "over"
        /\ wr' \in [Ends -> [Streams -> WrStates]] /\ wr'[e][s] = "over"
        /\ \A d \in Ends, t \in Streams : d # e \/ t # s =>
             table'[d][t] = table[d][t] /\ rd'[d][t] = rd[d][t] /\ wr'[d][t] = wr[d][t]
        /\ pool' \in [Ends -> 0..ConnCredit] /\ \A d \in Ends : d # e => pool'[d] = pool[d]
        /\ closed[e] = "open" => pool'[e] + table'[e][s].outstanding = pool[e] + table[e][s].outstanding
        /\ Grows(ctl, ctl', e, s, {"Reset"})
    BY <2>1, FailFacts
  <2>4. ~ table'[e][s].present /\ ~ table'[e][s].rfin
    BY <2>3, FreshEntry
  <2> QED
    BY <2>2, <2>3, <2>4
<1>3. CASE wr[e][s] # "ended"
  <2>1. rd' = [rd EXCEPT ![e][s] = "ended"] /\ UNCHANGED <<wr, table, pool, ctl>>
    BY <1>1, <1>3 DEF Ends2
  <2>2. "ended" \in RdStates /\ rd \in [Ends -> [Streams -> RdStates]]
    BY ShapeParts DEF RdStates
  <2>3. /\ rd' \in [Ends -> [Streams -> RdStates]] /\ rd'[e][s] = "ended"
        /\ \A d \in Ends, t \in Streams : d # e \/ t # s => rd'[d][t] = rd[d][t]
    BY <2>1, <2>2, Place
  <2>4. /\ table' \in [Ends -> [Streams -> Entries]]
        /\ ~ table'[e][s].present => table'[e][s] = Absent
        /\ ~ table'[e][s].opening
    BY <1>1, <2>1, EntryAs
  <2>5. WriterMoves(e, s)
    BY <1>1, <2>1, WriterStill
  <2>6. /\ wr' \in [Ends -> [Streams -> WrStates]] /\ pool' \in [Ends -> 0..ConnCredit]
        /\ Grows(ctl, ctl', e, s, {"Reset"})
    BY <2>1, ShapeParts, Zenon DEF Grows
  <2> QED
    BY <2>1, <2>3, <2>4, <2>5, <2>6
<1> QED
  BY <1>2, <1>3

\* A Fin at the head is all there is to read.
LEMMA FinIsLast ==
  ASSUME MuxInv, NEW e \in Ends, NEW s \in Streams, NEW o \in Ends, o = Other(e),
         inbox[e][s] # <<>>, Head(inbox[e][s]).kind = "Fin", rd[e][s] # "ended"
  PROVE  /\ got[e][s] = put[o][s]
         /\ \A i \in 1..Len(Tail(inbox[e][s])) : Tail(inbox[e][s])[i].kind \notin DataKinds
         /\ Live(e, s) => /\ Unread(e, s) = 0 /\ table[e][s].rfin
                          /\ Len(Tail(inbox[e][s])) = 0
         /\ wr[o][s] \in {"ended", "over"}
<1> DEFINE q == inbox[e][s]
           r == Tail(q)
<1>1. e = Other(o) /\ MuxShape /\ Line(o, s)
  BY ShapeParts, TheOther DEF MuxInv
<1>2. Inbox(o, s) /\ Sent(o, s)
  BY <1>1 DEF Line
<1>3. /\ q \in Seq(Events) /\ got[e][s] \in Nat /\ put[o][s] \in Nat /\ table[e][s] \in Entries
  BY ShapeParts
<1>4. table[e][s].unread \in Nat
  BY <1>3, EntryFields
<1>5. /\ got[e][s] <= put[o][s]
      /\ \A i \in 1..Len(q) :
           /\ q[i].kind = "Data" => q[i].n = got[e][s] + i /\ got[e][s] + i <= put[o][s]
           /\ q[i].kind = "Fin" => got[e][s] + i = put[o][s] + 1
      /\ Live(e, s) =>
           /\ Len(q) = Unread(e, s) + (IF Ending(e, s) THEN 1 ELSE 0)
           /\ \A i \in 1..Unread(e, s) : q[i].kind = "Data"
           /\ Ending(e, s) => q[Unread(e, s) + 1].kind = "Fin"
  BY <1>1, <1>2 DEF Inbox
<1>6. /\ r \in Seq(Events) /\ Len(r) = Len(q) - 1 /\ Len(q) \in Nat \ {0}
      /\ \A i \in 1..Len(r) : r[i] = q[i + 1]
      /\ q[1].kind = "Fin"
  BY <1>3, TailIs
<1> HIDE DEF q, r
<1>7. got[e][s] + 1 = put[o][s] + 1
  <2>1. 1 \in 1..Len(q)
    BY <1>6
  <2> QED
    BY <1>5, <1>6, <2>1
<1>8. got[e][s] = put[o][s]
  BY <1>3, <1>7
<1>9. ASSUME NEW i \in 1..Len(r)
      PROVE  r[i].kind \notin DataKinds
  <2>1. i + 1 \in 1..Len(q) /\ r[i] = q[i + 1] /\ i \in Nat /\ i > 0
    BY <1>6, <1>9
  <2>2. /\ q[i + 1].kind = "Data" => got[e][s] + (i + 1) <= put[o][s]
        /\ q[i + 1].kind = "Fin" => got[e][s] + (i + 1) = put[o][s] + 1
    BY <1>5, <2>1
  <2> QED
    BY <1>3, <1>8, <2>1, <2>2 DEF DataKinds
<1>10. ASSUME Live(e, s)
       PROVE  Unread(e, s) = 0 /\ table[e][s].rfin /\ Len(r) = 0
  <2>1. Unread(e, s) = 0
    <3>1. CASE Unread(e, s) # 0
      <4>1. 1 \in 1..Unread(e, s)
        BY <1>4, <3>1 DEF Unread
      <4> QED
        BY <1>5, <1>6, <1>10, <4>1
    <3> QED
      BY <3>1
  <2>2. CASE ~ Ending(e, s)
    BY <1>5, <1>6, <1>10, <2>1, <2>2
  <2>3. CASE Ending(e, s)
    <3>1. Len(q) = 0 + 1
      BY <1>5, <1>10, <2>1, <2>3
    <3> QED
      BY <1>6, <2>1, <2>3, <3>1 DEF Ending
  <2> QED
    BY <2>2, <2>3
<1>11. wr[o][s] \in {"ended", "over"}
  <2>1. 1 \in 1..Len(q) /\ q[1].kind = "Fin"
    BY <1>6
  <2>2. \E i \in 1..Len(inbox[e][s]) : inbox[e][s][i].kind = "Fin"
    BY <2>1 DEF q
  <2> QED
    BY <1>1, <1>2, <2>2 DEF Sent
<1> QED
  BY <1>8, <1>9, <1>10, <1>11 DEF q, r

\* Putting together a step of a reader: what e writes goes on as it was.
LEMMA ReaderStep ==
  ASSUME MuxInv, NEW e \in Ends, NEW s \in Streams, ~ Still(e, s), Elsewhere,
         UNCHANGED <<sema, data, put>>,
         inbox' = [inbox EXCEPT ![e][s] = Tail(inbox[e][s])], inbox[e][s] # <<>>,
         got' \in [Ends -> [Streams -> Nat]],
         table' \in [Ends -> [Streams -> Entries]],
         ~ table'[e][s].present => table'[e][s] = Absent,
         rd' \in [Ends -> [Streams -> RdStates]], wr' \in [Ends -> [Streams -> WrStates]],
         \A d \in Ends, t \in Streams : d # e \/ t # s =>
              /\ table'[d][t] = table[d][t] /\ rd'[d][t] = rd[d][t] /\ wr'[d][t] = wr[d][t]
              /\ got'[d][t] = got[d][t],
         pool' \in [Ends -> 0..ConnCredit], \A d \in Ends : d # e => pool'[d] = pool[d],
         closed[e] = "open" =>
           pool'[e] + table'[e][s].outstanding = pool[e] + table[e][s].outstanding,
         Grows(ctl, ctl', e, s, BridgeSays), WriterMoves(e, s), ~ table'[e][s].opening,
         MuxShape' /\ QueueShape' /\ FarKept(e, s) /\ inbox'[e][s] = Tail(inbox[e][s])
           => Line(Other(e), s)'
  PROVE  MuxInv'
<1>1. MuxShape /\ QueueShape /\ Line(e, s) /\ inbox \in [Ends -> [Streams -> Seq(Events)]]
      /\ inbox[e][s] \in Seq(Events)
  BY ShapeParts DEF MuxInv
<1>2. UNCHANGED <<closed, wire, gap, opener, dialed>>
  BY DEF Elsewhere
<1>3. Tail(inbox[e][s]) \in Seq(Events)
  BY <1>1, TailIs
<1>4. /\ inbox' \in [Ends -> [Streams -> Seq(Events)]] /\ inbox'[e][s] = Tail(inbox[e][s])
      /\ \A d \in Ends, t \in Streams : d # e \/ t # s => inbox'[d][t] = inbox[d][t]
  <2> DEFINE v == Tail(inbox[e][s])
  <2>1. v \in Seq(Events) /\ inbox' = [inbox EXCEPT ![e][s] = v]
    BY <1>3
  <2> HIDE DEF v
  <2>2. /\ inbox' \in [Ends -> [Streams -> Seq(Events)]] /\ inbox'[e][s] = v
        /\ \A d \in Ends, t \in Streams : d # e \/ t # s => inbox'[d][t] = inbox[d][t]
    BY <1>1, <2>1, Place
  <2> QED
    BY <2>2 DEF v
<1>5. MuxShape'
  <2>1. /\ sema' \in [Ends -> [Streams -> {n \in Int : n >= -1}]]
        /\ opener' \in [Streams -> Openers] /\ dialed' \in [Streams -> Dials]
        /\ put' \in [Ends -> [Streams -> Nat]]
        /\ \A d \in Ends, t \in Streams : d # e \/ t # s => table'[d][t] = table[d][t]
    BY <1>2, ShapeParts, Zenon
  <2>2. inbox' \in [Ends -> [Streams -> Seq(Events)]] /\ closed' = closed /\ gap' = gap
    BY <1>2, <1>4
  <2>3. MuxShape
    BY <1>1
  <2> QED
    BY <2>1, <2>2, <2>3, ShapeMoves, Zenon
<1>6. FarKept(e, s) /\ OthersKept(s)
  <2>1. \A d \in Ends, t \in Streams : d # e \/ t # s =>
           /\ table'[d][t] = table[d][t] /\ sema'[d][t] = sema[d][t] /\ inbox'[d][t] = inbox[d][t]
           /\ rd'[d][t] = rd[d][t] /\ wr'[d][t] = wr[d][t]
           /\ put'[d][t] = put[d][t] /\ got'[d][t] = got[d][t]
    BY <1>4
  <2>2. \A d \in Ends : d # e => ctl'[d] = ctl[d] /\ data'[d] = data[d]
    BY <1>1, Tells
  <2> QED
    BY <1>2, <2>1, <2>2, FarIs, Zenon
<1>7. ASSUME QueueShape'
      PROVE  Line(e, s)' /\ Line(Other(e), s)'
  <2>1. put'[e][s] = put[e][s] /\ data'[e] = data[e]
    OBVIOUS
  <2>2. Line(e, s)'
    BY <1>1, <1>5, <1>6, <1>7, <2>1, SpeaksOn
  <2> QED
    BY <1>4, <1>5, <1>6, <1>7, <2>2
<1>8. Grows(data, data', e, s, DataKinds)
  BY DEF Grows
<1> QED
  BY <1>2, <1>5, <1>6, <1>7, <1>8, BridgeStep

LEMMA ReadFinKeeps ==
  ASSUME MuxInv, NEW e \in Ends, NEW s \in Streams, ReadFin(e, s)
  PROVE  MuxInv'
<1> DEFINE o == Other(e)
<1>1. /\ rd[e][s] = "reading" /\ inbox[e][s] # <<>> /\ Head(inbox[e][s]).kind = "Fin"
      /\ inbox' = [inbox EXCEPT ![e][s] = Tail(inbox[e][s])] /\ Elsewhere
      /\ UNCHANGED <<sema, data, put, got>> /\ ~ Still(e, s)
  BY DEF ReadFin, Still
<1>2. /\ table' \in [Ends -> [Streams -> Entries]]
      /\ ~ table'[e][s].present => table'[e][s] = Absent
      /\ rd' \in [Ends -> [Streams -> RdStates]]
      /\ wr' \in [Ends -> [Streams -> WrStates]]
      /\ \A d \in Ends, t \in Streams : d # e \/ t # s =>
           table'[d][t] = table[d][t] /\ rd'[d][t] = rd[d][t] /\ wr'[d][t] = wr[d][t]
      /\ pool' \in [Ends -> 0..ConnCredit] /\ \A d \in Ends : d # e => pool'[d] = pool[d]
      /\ closed[e] = "open" => pool'[e] + table'[e][s].outstanding = pool[e] + table[e][s].outstanding
      /\ Grows(ctl, ctl', e, s, {"Reset"})
      /\ WriterMoves(e, s) /\ ~ table'[e][s].opening
      /\ \/ rd'[e][s] = "over" /\ ~ table'[e][s].present /\ ~ table'[e][s].rfin
         \/ rd'[e][s] = "ended" /\ table'[e][s] = table[e][s]
  BY ReadFinFacts
<1>3. o \in Ends /\ Other(o) = e /\ MuxShape /\ QueueShape /\ Line(o, s)
  BY TheOther, ShapeParts DEF MuxInv
<1>4. /\ got[e][s] = put[o][s]
      /\ \A i \in 1..Len(Tail(inbox[e][s])) : Tail(inbox[e][s])[i].kind \notin DataKinds
      /\ Live(e, s) => /\ Unread(e, s) = 0 /\ table[e][s].rfin
                       /\ Len(Tail(inbox[e][s])) = 0
      /\ wr[o][s] \in {"ended", "over"}
  BY <1>1, <1>3, FinIsLast
<1>5. ASSUME MuxShape' /\ QueueShape' /\ FarKept(e, s) /\ inbox'[e][s] = Tail(inbox[e][s])
      PROVE  Line(o, s)'
  <2>1. /\ closed' = closed /\ gap' = gap /\ wire' = wire
        /\ table'[o][s] = table[o][s] /\ sema'[o][s] = sema[o][s] /\ wr'[o][s] = wr[o][s]
        /\ put'[o][s] = put[o][s] /\ data'[o] = data[o] /\ got'[e][s] = got[e][s]
    BY <1>1, <1>5 DEF FarKept
  <2>2. Inbox(o, s) /\ Sent(o, s) /\ Window(o, s) /\ Order(o, s)
    BY <1>3 DEF Line
  <2>3. Updates(e, s)' = Updates(e, s)
    BY <1>2, <1>3, <1>5, <2>1, UpdatesTold
  <2> HIDE DEF o
  <2>4. Inbox(o, s)'
    <3>1. put[o][s] <= Chunks[o] /\ got[e][s] <= put[o][s]
      BY <1>3, <2>2 DEF Inbox
    <3>2. \A i \in 1..Len(inbox'[e][s]) : inbox'[e][s][i].kind # "Data" /\ inbox'[e][s][i].kind # "Fin"
      BY <1>4, <1>5 DEF DataKinds
    <3>3. ASSUME Live(e, s)'
          PROVE  /\ Live(e, s) /\ Unread(e, s)' = 0 /\ table'[e][s].rfin /\ ~ Ending(e, s)'
                 /\ Len(inbox'[e][s]) = 0
      BY <1>2, <1>4, <1>5, <3>3 DEF Live, Unread, Ending
    <3>4. rd'[e][s] = "ended" => got'[e][s] = put'[o][s] /\ (Live(e, s)' => table'[e][s].rfin)
      BY <1>4, <2>1, <3>3
    <3>5. Live(e, s)' => Len(inbox'[e][s]) = Unread(e, s)' + (IF Ending(e, s)' THEN 1 ELSE 0)
      BY <3>3
    <3>6. Live(e, s)' => \A i \in 1..Unread(e, s)' : inbox'[e][s][i].kind = "Data"
      BY <3>3
    <3> QED
      BY <1>3, <2>1, <3>1, <3>2, <3>3, <3>4, <3>5, <3>6 DEF Inbox
  <2>5. Sent(o, s)'
    <3>1. wr'[o][s] \in {"ended", "over"}
      BY <1>4, <2>1
    <3> QED
      BY <3>1 DEF Sent
  <2>6. Window(o, s)'
    <3>1. Updates(e, s) \in Nat
      BY <1>3, UpdatesAreNat
    <3>2. Free(o, s)' = Free(o, s) /\ Holds(o, s)' = Holds(o, s) /\ Taken(o, s)' = Taken(o, s)
      BY <2>1 DEF Free, Holds, Taken
    <3>3. table'[o][s].present => sema'[o][s] >= 0
      BY <1>3, <2>1, <2>2 DEF Window, Live
    <3>4. Window(o, s) => Window(o, s)'
      BY <1>3, <2>1, <2>3, <3>2 DEF Window, Live
    <3> QED
      BY <2>2, <3>4
  <2>7. Order(o, s)'
    <3>1. ItemsKept(wire[o], wire'[o], s) /\ ItemsKept(data[o], data'[o], s)
      BY <2>1, SameSelf
    <3>2. table'[e][s].present => /\ table[e][s].present /\ table'[e][s].unread = table[e][s].unread
                                  /\ table'[e][s].rfin = table[e][s].rfin
      BY <1>2
    <3> QED
      BY <1>3, <1>5, <2>1, <2>2, <3>1, <3>2, OrderKept
  <2> QED
    BY <2>4, <2>5, <2>6, <2>7 DEF Line
<1>6. Grows(ctl, ctl', e, s, BridgeSays)
  BY <1>2 DEF Grows, BridgeSays
<1>7. /\ got' \in [Ends -> [Streams -> Nat]]
      /\ \A d \in Ends, t \in Streams : d # e \/ t # s =>
           /\ table'[d][t] = table[d][t] /\ rd'[d][t] = rd[d][t] /\ wr'[d][t] = wr[d][t]
           /\ got'[d][t] = got[d][t]
  BY <1>1, <1>2, ShapeParts
<1> QED
  BY <1>1, <1>2, <1>5, <1>6, <1>7, ReaderStep, Zenon

\* A chunk at the head is the next one, and the entry counts it as unread.
LEMMA DataIsNext ==
  ASSUME MuxInv, NEW e \in Ends, NEW s \in Streams, NEW o \in Ends, o = Other(e),
         inbox[e][s] # <<>>, Head(inbox[e][s]).kind = "Data"
  PROVE  /\ Head(inbox[e][s]).n = got[e][s] + 1 /\ got[e][s] + 1 <= put[o][s]
         /\ Live(e, s) => table[e][s].unread > 0
<1> DEFINE q == inbox[e][s]
<1>1. e = Other(o) /\ Line(o, s)
  BY ShapeParts, TheOther
<1>2. Inbox(o, s)
  BY <1>1 DEF Line
<1>3. q \in Seq(Events) /\ table[e][s].unread \in Nat
  BY ShapeParts, EntryFields
<1>4. Len(q) \in Nat \ {0} /\ q[1].kind = "Data" /\ q[1] = Head(q)
  BY <1>3, TailIs
<1>5. /\ \A i \in 1..Len(q) : q[i].kind = "Data" => q[i].n = got[e][s] + i /\ got[e][s] + i <= put[o][s]
      /\ Live(e, s) => /\ Len(q) = Unread(e, s) + (IF Ending(e, s) THEN 1 ELSE 0)
                       /\ Ending(e, s) => q[Unread(e, s) + 1].kind = "Fin"
  BY <1>1, <1>2 DEF Inbox
<1> HIDE DEF q
<1>6. 1 \in 1..Len(q)
  BY <1>4
<1>7. q[1].n = got[e][s] + 1 /\ got[e][s] + 1 <= put[o][s]
  BY <1>4, <1>5, <1>6
<1>8. ASSUME Live(e, s), table[e][s].unread = 0
      PROVE  FALSE
  <2>1. CASE Ending(e, s)
    <3>1. q[0 + 1].kind = "Fin"
      BY <1>5, <1>8, <2>1 DEF Unread
    <3> QED
      BY <1>4, <3>1
  <2>2. CASE ~ Ending(e, s)
    BY <1>4, <1>5, <1>8, <2>2 DEF Unread
  <2> QED
    BY <2>1, <2>2
<1>9. Live(e, s) => table[e][s].unread > 0
  BY <1>3, <1>8
<1> QED
  BY <1>4, <1>7, <1>9 DEF q

\* The entry of a stream when a chunk is read.
LEMMA OneLess ==
  ASSUME MuxInv, NEW e \in Ends, NEW s \in Streams, Live(e, s) => table[e][s].unread > 0,
         table' = IF Live(e, s) THEN [table EXCEPT ![e][s].unread = table[e][s].unread - 1] ELSE table
  PROVE  /\ table' \in [Ends -> [Streams -> Entries]]
         /\ ~ table'[e][s].present => table'[e][s] = Absent
         /\ \A d \in Ends, t \in Streams : d # e \/ t # s => table'[d][t] = table[d][t]
         /\ table'[e][s].outstanding = table[e][s].outstanding
         /\ table'[e][s].opening = table[e][s].opening
         /\ table'[e][s].rfin = table[e][s].rfin /\ table'[e][s].present = table[e][s].present
         /\ Live(e, s) => table'[e][s].unread = table[e][s].unread - 1
<1>1. CASE ~ Live(e, s)
  BY <1>1, ShapeParts DEF Live
<1>2. CASE Live(e, s)
  <2> DEFINE n == table[e][s].unread - 1
             r == [table[e][s] EXCEPT !.unread = n]
  <2>1. n \in Nat /\ table[e][s] \in Entries
    <3>1. table[e][s] \in Entries
      BY ShapeParts
    <3> QED
      BY <1>2, <3>1, EntryFields
  <2>2. table' = [table EXCEPT ![e][s].unread = n]
    BY <1>2
  <2> HIDE DEF n
  <2>3. table' = [table EXCEPT ![e][s] = r]
    BY <2>1, <2>2, ShapeParts, PlaceField, Zenon
  <2>4. /\ r \in Entries /\ r.outstanding = table[e][s].outstanding /\ r.unread = n
        /\ r.rfin = table[e][s].rfin /\ r.opening = table[e][s].opening
        /\ r.present = table[e][s].present
    BY <2>1, EntryChanges
  <2> HIDE DEF r
  <2>5. /\ table' \in [Ends -> [Streams -> Entries]] /\ table'[e][s] = r
        /\ \A d \in Ends, t \in Streams : d # e \/ t # s => table'[d][t] = table[d][t]
    <3>1. table \in [Ends -> [Streams -> Entries]] /\ r \in Entries
      BY <2>4, ShapeParts
    <3> QED
      BY <2>3, <3>1, Place
  <2> QED
    BY <1>2, <2>4, <2>5, Zenon DEF Live, n
<1> QED
  BY <1>1, <1>2

LEMMA ReadDataKeeps ==
  ASSUME MuxInv, NEW e \in Ends, NEW s \in Streams, ReadData(e, s)
  PROVE  MuxInv'
<1> DEFINE o == Other(e)
           w == Frame("WindowUpdate", s)
<1>1. /\ rd[e][s] = "reading" /\ inbox[e][s] # <<>> /\ Head(inbox[e][s]).kind = "Data"
      /\ inbox' = [inbox EXCEPT ![e][s] = Tail(inbox[e][s])] /\ Elsewhere
      /\ table' = IF Live(e, s) THEN [table EXCEPT ![e][s].unread = table[e][s].unread - 1] ELSE table
      /\ UNCHANGED <<sema, pool, data, wr, put>> /\ ~ Still(e, s)
  BY DEF ReadData, Still
<1>2. o \in Ends /\ Other(o) = e /\ MuxShape /\ QueueShape /\ Line(o, s)
  BY TheOther, ShapeParts DEF MuxInv
<1>3. /\ Head(inbox[e][s]).n = got[e][s] + 1 /\ got[e][s] + 1 <= put[o][s]
      /\ Live(e, s) => table[e][s].unread > 0
  BY <1>1, <1>2, DataIsNext
<1>4. /\ table' \in [Ends -> [Streams -> Entries]]
      /\ ~ table'[e][s].present => table'[e][s] = Absent
      /\ \A d \in Ends, t \in Streams : d # e \/ t # s => table'[d][t] = table[d][t]
      /\ table'[e][s].outstanding = table[e][s].outstanding
      /\ table'[e][s].opening = table[e][s].opening
      /\ table'[e][s].rfin = table[e][s].rfin /\ table'[e][s].present = table[e][s].present
      /\ Live(e, s) => table'[e][s].unread = table[e][s].unread - 1
  BY <1>1, <1>3, OneLess, Zenon
<1>5. /\ got[e][s] \in Nat /\ put[o][s] \in Nat /\ table[e][s].unread \in Nat
      /\ inbox[e][s] \in Seq(Events)
  BY <1>2, ShapeParts, EntryFields
<1>6. /\ got' \in [Ends -> [Streams -> Nat]] /\ got'[e][s] = got[e][s] + 1
      /\ \A d \in Ends, t \in Streams : d # e \/ t # s => got'[d][t] = got[d][t]
  <2> DEFINE n == got[e][s] + 1
  <2>1. n \in Nat /\ got' = [got EXCEPT ![e][s] = n] /\ got \in [Ends -> [Streams -> Nat]]
    <3>1. got' = [got EXCEPT ![e][s] = Head(inbox[e][s]).n] /\ got \in [Ends -> [Streams -> Nat]]
      BY ShapeParts DEF ReadData
    <3>2. n \in Nat /\ Head(inbox[e][s]).n = n
      BY <1>3, <1>5
    <3> QED
      BY <3>1, <3>2, Zenon
  <2> HIDE DEF n
  <2>2. /\ got' \in [Ends -> [Streams -> Nat]] /\ got'[e][s] = n
        /\ \A d \in Ends, t \in Streams : d # e \/ t # s => got'[d][t] = got[d][t]
    BY <2>1, Place
  <2> QED
    BY <2>2 DEF n
<1>7. /\ rd' \in [Ends -> [Streams -> RdStates]] /\ rd'[e][s] = "writing"
      /\ \A d \in Ends, t \in Streams : d # e \/ t # s => rd'[d][t] = rd[d][t]
  <2>1. /\ rd' = [rd EXCEPT ![e][s] = "writing"] /\ rd \in [Ends -> [Streams -> RdStates]]
        /\ "writing" \in RdStates
    BY ShapeParts DEF ReadData, RdStates
  <2> QED
    BY <2>1, Place
<1>8. /\ ctl' = [ctl EXCEPT ![e] = Append(@, w)] /\ w \in Frames /\ w.s = s /\ w.kind = "WindowUpdate"
      /\ ctl \in [Ends -> Seq(Frames)]
  BY FramesAre, FrameFields, ShapeParts DEF ReadData, Tell, Kinds
<1>9. ctl'[e] = Append(ctl[e], Frame("WindowUpdate", s)) /\ Grows(ctl, ctl', e, s, BridgeSays)
  BY <1>8, Zenon DEF Grows, BridgeSays
<1>10. WriterMoves(e, s) /\ ~ table'[e][s].opening
  <2>1. ~ table[e][s].opening
    BY <1>1, ShapeParts, Bridging
  <2>2. wr'[e][s] = wr[e][s] /\ sema'[e][s] = sema[e][s]
    BY <1>1
  <2> QED
    BY <1>4, <2>1, <2>2, WriterStill
<1>11. ASSUME MuxShape' /\ QueueShape' /\ FarKept(e, s) /\ inbox'[e][s] = Tail(inbox[e][s])
       PROVE  Line(o, s)'
  <2>1. /\ closed' = closed /\ gap' = gap /\ wire' = wire
        /\ table'[o][s] = table[o][s] /\ sema'[o][s] = sema[o][s] /\ wr'[o][s] = wr[o][s]
        /\ put'[o][s] = put[o][s] /\ data'[o] = data[o]
    BY <1>11 DEF FarKept
  <2>2. Inbox(o, s) /\ Sent(o, s) /\ Window(o, s) /\ Order(o, s)
    BY <1>2 DEF Line
  <2>3. Updates(e, s)' = Updates(e, s) + 1 /\ Updates(e, s) \in Nat
    BY <1>2, <1>9, <1>11, <2>1, UpdatesTold, UpdatesAreNat
  <2> DEFINE q == inbox[e][s]
             r == Tail(q)
  <2>4. /\ r \in Seq(Events) /\ Len(r) = Len(q) - 1 /\ Len(q) \in Nat \ {0}
        /\ \A i \in 1..Len(r) : r[i] = q[i + 1]
    BY <1>1, <1>5, TailIs
  <2>5. /\ put[o][s] <= Chunks[o]
        /\ \A i \in 1..Len(q) :
             /\ q[i].kind = "Data" => q[i].n = got[e][s] + i /\ got[e][s] + i <= put[o][s]
             /\ q[i].kind = "Fin" => got[e][s] + i = put[o][s] + 1
        /\ Live(e, s) =>
             /\ Len(q) = table[e][s].unread + (IF Ending(e, s) THEN 1 ELSE 0)
             /\ \A i \in 1..table[e][s].unread : q[i].kind = "Data"
             /\ Ending(e, s) => q[table[e][s].unread + 1].kind = "Fin"
    BY <1>2, <2>2 DEF Inbox, Unread
  <2>6. Ending(e, s)' <=> Ending(e, s)
    BY <1>1, <1>4, <1>7 DEF Ending
  <2>7. inbox'[e][s] = r
    BY <1>11
  <2> HIDE DEF q, r, o, w
  <2>8. got'[e][s] = got[e][s] + 1 /\ got[e][s] \in Nat /\ put[o][s] \in Nat
    BY <1>5, <1>6 DEF o
  <2>9. Inbox(o, s)'
    <3>1. ASSUME NEW i \in 1..Len(r)
          PROVE  /\ r[i].kind = "Data" => r[i].n = got'[e][s] + i /\ got'[e][s] + i <= put[o][s]
                 /\ r[i].kind = "Fin" => got'[e][s] + i = put[o][s] + 1
      <4>1. i + 1 \in 1..Len(q) /\ i \in Nat /\ r[i] = q[i + 1]
        BY <2>4
      <4>2. got[e][s] + (i + 1) = got'[e][s] + i
        <5>1. i \in Nat
          BY <4>1
        <5>2. got[e][s] + (i + 1) = (got[e][s] + 1) + i
          BY <2>8, <5>1, AddOne
        <5> QED
          BY <2>8, <5>2
      <4> QED
        BY <2>5, <4>1, <4>2
    <3>2. Live(e, s)' => Live(e, s) /\ table'[e][s].unread = table[e][s].unread - 1
      BY <1>4 DEF Live
    <3>3. Live(e, s)' => Len(r) = table'[e][s].unread + (IF Ending(e, s)' THEN 1 ELSE 0)
      <4>1. ASSUME Live(e, s)', Ending(e, s)
            PROVE  Len(r) = table'[e][s].unread + (IF Ending(e, s)' THEN 1 ELSE 0)
        <5>1. (IF Ending(e, s) THEN 1 ELSE 0) = 1 /\ (IF Ending(e, s)' THEN 1 ELSE 0) = 1
          BY <2>6, <4>1
        <5>2. Len(q) = table[e][s].unread + 1
          BY <2>5, <3>2, <4>1, <5>1
        <5>3. table'[e][s].unread = table[e][s].unread - 1
          BY <3>2, <4>1
        <5>4. Len(r) = table'[e][s].unread + 1
          BY <1>5, <2>4, <5>2, <5>3
        <5> QED
          BY <5>1, <5>4
      <4>2. ASSUME Live(e, s)', ~ Ending(e, s)
            PROVE  Len(r) = table'[e][s].unread + (IF Ending(e, s)' THEN 1 ELSE 0)
        <5>1. (IF Ending(e, s) THEN 1 ELSE 0) = 0 /\ (IF Ending(e, s)' THEN 1 ELSE 0) = 0
          BY <2>6, <4>2
        <5>2. Len(q) = table[e][s].unread + 0
          BY <2>5, <3>2, <4>2, <5>1
        <5>3. table'[e][s].unread = table[e][s].unread - 1
          BY <3>2, <4>2
        <5>4. Len(r) = table'[e][s].unread + 0
          BY <1>5, <2>4, <5>2, <5>3
        <5> QED
          BY <5>1, <5>4
      <4> QED
        BY <4>1, <4>2
    <3>4. ASSUME Live(e, s)'
          PROVE  /\ \A i \in 1..table'[e][s].unread : r[i].kind = "Data"
                 /\ Ending(e, s)' => r[table'[e][s].unread + 1].kind = "Fin"
      <4>1. /\ table[e][s].unread \in Nat /\ table'[e][s].unread = table[e][s].unread - 1
            /\ table[e][s].unread > 0 /\ Live(e, s)
        BY <1>3, <1>5, <3>2, <3>4
      <4>2. ASSUME NEW i \in 1..table'[e][s].unread
            PROVE  r[i].kind = "Data"
        <5>1. i \in Nat /\ i + 1 \in 1..table[e][s].unread
          BY <4>1
        <5>2. i \in 1..Len(r)
          <6>1. CASE Ending(e, s)
            BY <2>6, <3>3, <3>4, <4>1, <6>1
          <6>2. CASE ~ Ending(e, s)
            BY <2>6, <3>3, <3>4, <4>1, <6>2
          <6> QED
            BY <6>1, <6>2
        <5> QED
          BY <2>4, <2>5, <4>1, <5>1, <5>2
      <4>3. ASSUME Ending(e, s)'
            PROVE  r[table'[e][s].unread + 1].kind = "Fin"
        <5>1. table'[e][s].unread + 1 \in 1..Len(r) /\ table'[e][s].unread + 1 = table[e][s].unread
          BY <3>3, <3>4, <4>1, <4>3
        <5>2. r[table[e][s].unread] = q[table[e][s].unread + 1]
          BY <2>4, <5>1, Zenon
        <5> QED
          BY <2>5, <2>6, <4>1, <4>3, <5>1, <5>2, Zenon
      <4> QED
        BY <4>2, <4>3
    <3>5. /\ got'[e][s] <= put'[o][s] /\ put'[o][s] <= Chunks[o]
          /\ rd'[e][s] # "ended"
      BY <1>3, <1>6, <1>7, <2>1, <2>5
    <3> QED
      BY <1>2, <2>1, <2>7, <3>1, <3>3, <3>4, <3>5 DEF Inbox, Unread, o
  <2>10. Sent(o, s)'
    <3>1. (\E i \in 1..Len(r) : r[i].kind = "Fin") => \E i \in 1..Len(q) : q[i].kind = "Fin"
      <4>1. \A i \in 1..Len(r) : i + 1 \in 1..Len(q)
        BY <2>4
      <4> QED
        BY <2>4, <4>1
    <3>2. InFlight(o, Frame("Fin", s))' => InFlight(o, Frame("Fin", s))
      BY <2>1 DEF InFlight
    <3> QED
      BY <1>2, <1>4, <1>7, <2>1, <2>2, <2>7, <3>1, <3>2 DEF Sent, o, q
  <2>11. Window(o, s)'
    <3>1. Free(o, s)' = Free(o, s) /\ Holds(o, s)' = Holds(o, s) /\ Taken(o, s)' = Taken(o, s)
      BY <2>1 DEF Free, Holds, Taken
    <3>2. put'[o][s] - got'[e][s] + Updates(e, s)' = put[o][s] - got[e][s] + Updates(e, s)
      BY <2>1, <2>3, <2>8
    <3> QED
      BY <1>2, <2>1, <2>2, <3>1, <3>2 DEF Window, Live, o
  <2>12. Order(o, s)'
    <3>1. Live(e, s)' => Live(e, s) /\ Read(e, s)' = Read(e, s)
      <4>1. Live(e, s)' => Live(e, s) /\ table'[e][s].unread = table[e][s].unread - 1
        BY <1>4 DEF Live
      <4>2. Live(e, s)' => got'[e][s] + table'[e][s].unread = got[e][s] + table[e][s].unread
        <5>1. \A a, b \in Int : (a + 1) + (b - 1) = a + b
          OBVIOUS
        <5>2. got[e][s] \in Int /\ table[e][s].unread \in Int
          BY <1>5, <2>8
        <5>3. (got[e][s] + 1) + (table[e][s].unread - 1) = got[e][s] + table[e][s].unread
          BY <5>1, <5>2
        <5> QED
          BY <2>8, <4>1, <5>3, Zenon
      <4> QED
        BY <4>1, <4>2 DEF Read, Unread
    <3> SUFFICES ASSUME Live(e, s)', ~ gap'[o]
                 PROVE  /\ \A g \in Items(s) : InOrder(o, g)'
                        /\ closed'[o] = "open" =>
                             \A m \in Nat : m > Read(e, s)' /\ m <= put'[o][s]
                                              => InFlight(o, DataFrame(s, m))'
      BY <1>2 DEF Order, o
    <3>2. /\ \A g \in Items(s) : InOrder(o, g)
          /\ closed[o] = "open" =>
               \A m \in Nat : m > Read(e, s) /\ m <= put[o][s] => InFlight(o, DataFrame(s, m))
      BY <1>2, <2>1, <2>2, <3>1 DEF Order, o
    <3>3. \A f : InFlight(o, f)' <=> InFlight(o, f)
      BY <2>1 DEF InFlight
    <3>4. ASSUME NEW g \in Items(s)
          PROVE  InOrder(o, g)'
      <4>1. g.s = s /\ InOrder(o, g)
        BY <3>2, ItemIs
      <4>2. Earlier(o, g)' = Earlier(o, g)
        BY <1>2, <2>1, <3>1, <4>1 DEF Earlier, o
      <4>3. table'[e][s].rfin = table[e][s].rfin /\ Read(e, s)' = Read(e, s)
        BY <1>4, <3>1
      <4> QED
        BY <1>2, <2>1, <3>3, <4>1, <4>2, <4>3 DEF InOrder, o
    <3> QED
      BY <2>1, <3>1, <3>2, <3>3, <3>4
  <2> QED
    BY <2>9, <2>10, <2>11, <2>12 DEF Line
<1>12. /\ wr' \in [Ends -> [Streams -> WrStates]] /\ pool' \in [Ends -> 0..ConnCredit]
       /\ \A d \in Ends, t \in Streams : d # e \/ t # s =>
            /\ table'[d][t] = table[d][t] /\ rd'[d][t] = rd[d][t] /\ wr'[d][t] = wr[d][t]
            /\ got'[d][t] = got[d][t]
       /\ pool'[e] + table'[e][s].outstanding = pool[e] + table[e][s].outstanding
       /\ \A d \in Ends : d # e => pool'[d] = pool[d]
  <2>1. /\ wr' = wr /\ wr \in [Ends -> [Streams -> WrStates]]
        /\ pool' = pool /\ pool \in [Ends -> 0..ConnCredit]
    BY <1>1, ShapeParts, Zenon
  <2>2. \A d \in Ends, t \in Streams : d # e \/ t # s =>
          /\ table'[d][t] = table[d][t] /\ rd'[d][t] = rd[d][t]
          /\ got'[d][t] = got[d][t]
    BY <1>4, <1>6, <1>7
  <2>3. table'[e][s].outstanding = table[e][s].outstanding
    BY <1>4
  <2> QED
    BY <2>1, <2>2, <2>3
<1> HIDE DEF w
<1> QED
  BY <1>1, <1>4, <1>6, <1>7, <1>9, <1>10, <1>11, <1>12, ReaderStep, Zenon
=============================================================================
