-------------------------- MODULE RelayRoomProofs --------------------------
(***************************************************************************)
(* What holds of a room of the relay for every number of connections, every *)
(* queue length and every history of cuts, restarts and evictions: nothing  *)
(* crosses from one room into the next, and no end reads over a gap.        *)
(***************************************************************************)
EXTENDS RelayRoom, FiniteSetTheorems, TLAPS

-----------------------------------------------------------------------------
(* The invariant. *)

Ends == Conns \cup {None}
Kinds == Presences \cup {"hello", "reply", "credential", "data"}
Messages == [kind : Kinds, from : Ends, n : Nat, epoch : Ends]
Steps == {"unused", "reading", "done"}
Phases == {"idle", "waiting", "hello", "credential", "up"}
Outcomes == {"none", "relay_unreachable", "daemon_offline", "pairing_rejected", "link_lost"}
Stages == {"none", "await", "up", "dead"}

\* The relay's state and what each end has read.
RelayShape ==
  /\ room \in [open : BOOLEAN, peers : SUBSET [id : Nat, c : Conns], next : Nat, inst : Nat]
  /\ conn \in [Conns -> [st : Steps, id : Nat, inst : Nat, sent : Nat, silent : BOOLEAN]]
  /\ up \in [Conns -> Seq(Messages)] /\ queue \in [Conns -> Seq(Messages)]
  /\ heard \in [Conns -> [from : Ends, n : Nat]]

EndShape ==
  /\ daemon \in [c : Ends, session : [st : Stages, epoch : Ends, recs : Seq(Messages)]]
  /\ desktop \in [c : Ends, phase : Phases, last : Outcomes]
  /\ used \in [insts : Nat, data : Nat, cuts : Nat, drops : Nat, timeouts : Nat]

\* Who sits in the room: at most two handlers that read, of this instance.
Seats ==
  /\ IsFiniteSet(room.peers) /\ Cardinality(room.peers) <= 2 /\ room.open = (room.peers # {})
  /\ \A p \in room.peers : /\ p.id = conn[p.c].id /\ conn[p.c].st = "reading"
                            /\ conn[p.c].inst = room.inst

\* A connection never made has carried nothing; the ends hold connections made.
Fresh ==
  \A c \in Conns : conn[c].st = "unused" =>
    up[c] = <<>> /\ queue[c] = <<>> /\ heard[c].from = None
Held(c) == c # None => conn[c].st # "unused"

\* What is on its way to the relay comes from its connection, numbered without a gap.
Lines ==
  \A c \in Conns :
    /\ conn[c].silent => up[c] = <<>>
    /\ \A i \in 1..Len(up[c]) : /\ up[c][i].from = c
                                 /\ up[c][i].n = conn[c].sent - Len(up[c]) + i

\* What is on its way to an end comes from a connection of the same room instance.
Origins ==
  \A c \in Conns :
    /\ Len(queue[c]) <= QueueCap
    /\ \A i \in 1..Len(queue[c]) : queue[c][i].from # None =>
         /\ conn[queue[c][i].from].st # "unused"
         /\ conn[queue[c][i].from].inst = conn[c].inst
    /\ Held(heard[c].from)

\* What an end has read last, then what waits for it; two records of one sender with no
\* record between them have consecutive numbers.
At(h, q, i) == IF i = 0 THEN h ELSE q[i]
Bare(q, i, j) == \A k \in i..j : q[k].from = None
Gapless(h, q) ==
  \A i, j \in 0..Len(q) :
    i < j /\ q[j].from # None /\ At(h, q, i).from = q[j].from /\ Bare(q, i + 1, j - 1)
      => q[j].n = At(h, q, i).n + 1
\* If the last record of all is a's, its number is x.
LastIs(h, q, a, x) ==
  \A i \in 0..Len(q) :
    At(h, q, i).from = a /\ Bare(q, i + 1, Len(q)) => At(h, q, i).n = x

Forwarded(a) == conn[a].sent - Len(up[a])
Streams ==
  /\ \A c \in Conns : Gapless(heard[c], queue[c])
  /\ \A a, c \in Conns : a \in Members(room) /\ c \in Members(room) /\ a # c /\ ~ conn[a].silent
       => LastIs(heard[c], queue[c], a, Forwarded(a))

RelayInv == RelayShape /\ Seats /\ Fresh /\ Lines /\ Origins /\ Streams
RoomInv == RelayInv /\ EndShape /\ Held(daemon.c) /\ Held(desktop.c)

-----------------------------------------------------------------------------
(* Sequences of messages. *)

LEMMA EndsAndNone == None \notin Conns /\ None \in Ends /\ Conns \subseteq Ends
BY RoomAssumption DEF Conns, None, Ends

LEMMA AppendIs ==
  ASSUME NEW S, NEW q \in Seq(S), NEW m \in S
  PROVE  /\ Append(q, m) \in Seq(S) /\ Len(Append(q, m)) = Len(q) + 1
         /\ \A i \in 1..Len(q) : Append(q, m)[i] = q[i]
         /\ Append(q, m)[Len(q) + 1] = m
OBVIOUS

LEMMA TailIs ==
  ASSUME NEW S, NEW q \in Seq(S), q # <<>>
  PROVE  /\ Tail(q) \in Seq(S) /\ Len(Tail(q)) = Len(q) - 1 /\ Len(q) \in Nat \ {0}
         /\ \A i \in 1..Len(Tail(q)) : Tail(q)[i] = q[i + 1]
         /\ Head(q) = q[1] /\ Head(q) \in S
OBVIOUS

\* A presence at the end changes nothing of what the records say.
LEMMA PresenceFollows ==
  ASSUME NEW h, NEW q \in Seq(Messages), NEW m \in Messages, m.from = None, Gapless(h, q)
  PROVE  /\ Gapless(h, Append(q, m))
         /\ \A a \in Conns, x \in Int : LastIs(h, q, a, x) => LastIs(h, Append(q, m), a, x)
<1> DEFINE r == Append(q, m)
<1>1. /\ Len(r) = Len(q) + 1 /\ Len(q) \in Nat
      /\ \A i \in 1..Len(q) : r[i] = q[i]
      /\ r[Len(q) + 1].from = None
  BY AppendIs
<1> HIDE DEF r
<1>2. \A i \in 0..Len(q) : At(h, r, i) = At(h, q, i)
  BY <1>1 DEF At
<1>3. \A i, j \in Int : 1 <= i /\ j <= Len(q) /\ Bare(r, i, j) => Bare(q, i, j)
  BY <1>1 DEF Bare
<1>4. Gapless(h, r)
  <2> SUFFICES ASSUME NEW i \in 0..Len(r), NEW j \in 0..Len(r), i < j, r[j].from # None,
                      At(h, r, i).from = r[j].from, Bare(r, i + 1, j - 1)
               PROVE  r[j].n = At(h, r, i).n + 1
    BY DEF Gapless
  <2>1. j \in 1..Len(q) /\ i \in 0..Len(q)
    BY <1>1
  <2>2. r[j] = q[j] /\ At(h, r, i) = At(h, q, i) /\ Bare(q, i + 1, j - 1)
    <3>1. 1 <= i + 1 /\ j - 1 <= Len(q) /\ j - 1 \in Int /\ i + 1 \in Int
      BY <2>1, <1>1
    <3> QED
      BY <3>1, <2>1, <1>1, <1>2, <1>3
  <2> QED
    BY <2>1, <2>2, <1>1 DEF Gapless
<1>5. ASSUME NEW a \in Conns, NEW x \in Int, LastIs(h, q, a, x)
      PROVE  LastIs(h, r, a, x)
  <2> SUFFICES ASSUME NEW i \in 0..Len(r), At(h, r, i).from = a, Bare(r, i + 1, Len(r))
               PROVE  At(h, r, i).n = x
    BY DEF LastIs
  <2>1. i # Len(q) + 1
    BY <1>1, EndsAndNone DEF At
  <2>2. i \in 0..Len(q)
    BY <2>1, <1>1
  <2>3. Bare(q, i + 1, Len(q))
    <3>1. Bare(r, i + 1, Len(q))
      BY <1>1, <2>2 DEF Bare
    <3> QED
      BY <3>1, <1>3, <1>1, <2>2
  <2> QED
    BY <2>2, <2>3, <1>2, <1>5 DEF LastIs
<1> QED
  BY <1>4, <1>5 DEF r

\* The record with the next number keeps the stream whole and becomes its last.
LEMMA RecordFollows ==
  ASSUME NEW h, NEW q \in Seq(Messages), NEW m \in Messages, m.from # None,
         Gapless(h, q), LastIs(h, q, m.from, m.n - 1),
         \A i \in 0..Len(q) : At(h, q, i).n \in Nat
  PROVE  /\ Gapless(h, Append(q, m))
         /\ LastIs(h, Append(q, m), m.from, m.n)
         /\ \A a \in Conns, x \in Int : a # m.from => LastIs(h, Append(q, m), a, x)
<1> DEFINE r == Append(q, m)
<1>1. /\ Len(r) = Len(q) + 1 /\ Len(q) \in Nat
      /\ \A i \in 1..Len(q) : r[i] = q[i]
      /\ r[Len(q) + 1] = m
  BY AppendIs
<1> HIDE DEF r
<1>2. \A i \in 0..Len(q) : At(h, r, i) = At(h, q, i)
  BY <1>1 DEF At
<1>3. \A i, j \in Int : 1 <= i /\ j <= Len(q) /\ Bare(r, i, j) => Bare(q, i, j)
  BY <1>1 DEF Bare
<1>4. m.n \in Nat
  BY DEF Messages
<1>5. Gapless(h, r)
  <2> SUFFICES ASSUME NEW i \in 0..Len(r), NEW j \in 0..Len(r), i < j, r[j].from # None,
                      At(h, r, i).from = r[j].from, Bare(r, i + 1, j - 1)
               PROVE  r[j].n = At(h, r, i).n + 1
    BY DEF Gapless
  <2>1. i \in 0..Len(q) /\ At(h, r, i) = At(h, q, i) /\ Bare(q, i + 1, j - 1)
    <3>1. i \in 0..Len(q) /\ 1 <= i + 1 /\ j - 1 <= Len(q) /\ j - 1 \in Int /\ i + 1 \in Int
      BY <1>1
    <3> QED
      BY <3>1, <1>2, <1>3
  <2>2. CASE j \in 1..Len(q)
    <3>1. r[j] = q[j] /\ j \in 0..Len(q)
      BY <2>2, <1>1
    <3> QED
      BY <2>1, <3>1 DEF Gapless
  <2>3. CASE j = Len(q) + 1
    <3>1. At(h, q, i).from = m.from /\ Bare(q, i + 1, Len(q)) /\ r[j] = m
      BY <2>1, <2>3, <1>1
    <3>2. At(h, q, i).n = m.n - 1
      BY <3>1, <2>1 DEF LastIs
    <3> QED
      BY <3>1, <3>2, <2>1, <1>4
  <2> QED
    BY <2>2, <2>3, <1>1
<1>6. \A i \in 0..Len(q) : ~ Bare(r, i + 1, Len(r))
  <2> SUFFICES ASSUME NEW i \in 0..Len(q), Bare(r, i + 1, Len(r)) PROVE FALSE
    OBVIOUS
  <2>1. Len(q) + 1 \in (i + 1)..Len(r)
    BY <1>1
  <2> QED
    BY <2>1, <1>1 DEF Bare
<1>7. \A a, x : LastIs(h, r, a, x) <=> (m.from = a => m.n = x)
  <2> SUFFICES ASSUME NEW a, NEW x PROVE LastIs(h, r, a, x) <=> (m.from = a => m.n = x)
    OBVIOUS
  <2>1. At(h, r, Len(r)) = m /\ Len(r) \in 0..Len(r) /\ Bare(r, Len(r) + 1, Len(r))
    BY <1>1 DEF At, Bare
  <2>2. \A i \in 0..Len(r) : i = Len(r) \/ i \in 0..Len(q)
    BY <1>1
  <2> QED
    BY <2>1, <2>2, <1>6 DEF LastIs
<1> QED
  BY <1>5, <1>7 DEF r

\* What an end notes of the message it takes.
Noted(h, m) == IF m.from = None THEN h ELSE [from |-> m.from, n |-> m.n]

LEMMA ReadingFollows ==
  ASSUME NEW h, NEW q \in Seq(Messages), q # <<>>, Gapless(h, q)
  PROVE  /\ Gapless(Noted(h, Head(q)), Tail(q))
         /\ \A a \in Conns, x \in Int :
              LastIs(h, q, a, x) => LastIs(Noted(h, Head(q)), Tail(q), a, x)
         /\ Head(q).from # None /\ h.from = Head(q).from => Head(q).n = h.n + 1
<1> DEFINE t == Tail(q)
           m == Head(q)
           g == Noted(h, m)
           \* The place in q of the i-th place of what remains.
           was(i) == IF i = 0 /\ m.from = None THEN 0 ELSE i + 1
<1>1. /\ Len(t) = Len(q) - 1 /\ Len(q) \in Nat \ {0}
      /\ \A i \in 1..Len(t) : t[i] = q[i + 1]
      /\ m = q[1]
  BY TailIs
<1> HIDE DEF t, m
<1>2. \A i \in 0..Len(t) : /\ At(g, t, i).from = At(h, q, was(i)).from
                            /\ At(g, t, i).n = At(h, q, was(i)).n
                            /\ was(i) \in 0..Len(q)
  BY <1>1 DEF At, Noted
<1>3. \A i \in 0..Len(t), j \in 0..(Len(t) + 1) :
        i < j /\ Bare(t, i + 1, j - 1) => Bare(q, was(i) + 1, j)
  <2> SUFFICES ASSUME NEW i \in 0..Len(t), NEW j \in 0..(Len(t) + 1), i < j,
                      Bare(t, i + 1, j - 1), NEW k \in (was(i) + 1)..j
               PROVE  q[k].from = None
    BY DEF Bare
  <2>1. CASE k = 1
    BY <2>1, <1>1
  <2>2. CASE k # 1
    <3>1. k - 1 \in (i + 1)..(j - 1) /\ k - 1 \in 1..Len(t)
      BY <2>2, <1>1
    <3>2. t[k - 1].from = None
      BY <3>1 DEF Bare
    <3>3. t[k - 1] = q[k]
      BY <3>1, <1>1
    <3> QED
      BY <3>2, <3>3
  <2> QED
    BY <2>1, <2>2
<1>4. Gapless(g, t)
  <2> SUFFICES ASSUME NEW i \in 0..Len(t), NEW j \in 0..Len(t), i < j, t[j].from # None,
                      At(g, t, i).from = t[j].from, Bare(t, i + 1, j - 1)
               PROVE  t[j].n = At(g, t, i).n + 1
    BY DEF Gapless
  <2>1. t[j] = q[j + 1] /\ j + 1 \in 0..Len(q) /\ was(i) \in 0..Len(q) /\ was(i) < j + 1
    BY <1>1, <1>2
  <2>2. Bare(q, was(i) + 1, (j + 1) - 1)
    BY <1>3, <1>1
  <2>3. q[j + 1].n = At(h, q, was(i)).n + 1
    BY <2>1, <2>2, <1>2 DEF Gapless
  <2> QED
    BY <2>1, <2>3, <1>2
<1>5. ASSUME NEW a \in Conns, NEW x \in Int, LastIs(h, q, a, x)
      PROVE  LastIs(g, t, a, x)
  <2> SUFFICES ASSUME NEW i \in 0..Len(t), At(g, t, i).from = a, Bare(t, i + 1, Len(t))
               PROVE  At(g, t, i).n = x
    BY DEF LastIs
  <2>1. Bare(t, i + 1, (Len(t) + 1) - 1) /\ Len(t) + 1 \in 0..(Len(t) + 1) /\ i < Len(t) + 1
    BY <1>1
  <2>2. Bare(q, was(i) + 1, Len(t) + 1)
    BY <2>1, <1>3
  <2>3. Len(t) + 1 = Len(q)
    BY <1>1
  <2>4. Bare(q, was(i) + 1, Len(q))
    BY <2>2, <2>3
  <2> QED
    BY <2>4, <1>2, <1>5 DEF LastIs
<1>6. m.from # None /\ h.from = m.from => m.n = h.n + 1
  <2>1. Bare(q, 0 + 1, 1 - 1)
    BY DEF Bare
  <2>2. 0 \in 0..Len(q) /\ 1 \in 0..Len(q) /\ At(h, q, 0) = h
    BY <1>1 DEF At
  <2> QED
    BY <2>1, <2>2, <1>1 DEF Gapless
<1> QED
  BY <1>4, <1>5, <1>6 DEF t, m

-----------------------------------------------------------------------------
(* The relay. *)

\* A handler is known to the room exactly while it sits in it.
LEMMA SeatOf ==
  ASSUME RelayShape, Seats
  PROVE  /\ Members(room) \subseteq Conns
         /\ \A c \in Conns : ContainsPeer(room, c) <=> c \in Members(room)
         /\ \A c \in Members(room) : conn[c].st = "reading" /\ conn[c].inst = room.inst
<1>1. \A p \in room.peers : p \in [id : Nat, c : Conns]
  BY DEF RelayShape
<1>2. \A c \in Members(room) : \E p \in room.peers : p.c = c
  BY DEF Members
<1>3. Members(room) \subseteq Conns
  BY <1>1, <1>2
<1>4. \A c \in Members(room) : conn[c].st = "reading" /\ conn[c].inst = room.inst
  BY <1>2 DEF Seats
<1>5. ASSUME NEW c \in Conns, ContainsPeer(room, c) PROVE c \in Members(room)
  BY <1>5 DEF ContainsPeer, Members
<1>6. ASSUME NEW c \in Members(room) PROVE ContainsPeer(room, c)
  <2>1. PICK p \in room.peers : p.c = c
    BY <1>2
  <2>2. p = [id |-> p.id, c |-> p.c] /\ p.id = conn[c].id
    BY <1>1, <2>1 DEF Seats
  <2> QED
    BY <2>1, <2>2 DEF ContainsPeer
<1> QED
  BY <1>3, <1>4, <1>5, <1>6

LEMMA PresenceIs ==
  ASSUME NEW k \in Presences
  PROVE  Presence(k) \in Messages /\ Presence(k).from = None
BY EndsAndNone DEF Presence, Presences, Messages, Kinds

\* One queue after a call of try_send.
LEMMA TrySendIs ==
  ASSUME queue \in [Conns -> Seq(Messages)], NEW cs, NEW m \in Messages
  PROVE  /\ TrySend(queue, cs, m) \in [Conns -> Seq(Messages)]
         /\ \A c \in Conns : \/ TrySend(queue, cs, m)[c] = queue[c]
                             \/ /\ c \in cs /\ Len(queue[c]) < QueueCap
                                /\ TrySend(queue, cs, m)[c] = Append(queue[c], m)
         /\ \A c \in cs \cap Conns : Len(queue[c]) < QueueCap
                                => TrySend(queue, cs, m)[c] = Append(queue[c], m)
         /\ \A c \in Conns \ cs : TrySend(queue, cs, m)[c] = queue[c]
BY AppendIs DEF TrySend

\* The queue of one end keeps what it says of records: it fits, it has no other record,
\* and streams that were whole are whole.
Follows(h, q, r) ==
  /\ Len(r) <= QueueCap
  /\ \A i \in 1..Len(r) : r[i].from # None => i \in 1..Len(q) /\ r[i] = q[i]
  /\ Gapless(h, r)
  /\ \A a \in Conns, x \in Int : LastIs(h, q, a, x) => LastIs(h, r, a, x)

LEMMA Announced ==
  ASSUME RelayInv, NEW cs, NEW k \in Presences, NEW c \in Conns
  PROVE  Follows(heard[c], queue[c], TrySend(queue, cs, Presence(k))[c])
<1>1. Presence(k) \in Messages /\ Presence(k).from = None
  BY PresenceIs
<1>2. queue \in [Conns -> Seq(Messages)] /\ queue[c] \in Seq(Messages)
  BY DEF RelayInv, RelayShape
<1>3. Len(queue[c]) <= QueueCap /\ Gapless(heard[c], queue[c])
  BY DEF RelayInv, Origins, Streams
<1>4. QueueCap \in Nat /\ Len(queue[c]) \in Nat
  BY <1>2, RoomAssumption
<1>5. CASE TrySend(queue, cs, Presence(k))[c] = queue[c]
  BY <1>5, <1>3 DEF Follows
<1>6. CASE /\ Len(queue[c]) < QueueCap
           /\ TrySend(queue, cs, Presence(k))[c] = Append(queue[c], Presence(k))
  <2> DEFINE r == Append(queue[c], Presence(k))
  <2>1. /\ Len(r) = Len(queue[c]) + 1
        /\ \A i \in 1..Len(queue[c]) : r[i] = queue[c][i]
        /\ r[Len(queue[c]) + 1].from = None
    BY <1>1, <1>2, AppendIs
  <2>2. /\ Gapless(heard[c], r)
        /\ \A a \in Conns, x \in Int :
             LastIs(heard[c], queue[c], a, x) => LastIs(heard[c], r, a, x)
    BY <1>1, <1>2, <1>3, PresenceFollows
  <2> HIDE DEF r
  <2>3. Len(r) <= QueueCap
    BY <2>1, <1>4, <1>6
  <2>4. \A i \in 1..Len(r) : r[i].from # None => i \in 1..Len(queue[c]) /\ r[i] = queue[c][i]
    BY <2>1, <1>4
  <2>5. Follows(heard[c], queue[c], r)
    BY <2>2, <2>3, <2>4 DEF Follows
  <2> QED
    BY <2>5, <1>6 DEF r
<1> QED
  BY <1>1, <1>2, <1>5, <1>6, TrySendIs

\* A numbered line has a number to forward next.
LEMMA ForwardedIs ==
  ASSUME RelayShape, NEW a \in Conns
  PROVE  Forwarded(a) \in Int /\ up[a] \in Seq(Messages) /\ Len(up[a]) \in Nat
         /\ conn[a].sent \in Nat
BY DEF RelayShape, Forwarded

\* What is left of the invariant when the queues only follow: used by the actions in
\* which no record moves.
LEMMA StaysOrderly ==
  ASSUME RelayInv, RelayShape', Seats', heard' = heard,
         \A c \in Conns : Follows(heard[c], queue[c], queue'[c]) \/ queue'[c] = <<>>,
         \A c \in Members(room)' : Follows(heard[c], queue[c], queue'[c]),
         Members(room)' \subseteq Members(room),
         \A c \in Conns : /\ conn'[c].inst = conn[c].inst
                          /\ conn'[c].st = "unused" <=> conn[c].st = "unused",
         \A c \in Members(room)' : ~ conn'[c].silent =>
           ~ conn[c].silent /\ Forwarded(c)' = Forwarded(c)
  PROVE  Origins' /\ Streams'
<1> USE DEF RelayInv
<1>1. Members(room)' \subseteq Conns /\ Members(room) \subseteq Conns
  BY SeatOf
<1>2. ASSUME NEW c \in Conns PROVE Gapless(heard'[c], queue'[c])
  <2>1. CASE queue'[c] = <<>>
    BY <2>1 DEF Gapless
  <2>2. CASE Follows(heard[c], queue[c], queue'[c])
    BY <2>2 DEF Follows
  <2> QED
    BY <2>1, <2>2
<1>3. ASSUME NEW a \in Members(room)', NEW c \in Members(room)', a # c, ~ conn'[a].silent
      PROVE  LastIs(heard'[c], queue'[c], a, Forwarded(a)')
  <2>1. a \in Conns /\ c \in Conns /\ a \in Members(room) /\ c \in Members(room)
    BY <1>1
  <2>2. ~ conn[a].silent /\ Forwarded(a)' = Forwarded(a)
    BY <1>3
  <2>3. LastIs(heard[c], queue[c], a, Forwarded(a))
    BY <2>1, <2>2, <1>3 DEF Streams
  <2>4. Forwarded(a) \in Int
    BY <2>1, ForwardedIs
  <2> QED
    BY <2>1, <2>2, <2>3, <2>4 DEF Follows
<1>4. Streams'
  BY <1>1, <1>2, <1>3 DEF Streams
<1>5. ASSUME NEW c \in Conns
      PROVE  /\ Len(queue'[c]) <= QueueCap
             /\ \A i \in 1..Len(queue'[c]) : queue'[c][i].from # None =>
                  /\ conn'[queue'[c][i].from].st # "unused"
                  /\ conn'[queue'[c][i].from].inst = conn'[c].inst
             /\ Held(heard[c].from)'
  <2>1. CASE queue'[c] = <<>>
    <3>1. heard[c].from \in Conns \/ heard[c].from = None
      BY DEF RelayShape, Ends
    <3> QED
      BY <2>1, <3>1, RoomAssumption DEF Origins, Held
  <2>2. CASE Follows(heard[c], queue[c], queue'[c])
    <3>1. \A i \in 1..Len(queue[c]) : queue[c][i].from \in Conns \/ queue[c][i].from = None
      <4>1. queue[c] \in Seq(Messages)
        BY DEF RelayShape
      <4>2. \A i \in 1..Len(queue[c]) : queue[c][i] \in Messages
        BY <4>1
      <4> QED
        BY <4>2 DEF Messages, Ends
    <3>2. heard[c].from \in Conns \/ heard[c].from = None
      BY DEF RelayShape, Ends
    <3> QED
      BY <2>2, <3>1, <3>2 DEF Follows, Origins, Held
  <2> QED
    BY <2>1, <2>2
<1>6. Origins'
  BY <1>5 DEF Origins, Held
<1> QED
  BY <1>4, <1>6

\* A queue that stays as it is follows itself.
LEMMA Unmoved ==
  ASSUME RelayInv, NEW c \in Conns
  PROVE  Follows(heard[c], queue[c], queue[c])
BY DEF RelayInv, Origins, Streams, Follows

\* The first record of a line is taken off it.
LEMMA LineMoves ==
  ASSUME RelayShape, Lines, NEW c \in Conns, up[c] # <<>>, up' = [up EXCEPT ![c] = Tail(@)],
         conn' = conn
  PROVE  /\ up' \in [Conns -> Seq(Messages)] /\ Lines'
         /\ Head(up[c]) \in Messages /\ Head(up[c]).from = c
         /\ Head(up[c]).n = Forwarded(c) + 1 /\ ~ conn[c].silent
         /\ Forwarded(c)' = Forwarded(c) + 1
         /\ \A d \in Conns \ {c} : Forwarded(d)' = Forwarded(d) /\ up'[d] = up[d]
<1> DEFINE q == up[c]
<1>1. q \in Seq(Messages) /\ conn[c].sent \in Nat /\ up \in [Conns -> Seq(Messages)]
  BY DEF RelayShape
<1>2. /\ Tail(q) \in Seq(Messages) /\ Len(Tail(q)) = Len(q) - 1 /\ Len(q) \in Nat \ {0}
      /\ \A i \in 1..Len(Tail(q)) : Tail(q)[i] = q[i + 1]
      /\ Head(q) = q[1] /\ Head(q) \in Messages
  BY <1>1, TailIs
<1>3. /\ up' \in [Conns -> Seq(Messages)] /\ up'[c] = Tail(q)
      /\ \A d \in Conns \ {c} : up'[d] = up[d]
  BY <1>1, <1>2
<1>4. Head(q).from = c /\ Head(q).n = conn[c].sent - Len(q) + 1 /\ ~ conn[c].silent
  BY <1>2 DEF Lines
<1>5. Forwarded(c)' = Forwarded(c) + 1
  BY <1>1, <1>2, <1>3 DEF Forwarded
<1>6. \A d \in Conns \ {c} : Forwarded(d)' = Forwarded(d)
  BY <1>3 DEF Forwarded
<1>7. Lines'
  <2> SUFFICES ASSUME NEW d \in Conns
               PROVE  /\ conn[d].silent => up'[d] = <<>>
                      /\ \A i \in 1..Len(up'[d]) :
                           /\ up'[d][i].from = d
                           /\ up'[d][i].n = conn[d].sent - Len(up'[d]) + i
    BY DEF Lines
  <2>1. CASE d # c
    BY <2>1, <1>3 DEF Lines
  <2>2. CASE d = c
    <3>1. ASSUME NEW i \in 1..Len(Tail(q))
          PROVE  /\ Tail(q)[i].from = c
                 /\ Tail(q)[i].n = conn[c].sent - Len(Tail(q)) + i
      <4>1. i + 1 \in 1..Len(q) /\ Tail(q)[i] = q[i + 1]
        BY <1>2
      <4>2. q[i + 1].from = c /\ q[i + 1].n = conn[c].sent - Len(q) + (i + 1)
        BY <4>1 DEF Lines
      <4>3. conn[c].sent \in Int /\ Len(q) \in Int /\ i \in Int
        BY <1>1, <1>2
      <4>4. conn[c].sent - Len(q) + (i + 1) = conn[c].sent - (Len(q) - 1) + i
        BY <4>3
      <4> QED
        BY <4>1, <4>2, <4>4, <1>2
    <3> QED
      BY <2>2, <3>1, <1>3, <1>4
  <2> QED
    BY <2>1, <2>2
<1> QED
  BY <1>1, <1>2, <1>3, <1>4, <1>5, <1>6, <1>7 DEF Forwarded

LEMMA ForwardKeeps ==
  ASSUME RelayInv, NEW c \in Conns, Forward(c)
  PROVE  RelayInv'
<1> USE DEF RelayInv
<1> DEFINE m == Head(up[c])
<1>0. UNCHANGED <<room, conn, heard>> /\ up[c] # <<>> /\ up' = [up EXCEPT ![c] = Tail(@)]
      /\ queue' = TrySend(queue, Targets(c), m) /\ conn[c].st = "reading"
      /\ \A d \in Targets(c) : Len(queue[d]) < QueueCap
  BY DEF Forward
<1>1. /\ up' \in [Conns -> Seq(Messages)] /\ Lines'
      /\ m \in Messages /\ m.from = c
      /\ m.n = Forwarded(c) + 1 /\ ~ conn[c].silent
      /\ Forwarded(c)' = Forwarded(c) + 1
      /\ \A d \in Conns \ {c} : Forwarded(d)' = Forwarded(d) /\ up'[d] = up[d]
  BY <1>0, LineMoves
<1>2. Forwarded(c) \in Int
  BY ForwardedIs
<1> HIDE DEF m
<1>3. /\ Targets(c) = IF c \in Members(room) THEN Members(room) \ {c} ELSE {}
      /\ Members(room) \subseteq Conns /\ Members(room)' = Members(room)
  BY <1>0, SeatOf DEF Targets, Members
<1>4. queue \in [Conns -> Seq(Messages)]
  BY DEF RelayShape
<1>5. /\ queue' \in [Conns -> Seq(Messages)]
      /\ \A d \in Targets(c) : queue'[d] = Append(queue[d], m)
      /\ \A d \in Conns \ Targets(c) : queue'[d] = queue[d]
  <2>1. Targets(c) \subseteq Conns
    BY <1>3
  <2>2. /\ TrySend(queue, Targets(c), m) \in [Conns -> Seq(Messages)]
        /\ \A d \in Targets(c) \cap Conns : Len(queue[d]) < QueueCap
             => TrySend(queue, Targets(c), m)[d] = Append(queue[d], m)
        /\ \A d \in Conns \ Targets(c) : TrySend(queue, Targets(c), m)[d] = queue[d]
    BY <1>1, <1>4, TrySendIs
  <2> QED
    BY <2>1, <2>2, <1>0
<1>6. RelayShape' /\ Seats'
  BY <1>0, <1>1, <1>5 DEF RelayShape, Seats
<1>7. Fresh'
  <2>1. \A d \in Targets(c) : conn[d].st = "reading"
    BY <1>3, SeatOf
  <2> QED
    BY <1>0, <1>1, <1>5, <2>1 DEF Fresh
<1>8. ASSUME NEW d \in Targets(c)
      PROVE  /\ d \in Conns /\ d \in Members(room) /\ c \in Members(room) /\ d # c
             /\ Len(queue'[d]) = Len(queue[d]) + 1 /\ Len(queue[d]) \in Nat
             /\ Len(queue[d]) < QueueCap
             /\ \A i \in 1..Len(queue[d]) : queue'[d][i] = queue[d][i]
             /\ queue'[d][Len(queue[d]) + 1] = m
             /\ Gapless(heard[d], queue'[d])
             /\ LastIs(heard[d], queue'[d], c, Forwarded(c) + 1)
             /\ \A a \in Conns, x \in Int : a # c => LastIs(heard[d], queue'[d], a, x)
  <2>1. d \in Conns /\ d \in Members(room) /\ c \in Members(room) /\ d # c
    BY <1>3
  <2>2. queue[d] \in Seq(Messages) /\ queue'[d] = Append(queue[d], m)
    BY <2>1, <1>4, <1>5
  <2>3. LastIs(heard[d], queue[d], m.from, m.n - 1)
    <3>1. LastIs(heard[d], queue[d], c, Forwarded(c))
      BY <2>1, <1>1 DEF Streams
    <3>2. m.n - 1 = Forwarded(c)
      BY <1>1, <1>2
    <3> QED
      BY <3>1, <3>2, <1>1
  <2>4. \A i \in 0..Len(queue[d]) : At(heard[d], queue[d], i).n \in Nat
    <3>1. heard[d].n \in Nat
      BY <2>1 DEF RelayShape
    <3>2. \A i \in 1..Len(queue[d]) : queue[d][i] \in Messages
      BY <2>2
    <3> QED
      BY <3>1, <3>2 DEF At, Messages
  <2>5. m.from # None
    BY <1>1, EndsAndNone
  <2>6. Gapless(heard[d], queue[d])
    BY <2>1 DEF Streams
  <2>7. /\ Gapless(heard[d], Append(queue[d], m))
        /\ LastIs(heard[d], Append(queue[d], m), m.from, m.n)
        /\ \A a \in Conns, x \in Int : a # m.from => LastIs(heard[d], Append(queue[d], m), a, x)
    BY <2>2, <2>3, <2>4, <2>5, <2>6, <1>1, RecordFollows
  <2>8. /\ Len(queue'[d]) = Len(queue[d]) + 1 /\ Len(queue[d]) \in Nat
        /\ \A i \in 1..Len(queue[d]) : queue'[d][i] = queue[d][i]
        /\ queue'[d][Len(queue[d]) + 1] = m
    BY <2>2, <1>1, AppendIs
  <2> QED
    BY <2>1, <2>2, <2>7, <2>8, <1>0, <1>1
<1>9. Origins'
  <2> SUFFICES ASSUME NEW d \in Conns
               PROVE  /\ Len(queue'[d]) <= QueueCap
                      /\ \A i \in 1..Len(queue'[d]) : queue'[d][i].from # None =>
                           /\ conn[queue'[d][i].from].st # "unused"
                           /\ conn[queue'[d][i].from].inst = conn[d].inst
    BY <1>0 DEF Origins, Held
  <2>1. CASE d \notin Targets(c)
    BY <2>1, <1>5 DEF Origins
  <2>2. CASE d \in Targets(c)
    <3>1. conn[c].inst = conn[d].inst
      BY <2>2, <1>8, SeatOf
    <3>2. Len(queue'[d]) <= QueueCap
      BY <2>2, <1>8, RoomAssumption
    <3>3. \A i \in 1..Len(queue'[d]) : i \in 1..Len(queue[d]) \/ i = Len(queue[d]) + 1
      BY <2>2, <1>8
    <3>4. \A i \in 1..Len(queue[d]) : queue[d][i].from # None =>
            /\ conn[queue[d][i].from].st # "unused"
            /\ conn[queue[d][i].from].inst = conn[d].inst
      BY DEF Origins
    <3>5. ASSUME NEW i \in 1..Len(queue'[d]), queue'[d][i].from # None
          PROVE  /\ conn[queue'[d][i].from].st # "unused"
                 /\ conn[queue'[d][i].from].inst = conn[d].inst
      <4>1. CASE i \in 1..Len(queue[d])
        BY <4>1, <3>4, <3>5, <2>2, <1>8
      <4>2. CASE i = Len(queue[d]) + 1
        <5>1. queue'[d][i].from = c
          BY <4>2, <2>2, <1>1, <1>8
        <5> QED
          BY <5>1, <3>1, <1>0
      <4> QED
        BY <4>1, <4>2, <3>3
    <3> QED
      BY <3>2, <3>5
  <2> QED
    BY <2>1, <2>2
<1>10. ASSUME NEW d \in Conns PROVE Gapless(heard[d], queue'[d])
  <2>1. CASE d \in Targets(c)
    BY <2>1, <1>8
  <2>2. CASE d \notin Targets(c)
    BY <2>2, <1>5 DEF Streams
  <2> QED
    BY <2>1, <2>2
<1>11. ASSUME NEW a \in Conns, NEW d \in Conns, a \in Members(room), d \in Members(room),
              a # d, ~ conn[a].silent
       PROVE  LastIs(heard[d], queue'[d], a, Forwarded(a)')
  <2>1. CASE d \in Targets(c) /\ a = c
    BY <2>1, <1>8, <1>1
  <2>2. CASE d \in Targets(c) /\ a # c
    <3>1. Forwarded(a)' = Forwarded(a) /\ Forwarded(a) \in Int
      BY <2>2, <1>1, ForwardedIs
    <3> QED
      BY <2>2, <3>1, <1>8
  <2>3. CASE d \notin Targets(c)
    <3>1. a # c /\ queue'[d] = queue[d]
      BY <2>3, <1>3, <1>5, <1>11
    <3>2. Forwarded(a)' = Forwarded(a)
      BY <3>1, <1>1
    <3> QED
      BY <3>1, <3>2, <1>11 DEF Streams
  <2> QED
    BY <2>1, <2>2, <2>3
<1>12. Streams'
  BY <1>0, <1>3, <1>10, <1>11 DEF Streams
<1> QED
  BY <1>1, <1>6, <1>7, <1>9, <1>12

LEMMA NoRoomIs ==
  /\ NoRoom \in [open : BOOLEAN, peers : SUBSET [id : Nat, c : Conns], next : Nat, inst : Nat]
  /\ NoRoom.open = FALSE /\ NoRoom.peers = {} /\ IsFiniteSet(NoRoom.peers)
  /\ Cardinality(NoRoom.peers) <= 2 /\ Members(NoRoom) = {}
<1>1. IsFiniteSet({}) /\ Cardinality({}) <= 2
  BY FS_EmptySet
<1> QED
  BY <1>1 DEF NoRoom, Members

LEMMA OverflowKeeps ==
  ASSUME RelayInv, NEW c \in Conns, Overflow(c)
  PROVE  RelayInv'
<1> USE DEF RelayInv
<1>0. UNCHANGED <<queue, conn, heard>> /\ up[c] # <<>> /\ up' = [up EXCEPT ![c] = Tail(@)]
      /\ room' = NoRoom
  BY DEF Overflow
<1>1. /\ up' \in [Conns -> Seq(Messages)] /\ Lines'
      /\ \A d \in Conns \ {c} : up'[d] = up[d]
  BY <1>0, LineMoves
<1>2. RelayShape'
  BY <1>0, <1>1, NoRoomIs DEF RelayShape
<1>3. Seats' /\ Members(room)' = {}
  BY <1>0, NoRoomIs DEF Seats
<1>4. Fresh'
  BY <1>0, <1>1 DEF Fresh
<1>5. Origins' /\ Streams'
  BY <1>0, <1>2, <1>3, Unmoved, StaysOrderly
<1> QED
  BY <1>1, <1>2, <1>3, <1>4, <1>5

LEMMA RemovePeerKeeps ==
  ASSUME RelayInv, NEW c \in Conns, RemovePeer(c)
  PROVE  /\ RelayInv' /\ \A d \in Conns : conn'[d].st = "unused" => conn[d].st = "unused"
<1> USE DEF RelayInv
<1> DEFINE rest == {p \in room.peers : p.id # conn[c].id}
           ours == ContainsPeer(room, c)
           told == IF ours THEN TrySend(queue, {p.c : p \in rest}, Presence("disconnected"))
                   ELSE queue
<1>0. /\ conn' = [conn EXCEPT ![c].st = "done"] /\ up' = [up EXCEPT ![c] = <<>>]
      /\ conn[c].st = "reading" /\ heard' = heard
      /\ room' = IF ~ ours THEN room ELSE IF rest = {} THEN NoRoom ELSE [room EXCEPT !.peers = rest]
      /\ queue' = IF ours THEN [told EXCEPT ![c] = <<>>] ELSE queue
  BY DEF RemovePeer
<1>1. told \in [Conns -> Seq(Messages)] /\ \A d \in Conns : Follows(heard[d], queue[d], told[d])
  <2>1. "disconnected" \in Presences
    BY DEF Presences
  <2>2. queue \in [Conns -> Seq(Messages)]
    BY DEF RelayShape
  <2>3. TrySend(queue, {p.c : p \in rest}, Presence("disconnected")) \in [Conns -> Seq(Messages)]
    BY <2>1, <2>2, PresenceIs, TrySendIs
  <2>4. \A d \in Conns : Follows(heard[d], queue[d],
                                 TrySend(queue, {p.c : p \in rest}, Presence("disconnected"))[d])
    BY <2>1, Announced
  <2> QED
    BY <2>2, <2>3, <2>4, Unmoved
<1>2. rest \subseteq room.peers /\ ours \in BOOLEAN
  BY DEF ContainsPeer
<1>3. \A p \in rest : p.c # c /\ p.c \in Conns
  BY DEF Seats, RelayShape
<1>4. /\ conn' \in [Conns -> [st : Steps, id : Nat, inst : Nat, sent : Nat, silent : BOOLEAN]]
      /\ \A d \in Conns \ {c} : conn'[d] = conn[d]
      /\ conn'[c].st = "done" /\ conn'[c].inst = conn[c].inst
      /\ conn'[c].silent = conn[c].silent /\ conn'[c].sent = conn[c].sent
  BY <1>0 DEF RelayShape, Steps
<1>5. /\ up' \in [Conns -> Seq(Messages)] /\ up'[c] = <<>>
      /\ \A d \in Conns \ {c} : up'[d] = up[d]
  BY <1>0 DEF RelayShape
<1>6. queue' \in [Conns -> Seq(Messages)]
  <2>1. CASE ours
    BY <2>1, <1>0, <1>1
  <2>2. CASE ~ ours
    BY <2>2, <1>0 DEF RelayShape
  <2> QED
    BY <2>1, <2>2
<1>7. \A d \in Conns : \/ Follows(heard[d], queue[d], queue'[d])
                       \/ d = c /\ ours /\ queue'[d] = <<>>
  <2>1. CASE ours
    BY <2>1, <1>0, <1>1
  <2>2. CASE ~ ours
    BY <2>2, <1>0, Unmoved
  <2> QED
    BY <2>1, <2>2
<1>8. /\ room' \in [open : BOOLEAN, peers : SUBSET [id : Nat, c : Conns], next : Nat, inst : Nat]
      /\ room'.peers = IF ours THEN rest ELSE room.peers
      /\ room'.open = (room'.peers # {})
      /\ room'.peers # {} => room'.inst = room.inst
  <2>1. room \in [open : BOOLEAN, peers : SUBSET [id : Nat, c : Conns], next : Nat, inst : Nat]
        /\ room.open = (room.peers # {})
    BY DEF RelayShape, Seats
  <2>2. CASE ~ ours
    BY <2>1, <2>2, <1>0
  <2>3. CASE ours /\ rest = {}
    BY <2>1, <2>3, <1>0 DEF NoRoom
  <2>4. CASE ours /\ rest # {}
    <3>1. room.open = TRUE
      BY <2>1, <2>4
    <3> QED
      BY <2>1, <2>4, <3>1, <1>0, <1>2
  <2> QED
    BY <2>2, <2>3, <2>4
<1> HIDE DEF rest, told
<1>9. c \notin Members(room)'
  <2>1. CASE ours
    BY <2>1, <1>3, <1>8 DEF Members
  <2>2. CASE ~ ours
    <3>1. c \notin Members(room)
      BY <2>2, SeatOf
    <3> QED
      BY <2>2, <3>1, <1>8 DEF Members
  <2> QED
    BY <2>1, <2>2
<1>10. Members(room)' \subseteq Members(room) /\ room'.peers \subseteq room.peers
  BY <1>2, <1>8 DEF Members
<1>11. RelayShape'
  BY <1>0, <1>4, <1>5, <1>6, <1>8 DEF RelayShape
<1>12. Seats'
  <2>1. IsFiniteSet(room'.peers) /\ Cardinality(room'.peers) <= 2
    <3>1. IsFiniteSet(room.peers) /\ Cardinality(room.peers) <= 2
      BY DEF Seats
    <3>2. IsFiniteSet(room'.peers) /\ Cardinality(room'.peers) <= Cardinality(room.peers)
      BY <3>1, <1>10, FS_Subset
    <3>3. Cardinality(room'.peers) \in Nat /\ Cardinality(room.peers) \in Nat
      BY <3>1, <3>2, FS_CardinalityType
    <3> QED
      BY <3>1, <3>2, <3>3
  <2>2. \A p \in room'.peers : /\ p.id = conn'[p.c].id /\ conn'[p.c].st = "reading"
                                /\ conn'[p.c].inst = room'.inst
    <3> SUFFICES ASSUME NEW p \in room'.peers
                 PROVE  /\ p.id = conn'[p.c].id /\ conn'[p.c].st = "reading"
                        /\ conn'[p.c].inst = room'.inst
      OBVIOUS
    <3>1. p \in room.peers /\ p.c \in Conns /\ p.c # c /\ room'.inst = room.inst
      BY <1>8, <1>9, <1>10 DEF RelayShape, Members
    <3> QED
      BY <3>1, <1>4 DEF Seats
  <2> QED
    BY <2>1, <2>2, <1>8 DEF Seats
<1>13. Lines'
  <2> SUFFICES ASSUME NEW d \in Conns
               PROVE  /\ conn'[d].silent => up'[d] = <<>>
                      /\ \A i \in 1..Len(up'[d]) :
                           /\ up'[d][i].from = d
                           /\ up'[d][i].n = conn'[d].sent - Len(up'[d]) + i
    BY DEF Lines
  <2>1. CASE d # c
    <3>1. conn'[d] = conn[d] /\ up'[d] = up[d]
      BY <2>1, <1>4, <1>5
    <3>2. /\ conn[d].silent => up[d] = <<>>
          /\ \A i \in 1..Len(up[d]) : /\ up[d][i].from = d
                                       /\ up[d][i].n = conn[d].sent - Len(up[d]) + i
      BY DEF Lines
    <3> QED
      BY <3>1, <3>2
  <2>2. CASE d = c
    BY <2>2, <1>5
  <2> QED
    BY <2>1, <2>2
<1>14. Fresh'
  <2> SUFFICES ASSUME NEW d \in Conns, conn'[d].st = "unused"
               PROVE  up'[d] = <<>> /\ queue'[d] = <<>> /\ heard[d].from = None
    BY <1>0 DEF Fresh
  <2>1. d # c /\ conn[d].st = "unused"
    BY <1>4
  <2>2. Follows(heard[d], queue[d], queue'[d])
    BY <2>1, <1>7
  <2>3. d \notin {p.c : p \in rest}
    BY <2>1, <1>2 DEF Seats
  <2>4. queue'[d] = queue[d]
    <3>1. queue \in [Conns -> Seq(Messages)] /\ "disconnected" \in Presences
      BY DEF RelayShape, Presences
    <3> QED
      BY <3>1, <2>1, <2>3, <1>0, PresenceIs, TrySendIs DEF told
  <2> QED
    BY <2>1, <2>4, <1>5 DEF Fresh
<1>15. \A d \in Members(room)' : ~ conn'[d].silent => ~ conn[d].silent /\ Forwarded(d)' = Forwarded(d)
  <2>1. \A d \in Members(room)' : d \in Conns \ {c}
    BY <1>9, <1>10, SeatOf
  <2> QED
    BY <2>1, <1>4, <1>5 DEF Forwarded
<1>16. Origins' /\ Streams'
  <2>1. \A d \in Members(room)' : Follows(heard[d], queue[d], queue'[d])
    BY <1>7, <1>9, <1>10, SeatOf
  <2>2. \A d \in Conns : /\ conn'[d].inst = conn[d].inst
                         /\ conn'[d].st = "unused" <=> conn[d].st = "unused"
    BY <1>0, <1>4
  <2>3. \A d \in Conns : Follows(heard[d], queue[d], queue'[d]) \/ queue'[d] = <<>>
    BY <1>7
  <2> QED
    BY <2>1, <2>2, <2>3, <1>0, <1>10, <1>11, <1>12, <1>15, StaysOrderly
<1> QED
  BY <1>4, <1>11, <1>12, <1>13, <1>14, <1>16

LEMMA ReapKeeps ==
  ASSUME RelayInv, Reap
  PROVE  RelayInv'
<1> USE DEF RelayInv
<1>0. /\ queue' = TrySend(queue, Members(room), Presence("timeout")) /\ room' = NoRoom
      /\ UNCHANGED <<conn, up, heard>> /\ "timeout" \in Presences
  BY DEF Reap, Presences
<1>1. queue' \in [Conns -> Seq(Messages)]
  <2>1. queue \in [Conns -> Seq(Messages)]
    BY DEF RelayShape
  <2> QED
    BY <2>1, <1>0, PresenceIs, TrySendIs
<1>2. RelayShape'
  BY <1>0, <1>1, NoRoomIs DEF RelayShape
<1>3. Seats' /\ Members(room)' = {}
  BY <1>0, NoRoomIs DEF Seats
<1>4. \A c \in Conns : Follows(heard[c], queue[c], queue'[c])
  BY <1>0, Announced
<1>5. \A c \in Conns : conn[c].st = "unused" => queue'[c] = queue[c]
  <2>1. \A c \in Conns : conn[c].st = "unused" => c \notin Members(room)
    BY SeatOf
  <2>2. queue \in [Conns -> Seq(Messages)]
    BY DEF RelayShape
  <2> QED
    BY <2>1, <2>2, <1>0, PresenceIs, TrySendIs
<1>6. Fresh' /\ Lines'
  BY <1>0, <1>5 DEF Fresh, Lines
<1>7. Origins' /\ Streams'
  BY <1>0, <1>2, <1>3, <1>4, StaysOrderly
<1> QED
  BY <1>2, <1>3, <1>6, <1>7

LEMMA CutKeeps ==
  ASSUME RelayInv, NEW c \in Conns, Cut(c)
  PROVE  /\ RelayInv' /\ \A d \in Conns : conn'[d].st = "unused" => conn[d].st = "unused"
<1> USE DEF RelayInv
<1>0. /\ conn' = [conn EXCEPT ![c].silent = TRUE] /\ up' = [up EXCEPT ![c] = <<>>]
      /\ UNCHANGED <<room, queue, heard>> /\ conn[c].st = "reading"
  BY DEF Cut
<1>1. /\ conn' \in [Conns -> [st : Steps, id : Nat, inst : Nat, sent : Nat, silent : BOOLEAN]]
      /\ \A d \in Conns \ {c} : conn'[d] = conn[d]
      /\ conn'[c].st = conn[c].st /\ conn'[c].inst = conn[c].inst
      /\ conn'[c].id = conn[c].id /\ conn'[c].silent = TRUE
  BY <1>0 DEF RelayShape
<1>2. /\ up' \in [Conns -> Seq(Messages)] /\ up'[c] = <<>>
      /\ \A d \in Conns \ {c} : up'[d] = up[d]
  BY <1>0 DEF RelayShape
<1>3. RelayShape'
  BY <1>0, <1>1, <1>2 DEF RelayShape
<1>4. Seats'
  <2>1. \A p \in room.peers : p.c \in Conns
    BY DEF RelayShape
  <2>2. \A d \in Conns : /\ conn'[d].id = conn[d].id /\ conn'[d].st = conn[d].st
                         /\ conn'[d].inst = conn[d].inst
    BY <1>1
  <2> QED
    BY <2>1, <2>2, <1>0 DEF Seats
<1>5. Lines'
  <2> SUFFICES ASSUME NEW d \in Conns
               PROVE  /\ conn'[d].silent => up'[d] = <<>>
                      /\ \A i \in 1..Len(up'[d]) :
                           /\ up'[d][i].from = d
                           /\ up'[d][i].n = conn'[d].sent - Len(up'[d]) + i
    BY DEF Lines
  <2>1. CASE d # c
    <3>1. conn'[d] = conn[d] /\ up'[d] = up[d]
      BY <2>1, <1>1, <1>2
    <3>2. /\ conn[d].silent => up[d] = <<>>
          /\ \A i \in 1..Len(up[d]) : /\ up[d][i].from = d
                                       /\ up[d][i].n = conn[d].sent - Len(up[d]) + i
      BY DEF Lines
    <3> QED
      BY <3>1, <3>2
  <2>2. CASE d = c
    BY <2>2, <1>2
  <2> QED
    BY <2>1, <2>2
<1>6. Fresh'
  BY <1>0, <1>1, <1>2 DEF Fresh
<1>7. \A d \in Members(room)' : ~ conn'[d].silent => ~ conn[d].silent /\ Forwarded(d)' = Forwarded(d)
  <2>1. \A d \in Members(room)' : d \in Conns
    BY <1>0, SeatOf DEF Members
  <2>2. \A d \in Conns : ~ conn'[d].silent => d # c
    BY <1>1
  <2> QED
    BY <2>1, <2>2, <1>1, <1>2 DEF Forwarded
<1>8. Origins' /\ Streams'
  <2>1. \A d \in Conns : Follows(heard[d], queue[d], queue'[d])
    BY <1>0, Unmoved
  <2>2. Members(room)' \subseteq Conns /\ Members(room)' \subseteq Members(room)
    BY <1>0, SeatOf DEF Members
  <2>3. \A d \in Conns : /\ conn'[d].inst = conn[d].inst
                         /\ conn'[d].st = "unused" <=> conn[d].st = "unused"
    BY <1>1
  <2> QED
    BY <2>1, <2>2, <2>3, <1>0, <1>3, <1>4, <1>7, StaysOrderly
<1> QED
  BY <1>1, <1>3, <1>4, <1>5, <1>6, <1>8

\* A connection joins: it has carried nothing, so it inherits nothing.
LEMMA JoinKeeps ==
  ASSUME RelayInv, used.insts \in Nat, NEW c \in Conns, NEW id \in 0..MaxConns, Join(c, id),
         up' = up, heard' = heard
  PROVE  /\ RelayInv'
         /\ \A d \in Conns : conn'[d].st = "unused" => conn[d].st = "unused"
         /\ conn'[c].st # "unused"
         /\ \E n \in Nat : used' = [used EXCEPT !.insts = n]
<1> USE DEF RelayInv
<1> DEFINE fresh == [open |-> TRUE, peers |-> {[id |-> 0, c |-> c]}, next |-> 1,
                     inst |-> used.insts + 1]
           more  == [room EXCEPT !.peers = @ \cup {[id |-> id, c |-> c]}, !.next = @ + 1]
           r     == IF room.open THEN more ELSE fresh
           told  == IF Cardinality(r.peers) = 2 THEN "connected" ELSE "waiting"
<1>0. /\ conn[c].st = "unused" /\ room' = r
      /\ IF room.open THEN Cardinality(room.peers) < 2 /\ id = room.next ELSE id = 0
      /\ conn' = [conn EXCEPT ![c] = [Unused EXCEPT !.st = "reading", !.id = id, !.inst = r.inst]]
      /\ queue' = TrySend(queue, Members(r), Presence(told))
      /\ used' = [used EXCEPT !.insts = IF room.open THEN @ ELSE @ + 1]
  BY DEF Join
<1>1. told \in Presences
  BY DEF Presences
<1>2. id \in Nat /\ room \in [open : BOOLEAN, peers : SUBSET [id : Nat, c : Conns],
                               next : Nat, inst : Nat]
  BY RoomAssumption DEF RelayShape
<1>3. /\ r \in [open : BOOLEAN, peers : SUBSET [id : Nat, c : Conns], next : Nat, inst : Nat]
      /\ r.open = TRUE /\ r.inst \in Nat
      /\ r.peers = room.peers \cup {[id |-> id, c |-> c]}
      /\ room.peers # {} => r.inst = room.inst
  <2>1. CASE room.open
    <3>1. r = more
      BY <2>1
    <3>2. /\ more.open = room.open /\ more.next = room.next + 1 /\ more.inst = room.inst
          /\ more.peers = room.peers \cup {[id |-> id, c |-> c]}
      BY <1>2
    <3>4. [id |-> id, c |-> c] \in [id : Nat, c : Conns]
      BY <1>2
    <3>5. more \in [open : BOOLEAN, peers : SUBSET [id : Nat, c : Conns], next : Nat, inst : Nat]
      <4> DEFINE more2 == [room EXCEPT !.peers = room.peers \cup {[id |-> id, c |-> c]}]
      <4>1. room.peers \cup {[id |-> id, c |-> c]} \in SUBSET [id : Nat, c : Conns]
        BY <3>4, <1>2
      <4>2. more2 \in [open : BOOLEAN, peers : SUBSET [id : Nat, c : Conns], next : Nat,
                       inst : Nat]
        BY <4>1, <1>2
      <4>3. more = [more2 EXCEPT !.next = room.next + 1]
        OBVIOUS
      <4>4. room.next + 1 \in Nat
        BY <1>2
      <4> HIDE DEF more, more2
      <4> QED
        BY <4>2, <4>3, <4>4
    <3> HIDE DEF more
    <3> QED
      BY <3>1, <3>2, <3>5, <2>1, <1>2
  <2>2. CASE ~ room.open
    <3>1. room.peers = {} /\ id = 0
      BY <2>2, <1>0 DEF Seats
    <3> QED
      BY <2>2, <3>1
  <2> QED
    BY <2>1, <2>2
<1> HIDE DEF r
<1>4. /\ conn'[c].st = "reading" /\ conn'[c].id = id /\ conn'[c].inst = r.inst
      /\ conn'[c].sent = 0 /\ conn'[c].silent = FALSE
      /\ conn' \in [Conns -> [st : Steps, id : Nat, inst : Nat, sent : Nat, silent : BOOLEAN]]
      /\ \A d \in Conns \ {c} : conn'[d] = conn[d]
  BY <1>0, <1>2, <1>3 DEF RelayShape, Unused, Steps
<1>5. queue \in [Conns -> Seq(Messages)]
  BY DEF RelayShape
<1>6. /\ queue' \in [Conns -> Seq(Messages)]
      /\ \A d \in Conns \ Members(r) : queue'[d] = queue[d]
  BY <1>0, <1>1, <1>5, PresenceIs, TrySendIs
<1>7. \A d \in Conns : Follows(heard[d], queue[d], queue'[d])
  BY <1>0, <1>1, Announced
<1>8. RelayShape'
  BY <1>0, <1>3, <1>4, <1>6 DEF RelayShape
<1>9. up[c] = <<>> /\ queue[c] = <<>> /\ heard[c].from = None
  BY <1>0 DEF Fresh
<1>10. Members(r) = Members(room) \cup {c} /\ c \notin Members(room)
       /\ Members(room)' = Members(r) /\ Members(room) \subseteq Conns
  <2>1. c \notin Members(room) /\ Members(room) \subseteq Conns
    BY <1>0, SeatOf
  <2>2. [id |-> id, c |-> c].c = c
    OBVIOUS
  <2> QED
    BY <2>1, <2>2, <1>0, <1>3 DEF Members
<1>11. Seats'
  <2>1. IsFiniteSet(room.peers) /\ Cardinality(room.peers) \in Nat /\ Cardinality(room.peers) <= 1
    <3>1. IsFiniteSet(room.peers) /\ Cardinality(room.peers) \in Nat
      BY FS_CardinalityType DEF Seats
    <3>2. ~ room.open => Cardinality(room.peers) = 0
      BY <1>0, FS_EmptySet DEF Seats
    <3> QED
      BY <3>1, <3>2, <1>0
  <2>2. IsFiniteSet(r.peers) /\ Cardinality(r.peers) <= 2
    <3> DEFINE x == [id |-> id, c |-> c]
    <3>1. IsFiniteSet(room.peers \cup {x}) /\ Cardinality(room.peers \cup {x})
            = IF x \in room.peers THEN Cardinality(room.peers) ELSE Cardinality(room.peers) + 1
      BY <2>1, FS_AddElement
    <3> HIDE DEF x
    <3>2. Cardinality(room.peers \cup {x}) <= 2
      BY <2>1, <3>1
    <3> QED
      BY <3>1, <3>2, <1>3 DEF x
  <2>3. \A p \in r.peers : /\ p.id = conn'[p.c].id /\ conn'[p.c].st = "reading"
                           /\ conn'[p.c].inst = r.inst
    <3> SUFFICES ASSUME NEW p \in r.peers
                 PROVE  /\ p.id = conn'[p.c].id /\ conn'[p.c].st = "reading"
                        /\ conn'[p.c].inst = r.inst
      OBVIOUS
    <3>1. CASE p = [id |-> id, c |-> c]
      BY <3>1, <1>4
    <3>2. CASE p \in room.peers
      <4>1. p.c \in Conns /\ p.c # c /\ r.inst = room.inst
        BY <3>2, <1>0, <1>2, <1>3 DEF Seats
      <4> QED
        BY <3>2, <4>1, <1>4 DEF Seats
    <3> QED
      BY <3>1, <3>2, <1>3
  <2>4. r.peers # {}
    BY <1>3
  <2> QED
    BY <2>2, <2>3, <2>4, <1>0, <1>3 DEF Seats
<1>12. Fresh'
  <2> SUFFICES ASSUME NEW d \in Conns, conn'[d].st = "unused"
               PROVE  up[d] = <<>> /\ queue'[d] = <<>> /\ heard[d].from = None
    BY DEF Fresh
  <2>1. d # c /\ conn[d].st = "unused" /\ d \notin Members(r)
    BY <1>4, <1>10, SeatOf
  <2> QED
    BY <2>1, <1>6 DEF Fresh
<1>13. Lines'
  <2> SUFFICES ASSUME NEW d \in Conns
               PROVE  /\ conn'[d].silent => up[d] = <<>>
                      /\ \A i \in 1..Len(up[d]) :
                           /\ up[d][i].from = d
                           /\ up[d][i].n = conn'[d].sent - Len(up[d]) + i
    BY DEF Lines
  <2>1. CASE d # c
    BY <2>1, <1>4 DEF Lines
  <2>2. CASE d = c
    BY <2>2, <1>9
  <2> QED
    BY <2>1, <2>2
<1>14. \A d \in Conns : heard[d].from # c
  <2>1. \A d \in Conns : Held(heard[d].from)
    BY DEF Origins
  <2> QED
    BY <2>1, <1>0, EndsAndNone DEF Held
<1>15. \A d \in Conns : \A i \in 1..Len(queue'[d]) : queue'[d][i].from # None =>
         /\ d # c /\ queue'[d][i].from \in Conns \ {c}
         /\ conn[queue'[d][i].from].st # "unused"
         /\ conn[queue'[d][i].from].inst = conn[d].inst
  <2> SUFFICES ASSUME NEW d \in Conns, NEW i \in 1..Len(queue'[d]), queue'[d][i].from # None
               PROVE  /\ d # c /\ queue'[d][i].from \in Conns \ {c}
                      /\ conn[queue'[d][i].from].st # "unused"
                      /\ conn[queue'[d][i].from].inst = conn[d].inst
    OBVIOUS
  <2>1. i \in 1..Len(queue[d]) /\ queue'[d][i] = queue[d][i]
    BY <1>7 DEF Follows
  <2>2. queue[d][i] \in Messages
    BY <2>1, <1>5
  <2>3. d # c
    BY <2>1, <1>9
  <2>4. queue[d][i].from \in Conns
    BY <2>1, <2>2 DEF Messages, Ends
  <2>5. conn[queue[d][i].from].st # "unused" /\ conn[queue[d][i].from].inst = conn[d].inst
    BY <2>1 DEF Origins
  <2> QED
    BY <2>1, <2>3, <2>4, <2>5, <1>0
<1>16. Origins'
  <2> SUFFICES ASSUME NEW d \in Conns
               PROVE  /\ Len(queue'[d]) <= QueueCap
                      /\ \A i \in 1..Len(queue'[d]) : queue'[d][i].from # None =>
                           /\ conn'[queue'[d][i].from].st # "unused"
                           /\ conn'[queue'[d][i].from].inst = conn'[d].inst
                      /\ Held(heard[d].from)'
    BY DEF Origins
  <2>1. Len(queue'[d]) <= QueueCap
    BY <1>7 DEF Follows
  <2>2. \A i \in 1..Len(queue'[d]) : queue'[d][i].from # None =>
          /\ conn'[queue'[d][i].from].st # "unused"
          /\ conn'[queue'[d][i].from].inst = conn'[d].inst
    <3> SUFFICES ASSUME NEW i \in 1..Len(queue'[d]), queue'[d][i].from # None
                 PROVE  /\ conn'[queue'[d][i].from].st # "unused"
                        /\ conn'[queue'[d][i].from].inst = conn'[d].inst
      OBVIOUS
    <3> DEFINE b == queue'[d][i].from
    <3>1. d # c /\ b \in Conns \ {c} /\ conn[b].st # "unused" /\ conn[b].inst = conn[d].inst
      BY <1>15
    <3> HIDE DEF b
    <3>2. conn'[b] = conn[b] /\ conn'[d] = conn[d]
      BY <3>1, <1>4
    <3> QED
      BY <3>1, <3>2 DEF b
  <2>3. Held(heard[d].from)'
    <3>1. heard[d].from \in Conns \/ heard[d].from = None
      BY DEF RelayShape, Ends
    <3> QED
      BY <3>1, <1>4, <1>14 DEF Held, Origins
  <2> QED
    BY <2>1, <2>2, <2>3
<1>17. ASSUME NEW a \in Conns, NEW d \in Conns, a \in Members(r), d \in Members(r), a # d,
              ~ conn'[a].silent
       PROVE  LastIs(heard[d], queue'[d], a, Forwarded(a)')
  <2>1. CASE a = c
    <3>1. \A i \in 0..Len(queue'[d]) : At(heard[d], queue'[d], i).from # a
      <4> SUFFICES ASSUME NEW i \in 0..Len(queue'[d]) PROVE At(heard[d], queue'[d], i).from # a
        OBVIOUS
      <4>1. CASE i = 0
        BY <4>1, <2>1, <1>14 DEF At
      <4>2. CASE i # 0
        <5>1. i \in 1..Len(queue'[d]) /\ At(heard[d], queue'[d], i) = queue'[d][i]
          BY <4>2 DEF At
        <5> QED
          BY <5>1, <2>1, <1>15, EndsAndNone
      <4> QED
        BY <4>1, <4>2
    <3> QED
      BY <3>1 DEF LastIs
  <2>2. CASE d = c
    <3>1. \A i \in 0..Len(queue'[d]) : At(heard[d], queue'[d], i).from # a
      <4> SUFFICES ASSUME NEW i \in 0..Len(queue'[d]) PROVE At(heard[d], queue'[d], i).from # a
        OBVIOUS
      <4>1. CASE i = 0
        BY <4>1, <2>2, <1>9, EndsAndNone DEF At
      <4>2. CASE i # 0
        <5>1. i \in 1..Len(queue'[d]) /\ At(heard[d], queue'[d], i) = queue'[d][i]
          BY <4>2 DEF At
        <5> QED
          BY <5>1, <2>2, <1>15, EndsAndNone
      <4> QED
        BY <4>1, <4>2
    <3> QED
      BY <3>1 DEF LastIs
  <2>3. CASE a # c /\ d # c
    <3>1. a \in Members(room) /\ d \in Members(room) /\ ~ conn[a].silent
      BY <2>3, <1>4, <1>10, <1>17
    <3>2. Forwarded(a)' = Forwarded(a) /\ Forwarded(a) \in Int
      BY <2>3, <1>4, ForwardedIs DEF Forwarded
    <3>3. LastIs(heard[d], queue[d], a, Forwarded(a))
      BY <3>1, <1>17 DEF Streams
    <3> QED
      BY <3>2, <3>3, <1>7 DEF Follows
  <2> QED
    BY <2>1, <2>2, <2>3
<1>18. Streams'
  <2>1. \A d \in Conns : Gapless(heard[d], queue'[d])
    BY <1>7 DEF Follows
  <2> QED
    BY <2>1, <1>10, <1>17 DEF Streams
<1>19. \E n \in Nat : used' = [used EXCEPT !.insts = n]
  BY <1>0
<1> QED
  BY <1>4, <1>8, <1>11, <1>12, <1>13, <1>16, <1>18, <1>19

-----------------------------------------------------------------------------
(* The ends. *)

\* What a step of an end does to the lines: it may send, and sends in order.
Balanced ==
  /\ up' \in [Conns -> Seq(Messages)] /\ Lines'
  /\ conn' \in [Conns -> [st : Steps, id : Nat, inst : Nat, sent : Nat, silent : BOOLEAN]]
  /\ \A d \in Conns : /\ conn'[d].st = conn[d].st /\ conn'[d].id = conn[d].id
                      /\ conn'[d].inst = conn[d].inst /\ conn'[d].silent = conn[d].silent
                      /\ Forwarded(d)' = Forwarded(d)
                      /\ conn[d].st = "unused" => up'[d] = up[d]

LEMMA QuietBalanced ==
  ASSUME RelayInv, UNCHANGED <<up, conn>>
  PROVE  Balanced
BY DEF RelayInv, RelayShape, Balanced, Lines, Forwarded

Sendable == [kind : Kinds, epoch : Ends]

LEMMA SendBalanced ==
  ASSUME RelayInv, NEW c \in Conns, conn[c].st # "unused", NEW ms \in Seq(Sendable),
         Send(c, ms)
  PROVE  Balanced
<1> USE DEF RelayInv
<1>1. CASE Gone(c)
  BY <1>1, QuietBalanced DEF Send
<1>2. CASE ~ Gone(c)
  <2> DEFINE q == up[c]
             add == [i \in DOMAIN ms |->
                       [Record(ms[i].kind, c, ms[i].epoch) EXCEPT !.n = @ + i - 1]]
             sent == conn[c].sent
  <2>1. /\ up' = [up EXCEPT ![c] = q \o add]
        /\ conn' = [conn EXCEPT ![c].sent = sent + Len(ms)]
    BY <1>2 DEF Send
  <2>2. q \in Seq(Messages) /\ sent \in Nat /\ Len(q) \in Nat /\ Len(ms) \in Nat
        /\ DOMAIN ms = 1..Len(ms)
    BY DEF RelayShape
  <2>3. ASSUME NEW i \in 1..Len(ms)
        PROVE  add[i] \in Messages /\ add[i].from = c /\ add[i].n = sent + i
    <3>1. ms[i].kind \in Kinds /\ ms[i].epoch \in Ends
      <4>1. ms[i] \in Sendable
        OBVIOUS
      <4> QED
        BY <4>1 DEF Sendable
    <3>2. add[i] = [kind |-> ms[i].kind, from |-> c, n |-> sent + 1 + i - 1,
                    epoch |-> ms[i].epoch]
      BY <2>2 DEF Record
    <3>3. sent + 1 + i - 1 = sent + i /\ sent + i \in Nat
      BY <2>2
    <3> QED
      BY <3>1, <3>2, <3>3, EndsAndNone DEF Messages
  <2>4. add \in Seq(Messages) /\ Len(add) = Len(ms)
    <3>1. add \in [1..Len(ms) -> Messages]
      BY <2>2, <2>3
    <3> HIDE DEF add
    <3> QED
      BY <3>1, <2>2
  <2> HIDE DEF add
  <2>5. /\ q \o add \in Seq(Messages) /\ Len(q \o add) = Len(q) + Len(ms)
        /\ \A i \in 1..Len(q) : (q \o add)[i] = q[i]
        /\ \A i \in 1..Len(ms) : (q \o add)[Len(q) + i] = add[i]
    <3>1. q \o add \in Seq(Messages) /\ Len(q \o add) = Len(q) + Len(ms)
      BY <2>2, <2>4
    <3>2. \A i \in 1..Len(q) : (q \o add)[i] = q[i]
      BY <2>2, <2>4
    <3>3. ASSUME NEW i \in 1..Len(ms) PROVE (q \o add)[Len(q) + i] = add[i]
      <4>1. Len(q) + i \in 1..(Len(q) + Len(add)) /\ ~ (Len(q) + i <= Len(q))
            /\ (Len(q) + i) - Len(q) = i
        BY <2>2, <2>4
      <4>2. (q \o add)[Len(q) + i] = add[(Len(q) + i) - Len(q)]
        BY <4>1, <2>2, <2>4
      <4> QED
        BY <4>1, <4>2
    <3> QED
      BY <3>1, <3>2, <3>3
  <2>6. /\ up' \in [Conns -> Seq(Messages)] /\ up'[c] = q \o add
        /\ \A d \in Conns \ {c} : up'[d] = up[d]
    BY <2>1, <2>5 DEF RelayShape
  <2>7. sent + Len(ms) \in Nat
    BY <2>2
  <2>8. /\ conn' \in [Conns -> [st : Steps, id : Nat, inst : Nat, sent : Nat, silent : BOOLEAN]]
        /\ \A d \in Conns \ {c} : conn'[d] = conn[d]
        /\ conn'[c].st = conn[c].st /\ conn'[c].id = conn[c].id
        /\ conn'[c].inst = conn[c].inst /\ conn'[c].silent = conn[c].silent
        /\ conn'[c].sent = sent + Len(ms)
    BY <2>1, <2>7 DEF RelayShape
  <2>9. \A d \in Conns : Forwarded(d)' = Forwarded(d)
    <3>1. \A d \in Conns \ {c} : Forwarded(d)' = Forwarded(d)
      BY <2>6, <2>8 DEF Forwarded
    <3>2. Forwarded(c)' = (sent + Len(ms)) - (Len(q) + Len(ms)) /\ Forwarded(c) = sent - Len(q)
      BY <2>5, <2>6, <2>8 DEF Forwarded
    <3> QED
      BY <3>1, <3>2, <2>2
  <2>10. Lines'
    <3> SUFFICES ASSUME NEW d \in Conns
                 PROVE  /\ conn'[d].silent => up'[d] = <<>>
                        /\ \A i \in 1..Len(up'[d]) :
                             /\ up'[d][i].from = d
                             /\ up'[d][i].n = conn'[d].sent - Len(up'[d]) + i
      BY DEF Lines
    <3>1. CASE d # c
      <4>1. conn'[d] = conn[d] /\ up'[d] = up[d]
        BY <3>1, <2>6, <2>8
      <4>2. /\ conn[d].silent => up[d] = <<>>
            /\ \A i \in 1..Len(up[d]) : /\ up[d][i].from = d
                                         /\ up[d][i].n = conn[d].sent - Len(up[d]) + i
        BY DEF Lines
      <4> QED
        BY <4>1, <4>2
    <3>2. CASE d = c
      <4>1. ~ conn'[c].silent
        BY <1>2, <2>8 DEF Gone
      <4>2. ASSUME NEW i \in 1..Len(q \o add)
            PROVE  /\ (q \o add)[i].from = c
                   /\ (q \o add)[i].n = sent - Len(q) + i
        <5>1. CASE i \in 1..Len(q)
          BY <5>1, <2>5 DEF Lines
        <5>2. CASE i \notin 1..Len(q)
          <6>1. i - Len(q) \in 1..Len(ms) /\ Len(q) + (i - Len(q)) = i
            BY <5>2, <2>2, <2>5
          <6>2. (q \o add)[i] = add[i - Len(q)]
            BY <6>1, <2>5
          <6>3. sent + (i - Len(q)) = sent - Len(q) + i
            BY <2>2, <2>5
          <6> QED
            BY <6>1, <6>2, <6>3, <2>3
        <5> QED
          BY <5>1, <5>2
      <4>3. (sent + Len(ms)) - Len(q \o add) = sent - Len(q)
        BY <2>2, <2>5
      <4> QED
        BY <3>2, <4>1, <4>2, <4>3, <2>6, <2>8
    <3> QED
      BY <3>1, <3>2
  <2> QED
    BY <2>6, <2>8, <2>9, <2>10 DEF Balanced
<1> QED
  BY <1>1, <1>2

LEMMA BalancedKeeps ==
  ASSUME RelayInv, Balanced, UNCHANGED <<room, queue, heard>>
  PROVE  RelayInv'
<1> USE DEF RelayInv
<1>1. RelayShape' /\ Lines'
  BY DEF RelayShape, Balanced
<1>2. Seats'
  <2>1. \A p \in room.peers : p.c \in Conns
    BY DEF RelayShape
  <2> QED
    BY <2>1 DEF Seats, Balanced
<1>3. Fresh'
  BY DEF Fresh, Balanced
<1>4. Members(room)' = Members(room) /\ Members(room) \subseteq Conns
  BY SeatOf DEF Members
<1>5. \A d \in Conns : Follows(heard[d], queue[d], queue'[d])
  BY Unmoved
<1>6. Origins' /\ Streams'
  BY <1>1, <1>2, <1>4, <1>5, StaysOrderly DEF Balanced
<1> QED
  BY <1>1, <1>2, <1>3, <1>6

\* An end reads the next message: it misses no record of the sender it reads.
LEMMA ReadingKeeps ==
  ASSUME RelayInv, Balanced, room' = room, NEW c \in Conns, NEW m,
         Hears(c, m), Take(c), Note(c, m)
  PROVE  /\ RelayInv' /\ m \in Messages
         /\ \A d \in Conns : heard'[d].from = heard[d].from
                               => heard'[d].n \in {heard[d].n, heard[d].n + 1}
<1> USE DEF RelayInv
<1> DEFINE q == queue[c]
<1>0. m = Head(q) /\ q # <<>> /\ queue' = [queue EXCEPT ![c] = Tail(q)]
      /\ heard' = IF m.from = None THEN heard
                  ELSE [heard EXCEPT ![c] = [from |-> m.from, n |-> m.n]]
  BY DEF Hears, Take, Note
<1>1. queue \in [Conns -> Seq(Messages)] /\ q \in Seq(Messages)
      /\ heard \in [Conns -> [from : Ends, n : Nat]]
  BY DEF RelayShape
<1>2. /\ Tail(q) \in Seq(Messages) /\ Len(Tail(q)) = Len(q) - 1 /\ Len(q) \in Nat \ {0}
      /\ \A i \in 1..Len(Tail(q)) : Tail(q)[i] = q[i + 1]
      /\ m = q[1] /\ m \in Messages
  BY <1>0, <1>1, TailIs
<1>3. m.from \in Ends /\ m.n \in Nat
  BY <1>2 DEF Messages
<1>4. /\ queue' \in [Conns -> Seq(Messages)] /\ queue'[c] = Tail(q)
      /\ \A d \in Conns \ {c} : queue'[d] = queue[d]
  BY <1>0, <1>1, <1>2
<1>5. /\ heard' \in [Conns -> [from : Ends, n : Nat]]
      /\ heard'[c] = Noted(heard[c], m)
      /\ \A d \in Conns \ {c} : heard'[d] = heard[d]
  BY <1>0, <1>1, <1>3 DEF Noted
<1>6. /\ Gapless(heard'[c], queue'[c])
      /\ \A a \in Conns, x \in Int :
           LastIs(heard[c], q, a, x) => LastIs(heard'[c], queue'[c], a, x)
      /\ m.from # None /\ heard[c].from = m.from => m.n = heard[c].n + 1
  <2>1. Gapless(heard[c], q)
    BY DEF Streams
  <2> QED
    BY <2>1, <1>0, <1>1, <1>4, <1>5, ReadingFollows
<1>7. RelayShape' /\ Lines'
  BY <1>4, <1>5 DEF RelayShape, Balanced
<1>8. Seats'
  <2>1. \A p \in room.peers : p.c \in Conns
    BY DEF RelayShape
  <2>2. \A d \in Conns : conn'[d].st = conn[d].st /\ conn'[d].id = conn[d].id
                         /\ conn'[d].inst = conn[d].inst
    BY DEF Balanced
  <2> QED
    BY <2>1, <2>2 DEF Seats
<1>9. Fresh'
  <2>1. conn[c].st # "unused"
    BY <1>0 DEF Fresh
  <2> QED
    BY <2>1, <1>4, <1>5 DEF Fresh, Balanced
<1>10. Origins'
  <2> SUFFICES ASSUME NEW d \in Conns
               PROVE  /\ Len(queue'[d]) <= QueueCap
                      /\ \A i \in 1..Len(queue'[d]) : queue'[d][i].from # None =>
                           /\ conn'[queue'[d][i].from].st # "unused"
                           /\ conn'[queue'[d][i].from].inst = conn'[d].inst
                      /\ Held(heard[d].from)'
    BY DEF Origins
  <2>1. \A b \in Conns : conn'[b].st = conn[b].st /\ conn'[b].inst = conn[b].inst
    BY DEF Balanced
  <2>2. /\ Len(queue[d]) <= QueueCap /\ Len(queue[d]) \in Nat
        /\ \A i \in 1..Len(queue[d]) : queue[d][i].from # None =>
             /\ queue[d][i].from \in Conns
             /\ conn[queue[d][i].from].st # "unused"
             /\ conn[queue[d][i].from].inst = conn[d].inst
    <3>1. queue[d] \in Seq(Messages)
      BY <1>1
    <3>2. \A i \in 1..Len(queue[d]) : queue[d][i] \in Messages
      BY <3>1
    <3> QED
      BY <3>1, <3>2 DEF Origins, Messages, Ends
  <2>3. heard[d].from \in Ends /\ Held(heard[d].from)
    BY <1>1 DEF Origins
  <2>4. CASE d # c
    <3>1. queue'[d] = queue[d] /\ heard'[d] = heard[d]
      BY <2>4, <1>4, <1>5
    <3>2. Held(heard[d].from)'
      BY <3>1, <2>1, <2>3 DEF Held, Ends
    <3> QED
      BY <3>1, <3>2, <2>1, <2>2
  <2>5. CASE d = c
    <3>1. QueueCap \in Nat
      BY RoomAssumption
    <3>2. Len(queue'[d]) <= QueueCap
      BY <3>1, <2>2, <2>5, <1>2, <1>4
    <3>3. \A i \in 1..Len(queue'[d]) : i + 1 \in 1..Len(queue[d]) /\ queue'[d][i] = queue[d][i + 1]
      BY <2>5, <1>2, <1>4
    <3>4. \A i \in 1..Len(queue'[d]) : queue'[d][i].from # None =>
            /\ conn'[queue'[d][i].from].st # "unused"
            /\ conn'[queue'[d][i].from].inst = conn'[d].inst
      <4> SUFFICES ASSUME NEW i \in 1..Len(queue'[d]), queue'[d][i].from # None
                   PROVE  /\ conn'[queue'[d][i].from].st # "unused"
                          /\ conn'[queue'[d][i].from].inst = conn'[d].inst
        OBVIOUS
      <4> DEFINE b == queue[d][i + 1].from
      <4>1. queue'[d][i].from = b /\ b # None /\ i + 1 \in 1..Len(queue[d])
        BY <3>3
      <4>2. b \in Conns /\ conn[b].st # "unused" /\ conn[b].inst = conn[d].inst
        BY <4>1, <2>2
      <4> HIDE DEF b
      <4> QED
        BY <4>1, <4>2, <2>1
    <3>5. Held(heard[d].from)'
      <4>1. CASE m.from = None
        BY <4>1, <2>1, <2>3, <2>5, <1>5 DEF Held, Noted, Ends
      <4>2. CASE m.from # None
        <5>1. 1 \in 1..Len(queue[d]) /\ queue[d][1] = m
          BY <2>5, <1>2
        <5>2. heard'[d].from = m.from
          BY <4>2, <2>5, <1>5 DEF Noted
        <5> QED
          BY <4>2, <5>1, <5>2, <2>1, <2>2 DEF Held
      <4> QED
        BY <4>1, <4>2
    <3> QED
      BY <3>2, <3>4, <3>5
  <2> QED
    BY <2>4, <2>5
<1>11. Streams'
  <2>1. Members(room)' = Members(room) /\ Members(room) \subseteq Conns
    BY SeatOf DEF Members
  <2>2. \A d \in Conns : Gapless(heard'[d], queue'[d])
    BY <1>4, <1>5, <1>6 DEF Streams
  <2>3. ASSUME NEW a \in Conns, NEW d \in Conns, a \in Members(room), d \in Members(room),
               a # d, ~ conn'[a].silent
        PROVE  LastIs(heard'[d], queue'[d], a, Forwarded(a)')
    <3>1. ~ conn[a].silent /\ Forwarded(a)' = Forwarded(a) /\ Forwarded(a) \in Int
      BY <2>3, ForwardedIs DEF Balanced
    <3>2. LastIs(heard[d], queue[d], a, Forwarded(a))
      BY <2>3, <3>1 DEF Streams
    <3>3. CASE d = c
      BY <3>1, <3>2, <3>3, <1>6
    <3>4. CASE d # c
      BY <3>1, <3>2, <3>4, <1>4, <1>5
    <3> QED
      BY <3>3, <3>4
  <2> QED
    BY <2>1, <2>2, <2>3 DEF Streams
<1>12. \A d \in Conns : heard'[d].from = heard[d].from
                          => heard'[d].n \in {heard[d].n, heard[d].n + 1}
  BY <1>5, <1>6 DEF Noted
<1> QED
  BY <1>2, <1>7, <1>8, <1>9, <1>10, <1>11, <1>12

\* The states of the ends that the actions write.
Session == [st : Stages, epoch : Ends, recs : Seq(Messages)]
Desk == [c : Ends, phase : Phases, last : Outcomes]

LEMMA EndStates ==
  /\ NoSession \in Session /\ NoSession.recs = <<>>
  /\ [NoSession EXCEPT !.st = "await"] \in Session
  /\ \A o \in Outcomes : Detached(o) \in Desk /\ Detached(o).c = None
  /\ \A k \in Kinds, e \in Ends : Msg(k, e) \in Sendable
<1>1. <<>> \in Seq(Messages)
  OBVIOUS
<1>2. NoSession \in Session /\ NoSession.recs = <<>>
  BY <1>1, EndsAndNone DEF NoSession, Session, Stages
<1>3. [NoSession EXCEPT !.st = "await"] \in Session
  BY <1>2 DEF Session, Stages
<1>4. \A o \in Outcomes : Detached(o) \in Desk /\ Detached(o).c = None
  BY EndsAndNone DEF Detached, Desk, Phases
<1>5. \A k \in Kinds, e \in Ends : Msg(k, e) \in Sendable
  BY DEF Msg, Sendable
<1> QED
  BY <1>2, <1>3, <1>4, <1>5

\* A connection, once made, stays made: an end that keeps its connection or lets it go
\* holds one that was made.
Lasting == \A d \in Conns : conn'[d].st = "unused" => conn[d].st = "unused"

LEMMA HeldStays ==
  ASSUME Lasting, NEW c \in Ends, NEW d \in {c, None}, Held(c)
  PROVE  d # None => conn'[d].st # "unused"
BY DEF Lasting, Held, Ends

\* The relay's own steps.
LEMMA RelaySteps ==
  ASSUME RoomInv, NEW c \in Conns,
         Forward(c) \/ Overflow(c) \/ RemovePeer(c) \/ Cut(c) \/ Reap
  PROVE  RoomInv' /\ heard' = heard
<1>1. UNCHANGED <<daemon, desktop, heard>>
  BY DEF Forward, Overflow, RemovePeer, Cut, Reap
<1>2. RelayInv'
  BY ForwardKeeps, OverflowKeeps, RemovePeerKeeps, CutKeeps, ReapKeeps DEF RoomInv
<1>3. Lasting
  <2>1. CASE Forward(c) \/ Overflow(c) \/ Reap
    BY <2>1 DEF Forward, Overflow, Reap, Lasting
  <2>2. CASE RemovePeer(c) \/ Cut(c)
    BY <2>2, RemovePeerKeeps, CutKeeps DEF RoomInv, Lasting
  <2> QED
    BY <2>1, <2>2
<1>4. used' \in [insts : Nat, data : Nat, cuts : Nat, drops : Nat, timeouts : Nat]
  <2>1. used \in [insts : Nat, data : Nat, cuts : Nat, drops : Nat, timeouts : Nat]
    BY DEF RoomInv, EndShape
  <2>2. used' = used \/ used' = [used EXCEPT !.cuts = used.cuts + 1]
    BY DEF Forward, Overflow, RemovePeer, Cut, Reap
  <2> QED
    BY <2>1, <2>2
<1>5. EndShape'
  BY <1>1, <1>4 DEF RoomInv, EndShape
<1>6. daemon.c \in Ends /\ desktop.c \in Ends
  BY DEF RoomInv, EndShape
<1>7. Held(daemon.c)' /\ Held(desktop.c)'
  BY <1>1, <1>3, <1>6, HeldStays DEF RoomInv, Held
<1> QED
  BY <1>1, <1>2, <1>5, <1>7 DEF RoomInv

\* The steps of an end that touch neither the lines nor the relay.
LEMMA QuietSteps ==
  ASSUME RoomInv, UNCHANGED <<room, conn, up, queue, heard>>, EndShape',
         daemon'.c \in {daemon.c, None}, desktop'.c \in {desktop.c, None}
  PROVE  RoomInv'
<1>1. RelayInv'
  BY QuietBalanced, BalancedKeeps DEF RoomInv
<1>2. Lasting
  BY DEF Lasting
<1>3. daemon.c \in Ends /\ desktop.c \in Ends
  BY DEF RoomInv, EndShape
<1>4. Held(daemon.c)' /\ Held(desktop.c)'
  BY <1>2, <1>3, HeldStays DEF RoomInv, Held
<1> QED
  BY <1>1, <1>4 DEF RoomInv

LEMMA JoinSteps ==
  ASSUME RoomInv, NEW c \in Conns, DaemonJoins(c) \/ DesktopJoins(c)
  PROVE  RoomInv' /\ heard' = heard
<1>1. PICK id \in 0..MaxConns : Join(c, id)
  BY DEF DaemonJoins, DesktopJoins
<1>2. up' = up /\ heard' = heard
  BY DEF DaemonJoins, DesktopJoins
<1>3. /\ daemon' = daemon \/ daemon' = [daemon EXCEPT !.c = c]
      /\ desktop' = desktop \/ desktop' = [desktop EXCEPT !.c = c, !.phase = "waiting"]
  BY DEF DaemonJoins, DesktopJoins
<1>4. /\ used \in [insts : Nat, data : Nat, cuts : Nat, drops : Nat, timeouts : Nat]
      /\ daemon \in [c : Ends, session : Session] /\ desktop \in Desk
      /\ Held(daemon.c) /\ Held(desktop.c) /\ RelayInv
  BY DEF RoomInv, EndShape, Session, Desk
<1>5. /\ RelayInv' /\ Lasting /\ conn'[c].st # "unused"
      /\ \E n \in Nat : used' = [used EXCEPT !.insts = n]
  <2>1. used.insts \in Nat
    BY <1>4
  <2> QED
    BY <2>1, <1>1, <1>2, <1>4, JoinKeeps DEF Lasting
<1>6. used' \in [insts : Nat, data : Nat, cuts : Nat, drops : Nat, timeouts : Nat]
  BY <1>4, <1>5
<1>7. daemon' \in [c : Ends, session : Session] /\ daemon'.c \in {daemon.c, c}
  BY <1>3, <1>4, EndsAndNone
<1>8. desktop' \in Desk /\ desktop'.c \in {desktop.c, c}
  BY <1>3, <1>4, EndsAndNone DEF Desk, Phases
<1>9. Held(daemon.c)' /\ Held(desktop.c)'
  BY <1>4, <1>5, <1>7, <1>8 DEF Lasting, Held, Ends, Desk
<1> QED
  BY <1>2, <1>5, <1>6, <1>7, <1>8, <1>9 DEF RoomInv, EndShape, Session, Desk

\* What a step of an end leaves behind, whatever it sent.
LEMMA EndSteps ==
  ASSUME RoomInv, RelayInv', Balanced, EndShape',
         daemon'.c \in {daemon.c, None}, desktop'.c \in {desktop.c, None}
  PROVE  RoomInv'
<1>1. Lasting
  BY DEF Lasting, Balanced
<1>2. daemon.c \in Ends /\ desktop.c \in Ends
  BY DEF RoomInv, EndShape
<1>3. Held(daemon.c)' /\ Held(desktop.c)'
  BY <1>1, <1>2, HeldStays DEF RoomInv, Held
<1> QED
  BY <1>3 DEF RoomInv

GapFree == \A c \in Conns : heard'[c].from = heard[c].from
                              => heard'[c].n \in {heard[c].n, heard[c].n + 1}

LEMMA DaemonSteps ==
  ASSUME RoomInv, DaemonHears \/ SessionReads \/ SessionSends \/ DaemonLeaves
  PROVE  RoomInv' /\ (heard' = heard \/ GapFree)
<1>0. /\ RelayInv /\ Held(daemon.c) /\ daemon \in [c : Ends, session : Session]
      /\ desktop \in Desk
      /\ used \in [insts : Nat, data : Nat, cuts : Nat, drops : Nat, timeouts : Nat]
  BY DEF RoomInv, EndShape, Session, Desk
<1>1. \A s \in Session : daemon' = [daemon EXCEPT !.session = s] =>
        daemon' \in [c : Ends, session : Session] /\ daemon'.c = daemon.c
  BY <1>0
<1>2. daemon.session \in Session
  BY <1>0
<1> DEFINE s == daemon.session
<1>3. s.st \in Stages /\ s.epoch \in Ends /\ s.recs \in Seq(Messages)
  BY <1>2 DEF Session
<1>4. CASE DaemonHears
  <2>1. daemon.c # None /\ daemon.c \in Conns
    BY <1>0, <1>4 DEF DaemonHears, Hears, Ends
  <2>2. PICK m : /\ Hears(daemon.c, m) /\ Take(daemon.c) /\ Note(daemon.c, m)
                 /\ daemon' = [daemon EXCEPT !.session =
                      IF m.kind = "connected" THEN [NoSession EXCEPT !.st = "await"]
                      ELSE IF m.kind \in Presences THEN NoSession
                      ELSE IF s.st = "none" THEN s
                      ELSE IF s.st = "dead" \/ Len(s.recs) >= SessionCap THEN NoSession
                      ELSE [s EXCEPT !.recs = Append(@, m)]]
                 /\ UNCHANGED <<room, conn, up, desktop, used>>
    BY <1>4 DEF DaemonHears
  <2>3. Balanced
    BY <1>0, <2>2, QuietBalanced
  <2>4. RelayInv' /\ m \in Messages /\ GapFree
    BY <1>0, <2>1, <2>2, <2>3, ReadingKeeps DEF GapFree
  <2>5. [s EXCEPT !.recs = Append(s.recs, m)] \in Session
    <3>1. Append(s.recs, m) \in Seq(Messages)
      BY <1>3, <2>4
    <3> QED
      BY <1>2, <3>1 DEF Session
  <2>6. \E t \in Session : daemon' = [daemon EXCEPT !.session = t]
    BY <1>2, <2>2, <2>5, EndStates
  <2>7. daemon' \in [c : Ends, session : Session] /\ daemon'.c = daemon.c
    BY <1>1, <2>6
  <2>8. EndShape'
    BY <1>0, <2>2, <2>7 DEF EndShape, Session, Desk
  <2> QED
    BY <2>2, <2>3, <2>4, <2>7, <2>8, EndSteps
<1>5. CASE SessionReads
  <2> DEFINE m == Head(s.recs)
  <2>1. /\ daemon.c # None /\ s.recs # <<>> /\ UNCHANGED <<room, queue, desktop, heard, used>>
        /\ \/ /\ m.kind = "hello"
              /\ daemon' = [daemon EXCEPT !.session =
                              [st |-> "up", epoch |-> m.epoch, recs |-> Tail(s.recs)]]
              /\ Send(daemon.c, <<Msg("reply", m.epoch), Msg("credential", m.epoch)>>)
           \/ /\ daemon' = [daemon EXCEPT !.session = [s EXCEPT !.recs = Tail(@)]]
              /\ UNCHANGED <<up, conn>>
           \/ /\ daemon' = [daemon EXCEPT !.session = [s EXCEPT !.st = "dead"]]
              /\ UNCHANGED <<up, conn>>
    BY <1>5 DEF SessionReads
  <2>2. m \in Messages /\ Tail(s.recs) \in Seq(Messages)
    BY <1>3, <2>1, TailIs
  <2>3. m.epoch \in Ends
    BY <2>2 DEF Messages
  <2>4. daemon.c \in Conns /\ conn[daemon.c].st # "unused"
    BY <1>0, <2>1 DEF Held, Ends
  <2> HIDE DEF m
  <2>5. Balanced
    <3>1. Msg("reply", m.epoch) \in Sendable /\ Msg("credential", m.epoch) \in Sendable
      BY <2>3, EndStates DEF Kinds
    <3>2. <<Msg("reply", m.epoch), Msg("credential", m.epoch)>> \in Seq(Sendable)
      BY <3>1
    <3> QED
      BY <1>0, <2>1, <2>4, <3>2, SendBalanced, QuietBalanced
  <2>6. RelayInv'
    BY <1>0, <2>1, <2>5, BalancedKeeps
  <2>7. /\ [st |-> "up", epoch |-> m.epoch, recs |-> Tail(s.recs)] \in Session
        /\ [s EXCEPT !.recs = Tail(s.recs)] \in Session
        /\ [s EXCEPT !.st = "dead"] \in Session
    BY <1>2, <2>2, <2>3 DEF Session, Stages
  <2>8. \E t \in Session : daemon' = [daemon EXCEPT !.session = t]
    BY <2>1, <2>7
  <2>9. daemon' \in [c : Ends, session : Session] /\ daemon'.c = daemon.c
    BY <1>1, <2>8
  <2>10. EndShape'
    BY <1>0, <2>1, <2>9 DEF EndShape, Session, Desk
  <2> QED
    BY <2>1, <2>5, <2>6, <2>9, <2>10, EndSteps
<1>6. CASE SessionSends
  <2>1. /\ daemon.c # None /\ UNCHANGED <<room, queue, daemon, desktop, heard>>
        /\ used' = [used EXCEPT !.data = used.data + 1]
        /\ Send(daemon.c, <<Msg("data", s.epoch)>>)
    BY <1>6 DEF SessionSends
  <2>2. daemon.c \in Conns /\ conn[daemon.c].st # "unused"
    BY <1>0, <2>1 DEF Held, Ends
  <2>3. Balanced
    <3>1. Msg("data", s.epoch) \in Sendable
      BY <1>3, EndStates DEF Kinds
    <3>2. <<Msg("data", s.epoch)>> \in Seq(Sendable)
      BY <3>1
    <3> QED
      BY <1>0, <2>1, <2>2, <3>2, SendBalanced
  <2>4. RelayInv'
    BY <1>0, <2>1, <2>3, BalancedKeeps
  <2>5. EndShape'
    BY <1>0, <2>1 DEF EndShape, Session, Desk
  <2> QED
    BY <2>1, <2>3, <2>4, <2>5, EndSteps
<1>7. CASE DaemonLeaves
  <2>1. /\ UNCHANGED <<room, conn, up, queue, desktop, heard>>
        /\ daemon' = [c |-> None, session |-> NoSession]
        /\ used' = used \/ used' = [used EXCEPT !.drops = used.drops + 1]
    BY <1>7 DEF DaemonLeaves
  <2>2. daemon' \in [c : Ends, session : Session] /\ daemon'.c = None
    BY <2>1, EndStates, EndsAndNone
  <2>3. used' \in [insts : Nat, data : Nat, cuts : Nat, drops : Nat, timeouts : Nat]
    BY <1>0, <2>1
  <2>4. EndShape'
    BY <1>0, <2>1, <2>2, <2>3 DEF EndShape, Session, Desk
  <2> QED
    BY <2>1, <2>2, <2>4, QuietSteps
<1> QED
  BY <1>4, <1>5, <1>6, <1>7

LEMMA DesktopReads ==
  ASSUME RoomInv, DesktopHears
  PROVE  RoomInv' /\ (heard' = heard \/ GapFree)
<1>0. /\ RelayInv /\ Held(desktop.c) /\ desktop \in Desk
      /\ daemon \in [c : Ends, session : Session]
      /\ used \in [insts : Nat, data : Nat, cuts : Nat, drops : Nat, timeouts : Nat]
  BY DEF RoomInv, EndShape, Session, Desk
<1>1. desktop.c # None /\ desktop.c \in Conns
  BY <1>0 DEF DesktopHears, Hears, Ends, Desk
<1>2. conn[desktop.c].st # "unused"
  BY <1>0, <1>1 DEF Held
<1>3. PICK m : /\ Hears(desktop.c, m) /\ Take(desktop.c) /\ Note(desktop.c, m)
               /\ \/ desktop.phase = "waiting" /\ DesktopWaits(m)
                  \/ desktop.phase = "hello" /\ DesktopShakes(m)
                  \/ desktop.phase = "credential" /\ DesktopMux(m, "pairing_rejected")
                  \/ desktop.phase = "up" /\ DesktopMux(m, "link_lost")
               /\ UNCHANGED <<room, daemon, used>>
  BY DEF DesktopHears
<1>4. /\ \/ desktop' = desktop
         \/ \E p \in Phases : desktop' = [desktop EXCEPT !.phase = p]
         \/ \E o \in Outcomes : desktop' = Detached(o)
      /\ UNCHANGED <<up, conn>> \/ Send(desktop.c, <<Msg("hello", desktop.c)>>)
  <2>1. ASSUME DesktopWaits(m)
        PROVE  /\ desktop' = desktop \/ desktop' = [desktop EXCEPT !.phase = "hello"]
               /\ UNCHANGED <<up, conn>> \/ Send(desktop.c, <<Msg("hello", desktop.c)>>)
    BY <2>1 DEF DesktopWaits, DesktopGoes
  <2>2. ASSUME DesktopShakes(m)
        PROVE  /\ \/ desktop' = desktop \/ desktop' = [desktop EXCEPT !.phase = "credential"]
                  \/ desktop' = Detached("daemon_offline")
                  \/ desktop' = Detached("pairing_rejected")
               /\ UNCHANGED <<up, conn>>
    BY <2>2 DEF DesktopShakes, DesktopGoes, DesktopFails
  <2>3. ASSUME NEW o \in Outcomes, DesktopMux(m, o)
        PROVE  /\ \/ desktop' = desktop \/ desktop' = [desktop EXCEPT !.phase = "up"]
                  \/ desktop' = Detached(o)
               /\ UNCHANGED <<up, conn>>
    BY <2>3 DEF DesktopMux, DesktopGoes, DesktopFails
  <2>4. /\ {"hello", "credential", "up"} \subseteq Phases
        /\ {"daemon_offline", "pairing_rejected", "link_lost"} \subseteq Outcomes
    BY DEF Phases, Outcomes
  <2> QED
    BY <1>3, <2>1, <2>2, <2>3, <2>4
<1>5. Balanced
  <2>1. Msg("hello", desktop.c) \in Sendable
    BY <1>0, EndStates DEF Kinds, Desk
  <2>2. <<Msg("hello", desktop.c)>> \in Seq(Sendable)
    BY <2>1
  <2> QED
    BY <1>0, <1>1, <1>2, <1>4, <2>2, SendBalanced, QuietBalanced
<1>6. RelayInv' /\ GapFree
  BY <1>0, <1>1, <1>3, <1>5, ReadingKeeps DEF GapFree
<1>7. desktop' \in Desk /\ desktop'.c \in {desktop.c, None}
  BY <1>0, <1>4, EndStates DEF Desk
<1>8. EndShape'
  BY <1>0, <1>3, <1>7 DEF EndShape, Session, Desk
<1> QED
  BY <1>3, <1>5, <1>6, <1>7, <1>8, EndSteps

LEMMA DesktopSteps ==
  ASSUME RoomInv, DesktopLinkEnds \/ DesktopTimesOut \/ DesktopDrops \/ Heartbeat
  PROVE  RoomInv' /\ heard' = heard
<1>0. /\ desktop \in Desk /\ daemon \in [c : Ends, session : Session]
      /\ used \in [insts : Nat, data : Nat, cuts : Nat, drops : Nat, timeouts : Nat]
  BY DEF RoomInv, EndShape, Session, Desk
<1>1. /\ UNCHANGED <<room, conn, up, queue, daemon, heard>>
      /\ \/ used' = used \/ used' = [used EXCEPT !.drops = used.drops + 1]
         \/ used' = [used EXCEPT !.timeouts = used.timeouts + 1]
  BY DEF DesktopLinkEnds, DesktopTimesOut, DesktopDrops, Heartbeat
<1>2. \E o \in Outcomes : desktop' = Detached(o)
  <2>1. {"relay_unreachable", "daemon_offline", "pairing_rejected", "link_lost"} \subseteq Outcomes
    BY DEF Outcomes
  <2> QED
    BY <2>1 DEF DesktopLinkEnds, DesktopTimesOut, DesktopDrops, Heartbeat, DesktopFails
<1>3. desktop' \in Desk /\ desktop'.c = None
  BY <1>2, EndStates
<1>4. used' \in [insts : Nat, data : Nat, cuts : Nat, drops : Nat, timeouts : Nat]
  BY <1>0, <1>1
<1>5. EndShape'
  BY <1>0, <1>1, <1>3, <1>4 DEF EndShape, Session, Desk
<1> QED
  BY <1>1, <1>3, <1>5, QuietSteps

-----------------------------------------------------------------------------
(* The theorems. *)

LEMMA RoomInvInit == RoomInit => RoomInv
<1> SUFFICES ASSUME RoomInit PROVE RoomInv
  OBVIOUS
<1>1. /\ room = NoRoom /\ conn = [c \in Conns |-> Unused]
      /\ up = [c \in Conns |-> <<>>] /\ queue = up
      /\ daemon = [c |-> None, session |-> NoSession] /\ desktop = Detached("none")
      /\ heard = [c \in Conns |-> [from |-> None, n |-> 0]]
      /\ used = [insts |-> 0, data |-> 0, cuts |-> 0, drops |-> 0, timeouts |-> 0]
  BY DEF RoomInit
<1>2. <<>> \in Seq(Messages) /\ Len(<<>>) = 0 /\ QueueCap \in Nat
  BY RoomAssumption
<1>3. RelayShape
  <2>1. Unused \in [st : Steps, id : Nat, inst : Nat, sent : Nat, silent : BOOLEAN]
    BY DEF Unused, Steps
  <2>2. [from |-> None, n |-> 0] \in [from : Ends, n : Nat]
    BY EndsAndNone
  <2> QED
    BY <1>1, <1>2, <2>1, <2>2, NoRoomIs DEF RelayShape
<1>4. Seats /\ Members(room) = {}
  BY <1>1, NoRoomIs DEF Seats
<1>5. Fresh /\ Lines
  BY <1>1, <1>2 DEF Fresh, Lines, Unused
<1>6. Origins
  BY <1>1, <1>2 DEF Origins, Held
<1>7. Streams
  BY <1>1, <1>2, <1>4 DEF Streams, Gapless
<1>8. EndShape /\ Held(daemon.c) /\ Held(desktop.c)
  <2>1. daemon \in [c : Ends, session : Session] /\ desktop \in Desk
    BY <1>1, EndStates, EndsAndNone DEF Outcomes
  <2>2. daemon.c = None /\ desktop.c = None
    BY <1>1 DEF Detached
  <2> QED
    BY <1>1, <2>1, <2>2 DEF EndShape, Session, Desk, Held
<1> QED
  BY <1>3, <1>4, <1>5, <1>6, <1>7, <1>8 DEF RoomInv, RelayInv

LEMMA RoomInvStep ==
  RoomInv /\ [RoomNext]_roomVars => RoomInv' /\ (heard' = heard \/ GapFree)
<1> SUFFICES ASSUME RoomInv, [RoomNext]_roomVars
             PROVE  RoomInv' /\ (heard' = heard \/ GapFree)
  OBVIOUS
<1>1. CASE UNCHANGED roomVars
  <2>1. EndShape'
    BY <1>1 DEF RoomInv, EndShape, roomVars
  <2> QED
    BY <1>1, <2>1, QuietSteps DEF roomVars
<1>2. ASSUME NEW c \in Conns, Forward(c) \/ Overflow(c) \/ RemovePeer(c) \/ Cut(c)
      PROVE  RoomInv' /\ heard' = heard
  BY <1>2, RelaySteps
<1>3. ASSUME NEW c \in Conns, DaemonJoins(c) \/ DesktopJoins(c)
      PROVE  RoomInv' /\ heard' = heard
  BY <1>3, JoinSteps
<1>4. CASE Reap
  <2>1. 1 \in Conns
    BY RoomAssumption DEF Conns
  <2> QED
    BY <1>4, <2>1, RelaySteps
<1>5. CASE DaemonHears \/ SessionReads \/ SessionSends \/ DaemonLeaves
  BY <1>5, DaemonSteps
<1>6. CASE DesktopHears
  BY <1>6, DesktopReads
<1>7. CASE DesktopLinkEnds \/ DesktopTimesOut \/ DesktopDrops \/ Heartbeat
  BY <1>7, DesktopSteps
<1> QED
  BY <1>1, <1>2, <1>3, <1>4, <1>5, <1>6, <1>7 DEF RoomNext

LEMMA RoomInvCorrect == RoomSpec => []RoomInv
<1>1. RoomInv /\ [RoomNext]_roomVars => RoomInv'
  BY RoomInvStep
<1> QED
  BY <1>1, RoomInvInit, PTL DEF RoomSpec

\* The room, its connections and the two ends keep their shape, and a room never seats
\* a third peer (handle_ws, SessionSlot).
THEOREM RoomTypes == RoomSpec => []TypeRoom
<1>1. RoomInv => TypeRoom
  <2> SUFFICES ASSUME RoomInv PROVE TypeRoom
    OBVIOUS
  <2> USE DEF RoomInv, RelayInv
  <2>1. Cardinality(room.peers) <= 2 /\ room.open = (room.peers # {})
    BY DEF Seats
  <2>2. \A c \in Conns : conn[c].st \in {"unused", "reading", "done"} /\ Len(queue[c]) <= QueueCap
    BY DEF RelayShape, Steps, Origins
  <2>3. /\ daemon.c \in Conns \cup {None} /\ daemon.session.st \in {"none", "await", "up", "dead"}
        /\ desktop.c \in Conns \cup {None}
        /\ desktop.phase \in {"idle", "waiting", "hello", "credential", "up"}
        /\ desktop.last \in {"none", "relay_unreachable", "daemon_offline",
                             "pairing_rejected", "link_lost"}
    BY DEF EndShape, Ends, Stages, Phases, Outcomes
  <2> QED
    BY <2>1, <2>2, <2>3 DEF TypeRoom
<1> QED
  BY <1>1, RoomInvCorrect, PTL

\* Nothing crosses from one room into the room that replaced it, over any number of
\* rooms (contains_peer, forward_to_others, remove_peer).
THEOREM NothingCrosses == RoomSpec => []RoomsStayApart
<1>1. RoomInv => RoomsStayApart
  <2> SUFFICES ASSUME RoomInv PROVE RoomsStayApart
    OBVIOUS
  <2> USE DEF RoomInv, RelayInv
  <2>1. ASSUME NEW c \in Conns, NEW m \in ToSet(queue[c]), m.from # None
        PROVE  conn[m.from].inst = conn[c].inst
    <3>1. queue[c] \in Seq(Messages)
      BY DEF RelayShape
    <3>2. PICK i \in 1..Len(queue[c]) : m = queue[c][i]
      BY <3>1 DEF ToSet
    <3> QED
      BY <2>1, <3>2 DEF Origins
  <2> QED
    BY <2>1, SeatOf DEF RoomsStayApart
<1> QED
  BY <1>1, RoomInvCorrect, PTL

\* What an end reads of one connection has no gap, whatever the queues lose
\* (forward_to_others ends the room whose queue is full).
THEOREM NothingIsSkipped == RoomSpec => NoSilentGap
<1>1. RoomInv /\ [RoomNext]_roomVars =>
        [\A c \in Conns : heard'[c].from = heard[c].from
                            => heard'[c].n \in {heard[c].n, heard[c].n + 1}]_heard
  BY RoomInvStep DEF GapFree
<1> QED
  BY <1>1, RoomInvCorrect, PTL DEF RoomSpec, NoSilentGap
=============================================================================
