-------------------------- MODULE RelayMuxProofs --------------------------
(***************************************************************************)
(* What holds of a multiplexed session for any number of streams, any      *)
(* credits and queue lengths, and any faults: the credit of the connection  *)
(* comes back, no end accuses the other, an orderly end is complete.  Here   *)
(* are the steps of openers and dialers, of the pumps that write and receive *)
(* frames, and of the end of a session; the bridges are in RelayMuxBridges.  *)
(***************************************************************************)
EXTENDS RelayMuxBridges

-----------------------------------------------------------------------------
(* A stream is opened, accepted or refused. *)

LEMMA UpdatesStill ==
  ASSUME QueueShape, NEW e \in Ends, NEW s \in Streams, NEW K, Grows(ctl, ctl', e, s, K),
         "WindowUpdate" \notin K
  PROVE  \A d \in Ends : wire'[d] = wire[d] => Updates(d, s)' = Updates(d, s)
<1> DEFINE w == Frame("WindowUpdate", s)
<1>1. ctl \in [Ends -> Seq(Frames)] /\ w.kind = "WindowUpdate"
  BY FrameFields DEF QueueShape
<1> HIDE DEF w
<1>2. \A d \in Ends : Count(ctl'[d], w) = Count(ctl[d], w)
  <2>1. CASE ctl' = ctl
    BY <2>1
  <2>2. CASE ctl' # ctl
    <3>1. PICK h \in Frames : h.kind \in K /\ ctl' = [ctl EXCEPT ![e] = Append(@, h)]
      BY <2>2 DEF Grows
    <3>2. ctl'[e] = Append(ctl[e], h) /\ (\A d \in Ends : d # e => ctl'[d] = ctl[d]) /\ ctl[e] \in Seq(Frames)
      BY <1>1, <3>1
    <3>3. w # h
      BY <1>1, <3>1
    <3>4. Count(Append(ctl[e], h), w) = Count(ctl[e], w) + (IF w = h THEN 1 ELSE 0)
      BY <3>2, AppendQueue
    <3>5. (IF w = h THEN 1 ELSE 0) = 0 /\ Count(ctl[e], w) \in Nat
      BY <3>2, <3>3, CountIsNat, Zenon
    <3>6. Count(ctl'[e], w) = Count(ctl[e], w)
      BY <3>2, <3>4, <3>5
    <3> QED
      BY <3>2, <3>6, Zenon
  <2> QED
    BY <2>1, <2>2
<1> QED
  BY <1>2 DEF Updates, w

\* A step of the opening of a stream, put together.
LEMMA OpeningStep ==
  ASSUME MuxInv, NEW e \in Ends, NEW s \in Streams, FarKept(e, s), NEW K \in SUBSET CtlKinds(e),
         UNCHANGED <<inbox, put, got, data>>,
         table' \in [Ends -> [Streams -> Entries]],
         \A d \in Ends, t \in Streams : d # e \/ t # s => table'[d][t] = table[d][t],
         ~ table'[e][s].present => table'[e][s] = Absent,
         sema' \in [Ends -> [Streams -> {n \in Int : n >= -1}]],
         \A d \in Ends, t \in Streams : d # e \/ t # s => sema'[d][t] = sema[d][t],
         rd' \in [Ends -> [Streams -> RdStates]], wr' \in [Ends -> [Streams -> WrStates]],
         \A d \in Ends, t \in Streams : d # e \/ t # s => rd'[d][t] = rd[d][t] /\ wr'[d][t] = wr[d][t],
         pool' \in [Ends -> 0..ConnCredit], \A d \in Ends : d # e => pool'[d] = pool[d],
         closed[e] = "open" =>
           pool'[e] + table'[e][s].outstanding = pool[e] + table[e][s].outstanding,
         opener' \in [Streams -> Openers], dialed' \in [Streams -> Dials],
         \A t \in Streams : t # s => opener'[t] = opener[t] /\ dialed'[t] = dialed[t],
         Grows(ctl, ctl', e, s, K),
         MuxShape' /\ QueueShape' => StreamInv(s)'
  PROVE  MuxInv'
<1>1. MuxShape /\ QueueShape /\ ConnectionCreditWhole
  BY DEF MuxInv
<1>2. closed' = closed /\ gap' = gap /\ wire' = wire
  BY DEF FarKept
<1>3. MuxShape'
  <2>1. /\ inbox' \in [Ends -> [Streams -> Seq(Events)]]
        /\ put' \in [Ends -> [Streams -> Nat]] /\ got' \in [Ends -> [Streams -> Nat]]
    BY ShapeParts, Zenon
  <2> QED
    BY <1>1, <1>2, <2>1, ShapeMoves, Zenon
<1>4. QueueShape' /\ QueuesApart(s)
  <2>1. Grows(ctl, ctl', e, s, CtlKinds(e)) /\ Grows(data, data', e, s, DataKinds)
    BY DEF Grows
  <2> QED
    BY <1>1, <1>2, <2>1, QueuesGrow
<1>5. OthersKept(s)
  BY <1>2 DEF OthersKept
<1>6. ConnectionCreditWhole'
  <2>1. \A d \in Ends, t \in Streams : d # e \/ t # s => table'[d][t].outstanding = table[d][t].outstanding
    OBVIOUS
  <2>2. /\ \A d \in Ends : closed'[d] = "open" => closed[d] = "open"
        /\ closed'[e] = "open" =>
             pool'[e] + table'[e][s].outstanding = pool[e] + table[e][s].outstanding
    BY <1>2
  <2> QED
    BY <1>1, <1>3, <2>1, <2>2, CreditKept, Zenon
<1> QED
  BY <1>3, <1>4, <1>5, <1>6, OneStreamMoves

LEMMA SendOpenKeeps ==
  ASSUME MuxInv, NEW s \in Streams, SendOpen(s)
  PROVE  MuxInv'
<1> DEFINE e == "desktop"
           h == Frame("Open", s)
<1>1. /\ opener[s] = "reserved" /\ opener' = [opener EXCEPT ![s] = "waiting"]
      /\ ctl' = [ctl EXCEPT ![e] = Append(@, h)]
      /\ UNCHANGED <<table, sema, pool, closed, data, wire, gap, inbox, dialed, rd, wr, put, got>>
  BY DEF SendOpen, Tell
<1>2. /\ h \in Frames /\ h.s = s /\ h.kind = "Open" /\ e \in Ends /\ Other(e) = "daemon"
      /\ "daemon" \in Ends
  BY FramesAre, FrameFields DEF Kinds, Ends, Other
<1> HIDE DEF h
<1>3. Grows(ctl, ctl', e, s, {"Open"}) /\ {"Open"} \in SUBSET CtlKinds(e)
  BY <1>1, <1>2, Zenon DEF Grows, CtlKinds
<1>4. /\ MuxShape /\ QueueShape /\ StreamInv(s) /\ ctl \in [Ends -> Seq(Frames)]
      /\ opener \in [Streams -> Openers] /\ Line("desktop", s) /\ Line("daemon", s)
  BY <1>2, ShapeParts, Zenon DEF MuxInv
<1>5. /\ ctl'["daemon"] = ctl["daemon"] /\ ctl'["desktop"] = Append(ctl["desktop"], h)
      /\ ctl["desktop"] \in Seq(Frames)
      /\ opener' \in [Streams -> Openers] /\ opener'[s] = "waiting"
      /\ \A t \in Streams : t # s => opener'[t] = opener[t]
  BY <1>1, <1>2, <1>4 DEF Openers
<1>6. FarKept(e, s)
  BY <1>1, <1>2, <1>5 DEF FarKept
<1>7. Start(s) /\ Answer(s) /\ Opening(s)
  BY <1>4 DEF StreamInv
<1>8. ASSUME MuxShape', QueueShape'
      PROVE  StreamInv(s)'
  <2>1. \A d \in Ends : Updates(d, s)' = Updates(d, s)
    BY <1>1, <1>2, <1>3, <1>4, UpdatesStill, Zenon
  <2>2. EntryShrinks(e, s)
    BY <1>1, <1>2, EntryAs
  <2>3. WriterMoves(e, s)
    <3>1. /\ wr'[e][s] = wr[e][s] /\ sema'[e][s] = sema[e][s]
          /\ table'[e][s].present => /\ table[e][s].present
                                     /\ table'[e][s].outstanding = table[e][s].outstanding
      BY <1>1
    <3> QED
      BY <1>2, <3>1, WriterStill
  <2>4. Line(e, s)'
    <3>1. put'[e][s] = put[e][s] /\ data'[e] = data[e]
      BY <1>1
    <3> QED
      BY <1>2, <1>4, <1>6, <1>8, <2>3, <3>1, SpeaksOn
  <2>5. Line("daemon", s)'
    <3>1. got'[e][s] = got[e][s] /\ inbox'[e][s] = inbox[e][s] /\ Line(Other(e), s)
      BY <1>1, <1>2, <1>4
    <3>2. Line(Other(e), s)'
      BY <1>2, <1>4, <1>6, <1>8, <2>1, <2>2, <3>1, HearsOn
    <3> QED
      BY <1>2, <3>2
  <2>6. Start(s)'
    <3>1. \A f : In(ctl'["desktop"], f) <=> In(ctl["desktop"], f) \/ f = h
      BY <1>2, <1>5, AppendQueue
    <3> QED
      BY <1>1, <1>2, <1>5, <1>7, <3>1 DEF Start, Queued, Unheard, Still, Live
  <2>7. Answer(s)'
    BY <1>1, <1>5, <1>7 DEF Answer, Queued
  <2>8. Opening(s)'
    BY <1>1, <1>5, <1>7 DEF Opening, Queued, Still, Asked
  <2> QED
    BY <2>4, <2>5, <2>6, <2>7, <2>8 DEF StreamInv, Ends
<1>9. /\ table' \in [Ends -> [Streams -> Entries]]
      /\ \A d \in Ends, t \in Streams : d # e \/ t # s => table'[d][t] = table[d][t]
      /\ ~ table'[e][s].present => table'[e][s] = Absent
      /\ sema' \in [Ends -> [Streams -> {n \in Int : n >= -1}]]
      /\ \A d \in Ends, t \in Streams : d # e \/ t # s => sema'[d][t] = sema[d][t]
      /\ rd' \in [Ends -> [Streams -> RdStates]] /\ wr' \in [Ends -> [Streams -> WrStates]]
      /\ \A d \in Ends, t \in Streams : d # e \/ t # s => rd'[d][t] = rd[d][t] /\ wr'[d][t] = wr[d][t]
      /\ pool' \in [Ends -> 0..ConnCredit] /\ dialed' \in [Streams -> Dials]
      /\ pool'[e] + table'[e][s].outstanding = pool[e] + table[e][s].outstanding
      /\ \A d \in Ends : d # e => pool'[d] = pool[d]
      /\ \A t \in Streams : t # s => opener'[t] = opener[t] /\ dialed'[t] = dialed[t]
  BY <1>1, <1>2, <1>5, ShapeParts, Zenon DEF Live
<1>10. /\ UNCHANGED <<inbox, put, got, data>> /\ e \in Ends /\ opener' \in [Streams -> Openers]
       /\ Grows(ctl, ctl', e, s, {"Open"}) /\ {"Open"} \in SUBSET CtlKinds(e)
       /\ MuxShape' /\ QueueShape' => StreamInv(s)'
       /\ closed[e] = "open" =>
            pool'[e] + table'[e][s].outstanding = pool[e] + table[e][s].outstanding
  BY <1>1, <1>2, <1>3, <1>5, <1>8, <1>9
<1> HIDE DEF e
<1> QED
  BY <1>6, <1>9, <1>10, OpeningStep, Zenon

LEMMA ReserveKeeps ==
  ASSUME MuxInv, NEW s \in Streams, Reserve(s)
  PROVE  MuxInv'
<1> DEFINE e == "desktop"
           o == "daemon"
<1>1. /\ opener[s] = "idle" /\ closed[e] = "open"
      /\ table' = [table EXCEPT ![e][s] = Fresh(TRUE)]
      /\ sema' = [sema EXCEPT ![e][s] = StreamCredit]
      /\ opener' = [opener EXCEPT ![s] = "reserved"]
      /\ UNCHANGED <<pool, closed, ctl, data, wire, gap, inbox, dialed, rd, wr, put, got>>
  BY DEF Reserve
<1>2. e \in Ends /\ o \in Ends /\ Other(e) = o /\ Other(o) = e /\ o # e
  BY DEF Ends, Other
<1>3. /\ MuxShape /\ QueueShape /\ StreamInv(s) /\ Line(e, s) /\ Line(o, s)
      /\ table \in [Ends -> [Streams -> Entries]] /\ table[e][s] \in Entries
      /\ opener \in [Streams -> Openers] /\ (~ Live(e, s) => table[e][s] = Absent)
      /\ sema \in [Ends -> [Streams -> {n \in Int : n >= -1}]]
  BY <1>2, ShapeParts, Zenon DEF MuxInv
<1>4. Start(s) /\ Answer(s) /\ Opening(s)
  BY <1>3 DEF StreamInv
<1>5. /\ dialed[s] = "none" /\ ~ Live(e, s) /\ Unheard(e, s) /\ Unheard(o, s) /\ ~ Live(o, s)
      /\ \A d \in Ends : /\ Still(d, s) /\ inbox[d][s] = <<>> /\ put[d][s] = 0 /\ got[d][s] = 0
  BY <1>1, <1>4 DEF Start
<1>6. table[e][s] = Absent /\ table[e][s].outstanding = 0
  BY <1>3, <1>5, FreshEntry
<1> DEFINE r == Fresh(TRUE)
<1>7. /\ r \in Entries /\ r.present /\ r.outstanding = 0 /\ r.unread = 0 /\ ~ r.rfin
      /\ ~ r.lfin /\ r.opening
  BY FreshEntry, Zenon
<1> HIDE DEF r
<1>8. /\ table' \in [Ends -> [Streams -> Entries]] /\ table'[e][s] = r
      /\ \A d \in Ends, t \in Streams : d # e \/ t # s => table'[d][t] = table[d][t]
  <2>1. table' = [table EXCEPT ![e][s] = r]
    BY <1>1 DEF r
  <2> QED
    BY <1>2, <1>3, <1>7, <2>1, Place
<1>9. /\ sema' \in [Ends -> [Streams -> {n \in Int : n >= -1}]] /\ sema'[e][s] = StreamCredit
      /\ \A d \in Ends, t \in Streams : d # e \/ t # s => sema'[d][t] = sema[d][t]
  <2>1. StreamCredit \in {n \in Int : n >= -1}
    BY MuxAssumption
  <2>2. sema' = [sema EXCEPT ![e][s] = StreamCredit]
    BY <1>1
  <2> QED
    BY <1>2, <1>3, <2>1, <2>2, Place
<1>10. /\ opener' \in [Streams -> Openers] /\ opener'[s] = "reserved"
       /\ \A t \in Streams : t # s => opener'[t] = opener[t]
  BY <1>1, <1>3 DEF Openers
<1>11. FarKept(e, s)
  BY <1>1, <1>2, <1>8, <1>9, Zenon DEF FarKept
<1>12. Updates(o, s) = 0
  <2> DEFINE w == Frame("WindowUpdate", s)
  <2>1. w \in Frames /\ w.s = s
    BY FramesAre, FrameFields DEF Kinds
  <2>2. ~ In(wire[o], w) /\ ~ In(ctl[o], w)
    BY <1>5, <2>1 DEF Unheard, Queued
  <2>3. ctl[o] \in Seq(Frames) /\ wire[o] \in Seq(Frames)
    BY <1>2, ShapeParts
  <2>4. Count(wire[o], w) = 0 /\ Count(ctl[o], w) = 0
    BY <2>2, <2>3, CountIsNat, Zenon
  <2> QED
    BY <2>4 DEF Updates
<1>13. \A d \in Ends : Updates(d, s)' = Updates(d, s)
  BY <1>1 DEF Updates
<1>14. \A g \in Items(s) : ~ InFlight(o, g)
  BY <1>5, ItemIs DEF Unheard, Queued, InFlight
<1>15. ASSUME MuxShape', QueueShape'
       PROVE  StreamInv(s)'
  <2>1. Line(e, s)'
    <3>1. Inbox(e, s) /\ Sent(e, s) /\ Window(e, s) /\ Order(e, s)
      BY <1>3 DEF Line
    <3>2. /\ closed' = closed /\ gap' = gap /\ wire' = wire /\ data' = data
          /\ table'[o][s] = table[o][s] /\ inbox'[o][s] = inbox[o][s] /\ rd'[o][s] = rd[o][s]
          /\ got'[o][s] = got[o][s] /\ put'[e][s] = put[e][s] /\ wr'[e][s] = wr[e][s]
      BY <1>1, <1>2, <1>8
    <3>3. Inbox(e, s)'
      BY <1>2, <1>3, <1>15, <3>1, <3>2, InboxKept, Zenon
    <3>4. Sent(e, s)'
      <4>1. In(wire'[e], Frame("Fin", s)) \/ In(data'[e], Frame("Fin", s)) => InFlight(e, Frame("Fin", s))
        BY <3>2 DEF InFlight
      <4> QED
        BY <1>2, <1>3, <1>15, <3>1, <3>2, <4>1, SentKept, Zenon
    <3>5. Order(e, s)'
      <4>1. ItemsKept(wire[e], wire'[e], s) /\ ItemsKept(data[e], data'[e], s)
        BY <3>2, SameSelf
      <4> QED
        BY <1>2, <1>3, <1>15, <3>1, <3>2, <4>1, OrderKept, Zenon
    <3>6. Window(e, s)'
      <4>1. StreamCredit \in Nat /\ StreamCredit > 0
        BY MuxAssumption
      <4>2. Free(e, s)' = StreamCredit /\ Holds(e, s)' = 0 /\ Taken(e, s)' = 0
        BY <1>2, <1>5, <1>9, <3>2, <4>1 DEF Free, Holds, Taken, Still
      <4>3. put'[e][s] - got'[o][s] + Updates(o, s)' = 0
        BY <1>2, <1>5, <1>12, <1>13, <3>2
      <4>4. table'[e][s].outstanding = 0
        BY <1>7, <1>8
      <4> QED
        BY <1>2, <1>9, <4>1, <4>2, <4>3, <4>4 DEF Window
    <3> QED
      BY <3>3, <3>4, <3>5, <3>6 DEF Line
  <2>2. Line(o, s)'
    <3>1. Inbox(o, s) /\ Sent(o, s) /\ Window(o, s) /\ Order(o, s)
      BY <1>3 DEF Line
    <3>2. /\ closed' = closed /\ gap' = gap /\ wire' = wire /\ data' = data
          /\ table'[o][s] = table[o][s] /\ inbox'[e][s] = <<>> /\ rd'[e][s] = "off"
          /\ got'[e][s] = 0 /\ put'[o][s] = 0 /\ wr'[o][s] = wr[o][s] /\ sema'[o][s] = sema[o][s]
      BY <1>1, <1>2, <1>5, <1>8, <1>9 DEF Still
    <3>3. Inbox(o, s)'
      <4>1. 0 <= Chunks[o] /\ Len(<<>>) = 0
        BY <1>2, MuxAssumption
      <4>2. Unread(e, s)' = 0 /\ ~ Ending(e, s)'
        BY <1>7, <1>8 DEF Unread, Ending
      <4>3. Len(inbox'[e][s]) = 0
        BY <3>2, <4>1
      <4>4. Len(inbox'[e][s]) = Unread(e, s)' + (IF Ending(e, s)' THEN 1 ELSE 0)
        BY <4>2, <4>3
      <4>5. 1..Len(inbox'[e][s]) = {} /\ 1..Unread(e, s)' = {}
        BY <4>2, <4>3
      <4>6. got'[e][s] <= put'[o][s] /\ put'[o][s] <= Chunks[o] /\ rd'[e][s] # "ended"
        BY <3>2, <4>1
      <4> HIDE DEF e, o
      <4>7. e = Other(o)
        BY <1>2
      <4> QED
        BY <4>2, <4>4, <4>5, <4>6, <4>7 DEF Inbox
    <3>4. Sent(o, s)'
      <4>1. In(wire'[o], Frame("Fin", s)) \/ In(data'[o], Frame("Fin", s)) => InFlight(o, Frame("Fin", s))
        BY <3>2 DEF InFlight
      <4>2. ~ table'[e][s].rfin /\ rd'[e][s] = rd[e][s] /\ put'[o][s] = put[o][s]
            /\ inbox'[e][s] = inbox[e][s]
        BY <1>1, <1>7, <1>8, Zenon
      <4> QED
        BY <1>2, <1>3, <1>15, <3>1, <3>2, <4>1, <4>2, SentKept, Zenon
    <3>5. Window(o, s)'
      <4>1. Free(o, s)' = Free(o, s) /\ Holds(o, s)' = Holds(o, s) /\ Taken(o, s)' = Taken(o, s)
        BY <3>2 DEF Free, Holds, Taken
      <4>2. put'[o][s] = put[o][s] /\ got'[e][s] = got[e][s]
        BY <1>1
      <4> QED
        BY <1>2, <1>13, <3>1, <3>2, <4>1, <4>2 DEF Window, Live
    <3>6. Order(o, s)'
      <4>1. Read(e, s)' = 0
        BY <1>7, <1>8, <3>2 DEF Read, Unread
      <4>2. \A m \in Nat : ~ (m > 0 /\ m <= 0)
        OBVIOUS
      <4>3. \A g \in Items(s) : ~ InFlight(o, g)'
        BY <1>14, <3>2 DEF InFlight
      <4>4. ASSUME NEW g \in Items(s)
            PROVE  InOrder(o, g)'
        <5>1. g.s = s /\ ~ In(wire'[o], g) /\ ~ In(data'[o], g)
          BY <4>3, <4>4, ItemIs DEF InFlight
        <5>2. Once(wire'[o], g) /\ Once(data'[o], g)
          BY <5>1 DEF In, Once
        <5>3. Earlier(o, g)' = {}
          BY <1>2, <3>2, <4>1, <4>2, <5>1 DEF Earlier
        <5> QED
          BY <4>3, <5>1, <5>2, <5>3 DEF InOrder
      <4> QED
        BY <1>2, <3>2, <4>1, <4>2, <4>4 DEF Order
    <3> QED
      BY <3>3, <3>4, <3>5, <3>6 DEF Line
  <2>3. Start(s)'
    BY <1>1, <1>2, <1>4, <1>5, <1>8, <1>10 DEF Start, Unheard, Queued, Still, Live
  <2>4. Answer(s)'
    BY <1>1, <1>4 DEF Answer, Queued
  <2>5. Opening(s)'
    <3>1. /\ table'[o][s] = table[o][s] /\ table'[e][s].opening /\ ~ table'[e][s].lfin
          /\ Still(e, s)'
      BY <1>1, <1>2, <1>5, <1>7, <1>8, Zenon DEF Still
    <3> QED
      BY <1>1, <1>4, <1>5, <1>10, <3>1, Zenon DEF Opening, Asked
  <2> QED
    BY <2>1, <2>2, <2>3, <2>4, <2>5 DEF StreamInv, Ends
<1>16. /\ rd' \in [Ends -> [Streams -> RdStates]] /\ wr' \in [Ends -> [Streams -> WrStates]]
       /\ \A d \in Ends, t \in Streams : d # e \/ t # s => rd'[d][t] = rd[d][t] /\ wr'[d][t] = wr[d][t]
       /\ pool' \in [Ends -> 0..ConnCredit] /\ dialed' \in [Streams -> Dials]
       /\ closed[e] = "open" => pool'[e] + table'[e][s].outstanding = pool[e] + table[e][s].outstanding
       /\ \A d \in Ends : d # e => pool'[d] = pool[d]
       /\ \A t \in Streams : t # s => opener'[t] = opener[t] /\ dialed'[t] = dialed[t]
       /\ ~ table'[e][s].present => table'[e][s] = Absent
  BY <1>1, <1>6, <1>7, <1>8, <1>10, ShapeParts, Zenon
<1>17. /\ UNCHANGED <<inbox, put, got, data>> /\ e \in Ends
       /\ Grows(ctl, ctl', e, s, {}) /\ {} \in SUBSET CtlKinds(e)
       /\ MuxShape' /\ QueueShape' => StreamInv(s)'
  BY <1>1, <1>2, <1>15 DEF Grows
<1> HIDE DEF e
<1> QED
  BY <1>8, <1>9, <1>10, <1>11, <1>16, <1>17, OpeningStep, Zenon

\* The daemon's answer is queued before anything else of the stream.
LEMMA AnswerGiven ==
  ASSUME NEW s \in Streams, NEW e, e = "daemon", ctl[e] \in Seq(Frames), NEW h \in Frames,
         h.kind \in {"Opened", "OpenFailed"}, ctl'[e] = Append(ctl[e], h), wire'[e] = wire[e],
         \A f \in Answers(s) \cup {Frame("Reset", s)} : ~ Queued(e, f),
         dialed'[s] \notin {"none", "dialing"}
  PROVE  Answer(s)'
<1> DEFINE R == Frame("Reset", s)
<1>1. h # R
  BY FrameFields
<1> HIDE DEF R
<1>2. \A f \in Answers(s) \cup {R} : ~ In(wire[e], f) /\ ~ In(ctl[e], f)
  BY DEF Queued, R
<1>3. \A f : In(ctl'[e], f) <=> In(ctl[e], f) \/ f = h
  BY AppendQueue
<1>4. \A f \in Answers(s) : Once(ctl'[e], f) /\ Once(wire[e], f)
  <2>1. \A f \in Answers(s) : Once(ctl[e], f) /\ Once(wire[e], f)
    BY <1>2 DEF In, Once
  <2>2. \A f : Once(ctl[e], f) /\ (f = h => ~ In(ctl[e], f)) => Once(ctl'[e], f)
    BY AppendQueue
  <2> QED
    BY <1>2, <2>1, <2>2
<1>5. ~ In(ctl'[e], R) /\ ~ In(wire[e], R)
  BY <1>1, <1>2, <1>3
<1>6. \A f \in Answers(s) : Leads(wire[e], f, R) /\ Leads(ctl'[e], f, R)
  BY <1>5 DEF In, Leads
<1>7. \A f \in Answers(s) : ~ (In(wire[e], f) /\ In(ctl'[e], f))
  BY <1>2
<1>8. \A f, g \in Answers(s) : Queued(e, f)' /\ Queued(e, g)' => f = g
  BY <1>2, <1>3 DEF Queued
<1> QED
  BY <1>4, <1>5, <1>6, <1>7, <1>8 DEF Answer, R

\* The daemon has its answer: at most one frame, and it is the first of the stream.
LEMMA AnsweredStep ==
  ASSUME MuxInv, NEW s \in Streams, NEW e, e = "daemon", dialed[s] = "dialing", dialed'[s] = "done",
         UNCHANGED <<closed, data, wire, gap, inbox, opener, put, got>>, FarKept(e, s),
         Grows(ctl, ctl', e, s, {"Opened", "OpenFailed"}), ~ table'[e][s].opening,
         EntryShrinks(e, s), WriterMoves(e, s), MuxShape', QueueShape'
  PROVE  StreamInv(s)'
<1> DEFINE R == Frame("Reset", s)
<1>1. e \in Ends /\ Other(e) = "desktop" /\ "desktop" \in Ends
  BY DEF Ends, Other
<1>2. MuxShape /\ QueueShape /\ StreamInv(s) /\ Line(e, s) /\ Line(Other(e), s) /\ ctl[e] \in Seq(Frames)
  BY <1>1, ShapeParts DEF MuxInv
<1>3. Start(s) /\ Answer(s) /\ Opening(s)
  BY <1>2 DEF StreamInv
<1>4. \A d \in Ends : Updates(d, s)' = Updates(d, s)
  <2>1. "WindowUpdate" \notin {"Opened", "OpenFailed"}
    OBVIOUS
  <2> QED
    BY <1>1, <1>2, <2>1, UpdatesStill
<1>5. Line(e, s)'
  <2>1. put'[e][s] = put[e][s] /\ data'[e] = data[e]
    OBVIOUS
  <2> QED
    BY <1>1, <1>2, <2>1, SpeaksOn
<1>6. Line(Other(e), s)'
  <2>1. got'[e][s] = got[e][s] /\ inbox'[e][s] = inbox[e][s]
    OBVIOUS
  <2> QED
    BY <1>1, <1>2, <1>4, <2>1, HearsOn
<1>7. opener[s] # "idle"
  BY <1>3 DEF Start
<1>8. Start(s)'
  BY <1>7, StartLate
<1>9. /\ \A f \in Answers(s) \cup {R} : ~ Queued("daemon", f)
      /\ R.kind = "Reset" /\ \A f \in Answers(s) : f.kind \in {"Opened", "OpenFailed"}
  BY <1>3, FrameFields DEF Answer, Answers
<1> HIDE DEF R
<1>10. Answer(s)'
  <2>1. CASE ctl' = ctl
    <3>1. \A f \in Answers(s) \cup {R} : ~ In(wire'["daemon"], f) /\ ~ In(ctl'["daemon"], f)
      BY <1>9, <2>1 DEF Queued
    <3>2. \A f \in Answers(s) : /\ Once(wire'["daemon"], f) /\ Once(ctl'["daemon"], f)
                                /\ Leads(wire'["daemon"], f, R) /\ Leads(ctl'["daemon"], f, R)
      BY <3>1 DEF In, Once, Leads
    <3> QED
      BY <3>1, <3>2 DEF Answer, Queued, R
  <2>2. CASE ctl' # ctl
    <3>1. PICK h \in Frames : h.kind \in {"Opened", "OpenFailed"} /\ ctl' = [ctl EXCEPT ![e] = Append(@, h)]
      BY <2>2 DEF Grows
    <3>2. ctl'[e] = Append(ctl[e], h) /\ wire' = wire
      BY <1>1, <3>1, ShapeParts
    <3>3. \A f \in Answers(s) \cup {Frame("Reset", s)} : ~ Queued("daemon", f)
      BY <1>9 DEF R
    <3> QED
      BY <1>2, <3>1, <3>2, <3>3, AnswerGiven
  <2> QED
    BY <2>1, <2>2
<1>11. Opening(s)'
  <2>1. /\ table'["desktop"][s] = table["desktop"][s] /\ rd'["desktop"][s] = rd["desktop"][s]
        /\ wr'["desktop"][s] = wr["desktop"][s] /\ opener' = opener /\ closed' = closed
    BY <1>1 DEF FarKept
  <2>2. closed["desktop"] = "open" => opener[s] \in Asked
    BY <1>3 DEF Opening
  <2> QED
    BY <1>3, <1>7, <2>1, <2>2 DEF Opening, Still
<1> QED
  BY <1>1, <1>5, <1>6, <1>8, <1>10, <1>11 DEF StreamInv, Ends

LEMMA AcceptKeeps ==
  ASSUME MuxInv, NEW s \in Streams, Accept(s)
  PROVE  MuxInv'
<1> DEFINE e == "daemon"
           h == Frame("Opened", s)
<1>1. /\ dialed[s] = "dialing" /\ dialed' = [dialed EXCEPT ![s] = "done"]
      /\ ctl' = [ctl EXCEPT ![e] = Append(@, h)]
      /\ rd' = [rd EXCEPT ![e][s] = "reading"] /\ wr' = [wr EXCEPT ![e][s] = "idle"]
      /\ UNCHANGED <<table, sema, pool, closed, data, wire, gap, inbox, opener, put, got>>
  BY DEF Accept, Tell, Bridge
<1>2. /\ h \in Frames /\ h.s = s /\ h.kind = "Opened" /\ e \in Ends /\ Other(e) = "desktop"
  BY FramesAre, FrameFields DEF Kinds, Ends, Other
<1> HIDE DEF h
<1>3. /\ ctl \in [Ends -> Seq(Frames)] /\ dialed \in [Streams -> Dials]
      /\ rd \in [Ends -> [Streams -> RdStates]] /\ wr \in [Ends -> [Streams -> WrStates]]
      /\ StreamInv(s) /\ Line(e, s)
  BY <1>2, ShapeParts, Zenon
<1>4. /\ dialed' \in [Streams -> Dials] /\ dialed'[s] = "done"
      /\ \A t \in Streams : t # s => opener'[t] = opener[t] /\ dialed'[t] = dialed[t]
      /\ \A d \in Ends : d # e => ctl'[d] = ctl[d]
  BY <1>1, <1>3 DEF Dials
<1>5. /\ rd' \in [Ends -> [Streams -> RdStates]] /\ rd'[e][s] = "reading"
      /\ \A d \in Ends, t \in Streams : d # e \/ t # s => rd'[d][t] = rd[d][t]
  <2>1. "reading" \in RdStates
    BY DEF RdStates
  <2> QED
    BY <1>1, <1>2, <1>3, <2>1, Place
<1>6. /\ wr' \in [Ends -> [Streams -> WrStates]] /\ wr'[e][s] = "idle"
      /\ \A d \in Ends, t \in Streams : d # e \/ t # s => wr'[d][t] = wr[d][t]
  <2>1. "idle" \in WrStates
    BY DEF WrStates
  <2> QED
    BY <1>1, <1>2, <1>3, <2>1, Place
<1>7. rd[e][s] = "off" /\ wr[e][s] = "off" /\ ~ table[e][s].opening
  BY <1>1, <1>3 DEF StreamInv, Start, Still, Opening
<1>8. FarKept(e, s)
  BY <1>1, <1>2, <1>4, <1>5, <1>6 DEF FarKept, Ends
<1>9. EntryShrinks(e, s)
  BY <1>1, <1>5, <1>7 DEF EntryShrinks
<1>10. WriterMoves(e, s)
  <2>1. Free(e, s) \in Nat /\ table[e][s].outstanding \in Nat
    BY <1>2, HoldingsAreNat DEF MuxInv
  <2>2. /\ Free(e, s)' = Free(e, s) /\ Holds(e, s)' = 0 /\ Holds(e, s) = 0
        /\ Taken(e, s)' = 0 /\ Taken(e, s) = 0
    BY <1>1, <1>6, <1>7 DEF Free, Holds, Taken
  <2>3. table[e][s].present => sema[e][s] >= 0
    BY <1>3 DEF Line, Window, Live
  <2> QED
    BY <1>1, <1>6, <1>7, <2>1, <2>2, <2>3 DEF WriterMoves
<1>11. Grows(ctl, ctl', e, s, {"Opened", "OpenFailed"})
  BY <1>1, <1>2, Zenon DEF Grows
<1>12. MuxShape' /\ QueueShape' => StreamInv(s)'
  BY <1>1, <1>4, <1>7, <1>8, <1>9, <1>10, <1>11, AnsweredStep, Zenon
<1>13. /\ table' \in [Ends -> [Streams -> Entries]]
       /\ \A d \in Ends, t \in Streams : d # e \/ t # s => table'[d][t] = table[d][t]
       /\ ~ table'[e][s].present => table'[e][s] = Absent
       /\ sema' \in [Ends -> [Streams -> {n \in Int : n >= -1}]]
       /\ \A d \in Ends, t \in Streams : d # e \/ t # s => sema'[d][t] = sema[d][t]
       /\ \A d \in Ends, t \in Streams : d # e \/ t # s => rd'[d][t] = rd[d][t] /\ wr'[d][t] = wr[d][t]
       /\ pool' \in [Ends -> 0..ConnCredit] /\ opener' \in [Streams -> Openers]
       /\ closed[e] = "open" => pool'[e] + table'[e][s].outstanding = pool[e] + table[e][s].outstanding
       /\ \A d \in Ends : d # e => pool'[d] = pool[d]
  <2>1. /\ table \in [Ends -> [Streams -> Entries]] /\ (~ table[e][s].present => table[e][s] = Absent)
        /\ sema \in [Ends -> [Streams -> {n \in Int : n >= -1}]]
        /\ pool \in [Ends -> 0..ConnCredit] /\ opener \in [Streams -> Openers]
    BY <1>2, ShapeParts, Zenon DEF Live
  <2>2. table' = table /\ sema' = sema /\ pool' = pool /\ opener' = opener
    BY <1>1
  <2>3. \A d \in Ends, t \in Streams : d # e \/ t # s => rd'[d][t] = rd[d][t] /\ wr'[d][t] = wr[d][t]
    BY <1>5, <1>6
  <2> HIDE DEF e
  <2> QED
    BY <2>1, <2>2, <2>3
<1>14. /\ UNCHANGED <<inbox, put, got, data>> /\ e \in Ends
       /\ {"Opened", "OpenFailed"} \in SUBSET CtlKinds(e)
  BY <1>1, <1>2 DEF CtlKinds
<1> HIDE DEF e
<1> QED
  BY <1>4, <1>5, <1>6, <1>8, <1>11, <1>12, <1>13, <1>14, OpeningStep, Zenon

LEMMA RefuseKeeps ==
  ASSUME MuxInv, NEW s \in Streams, Refuse(s)
  PROVE  MuxInv'
<1> DEFINE e == "daemon"
           h == Frame("OpenFailed", s)
<1>1. /\ dialed[s] = "dialing" /\ dialed' = [dialed EXCEPT ![s] = "done"]
      /\ IF Live(e, s) THEN Removed(e, s) /\ Refund(e, s) /\ Tell(e, h) ELSE UNCHANGED <<table, pool, ctl>>
      /\ UNCHANGED <<sema, closed, data, wire, gap, inbox, opener, rd, wr, put, got>>
  BY DEF Refuse
<1>2. /\ h \in Frames /\ h.s = s /\ h.kind = "OpenFailed" /\ e \in Ends /\ Other(e) = "desktop"
  BY FramesAre, FrameFields DEF Kinds, Ends, Other
<1> HIDE DEF h
<1>3. /\ ctl \in [Ends -> Seq(Frames)] /\ dialed \in [Streams -> Dials]
      /\ table \in [Ends -> [Streams -> Entries]] /\ pool \in [Ends -> 0..ConnCredit]
      /\ StreamInv(s) /\ Line(e, s) /\ (~ Live(e, s) => table[e][s] = Absent)
  BY <1>2, ShapeParts, Zenon
<1>4. /\ dialed' \in [Streams -> Dials] /\ dialed'[s] = "done"
      /\ \A t \in Streams : t # s => opener'[t] = opener[t] /\ dialed'[t] = dialed[t]
  BY <1>1, <1>3 DEF Dials
<1>5. /\ table' \in [Ends -> [Streams -> Entries]] /\ table'[e][s] = Absent
      /\ \A d \in Ends, t \in Streams : d # e \/ t # s => table'[d][t] = table[d][t]
      /\ pool' \in [Ends -> 0..ConnCredit] /\ \A d \in Ends : d # e => pool'[d] = pool[d]
      /\ closed[e] = "open" => pool'[e] + table'[e][s].outstanding = pool[e] + table[e][s].outstanding
      /\ Grows(ctl, ctl', e, s, {"Opened", "OpenFailed"})
      /\ \A d \in Ends : d # e => ctl'[d] = ctl[d]
  <2>1. CASE ~ Live(e, s)
    <3>1. table' = table /\ pool' = pool /\ ctl' = ctl
      BY <1>1, <2>1
    <3> QED
      BY <1>3, <2>1, <3>1 DEF Grows
  <2>2. CASE Live(e, s)
    <3>1. /\ table' = [table EXCEPT ![e][s] = Absent]
          /\ pool' = [pool EXCEPT ![e] = IF closed[e] = "open" THEN @ + table[e][s].outstanding ELSE @]
          /\ ctl' = [ctl EXCEPT ![e] = Append(@, h)]
      BY <1>1, <2>2 DEF Removed, Refund, Tell
    <3>2. /\ table' \in [Ends -> [Streams -> Entries]] /\ table'[e][s] = Absent
          /\ \A d \in Ends, t \in Streams : d # e \/ t # s => table'[d][t] = table[d][t]
      BY <1>2, <1>3, <3>1, FreshEntry, Place
    <3>3. closed[e] = "open" => pool[e] + table[e][s].outstanding \in 0..ConnCredit
      BY <1>2, RefundFits DEF MuxInv
    <3>4. /\ pool' \in [Ends -> 0..ConnCredit] /\ \A d \in Ends : d # e => pool'[d] = pool[d]
          /\ closed[e] = "open" => pool'[e] = pool[e] + table[e][s].outstanding
      BY <1>2, <1>3, <3>1, <3>3
    <3>5. closed[e] = "open" => pool'[e] + table'[e][s].outstanding = pool[e] + table[e][s].outstanding
      BY <3>2, <3>3, <3>4, FreshEntry
    <3>6. Grows(ctl, ctl', e, s, {"Opened", "OpenFailed"}) /\ \A d \in Ends : d # e => ctl'[d] = ctl[d]
      BY <1>2, <1>3, <3>1, Zenon DEF Grows
    <3> QED
      BY <3>2, <3>4, <3>5, <3>6
  <2> QED
    BY <2>1, <2>2
<1>6. ~ table'[e][s].present /\ ~ table'[e][s].rfin /\ ~ table'[e][s].opening
  BY <1>5, FreshEntry
<1>7. rd[e][s] = "off" /\ wr[e][s] = "off"
  BY <1>1, <1>3 DEF StreamInv, Start, Still
<1>8. FarKept(e, s)
  BY <1>1, <1>2, <1>5 DEF FarKept, Ends
<1>9. EntryShrinks(e, s)
  BY <1>1, <1>6, <1>7 DEF EntryShrinks
<1>10. WriterMoves(e, s)
  <2>1. wr'[e][s] = wr[e][s] /\ sema'[e][s] = sema[e][s]
    BY <1>1
  <2> QED
    BY <1>2, <1>6, <2>1, WriterStill
<1>12. MuxShape' /\ QueueShape' => StreamInv(s)'
  BY <1>1, <1>4, <1>5, <1>6, <1>8, <1>9, <1>10, AnsweredStep
<1>13. /\ ~ table'[e][s].present => table'[e][s] = Absent
       /\ sema' \in [Ends -> [Streams -> {n \in Int : n >= -1}]]
       /\ \A d \in Ends, t \in Streams : d # e \/ t # s => sema'[d][t] = sema[d][t]
       /\ rd' \in [Ends -> [Streams -> RdStates]] /\ wr' \in [Ends -> [Streams -> WrStates]]
       /\ \A d \in Ends, t \in Streams : d # e \/ t # s => rd'[d][t] = rd[d][t] /\ wr'[d][t] = wr[d][t]
       /\ opener' \in [Streams -> Openers]
  BY <1>1, <1>5, ShapeParts, Zenon
<1>14. /\ UNCHANGED <<inbox, put, got, data>> /\ e \in Ends
       /\ {"Opened", "OpenFailed"} \in SUBSET CtlKinds(e)
  BY <1>1, <1>2 DEF CtlKinds
<1> HIDE DEF e
<1> QED
  BY <1>4, <1>5, <1>8, <1>12, <1>13, <1>14, OpeningStep, Zenon

-----------------------------------------------------------------------------
(* The writer task. *)

WriteRest ==
  UNCHANGED <<table, sema, pool, closed, gap, inbox, opener, dialed, rd, wr, put, got>>

\* A frame of s moves from a queue of e to the wire.
LEMMA MovesOne ==
  ASSUME MuxInv, WriteRest, QueueShape', NEW s \in Streams, QueuesApart(s), StreamInv(s)'
  PROVE  MuxInv'
<1>1. UNCHANGED <<table, sema, pool, closed, gap, inbox, opener, dialed, rd, wr, put, got>>
  BY DEF WriteRest
<1>2. MuxShape /\ QueueShape /\ ConnectionCreditWhole
  BY DEF MuxInv
<1>3. MuxShape'
  BY <1>1, <1>2, Zenon DEF MuxShape, Live
<1>4. OthersKept(s)
  BY <1>1 DEF OthersKept
<1>5. ConnectionCreditWhole'
  BY <1>1, <1>2, <1>3, CreditSame
<1> QED
  BY <1>3, <1>4, <1>5, OneStreamMoves

\* All of a line but the order of its frames.
LEMMA LineMoves ==
  ASSUME MuxInv, WriteRest, QueueShape', NEW d \in Ends, NEW s \in Streams, Order(d, s)',
         In(wire'[d], Frame("Fin", s)) \/ In(data'[d], Frame("Fin", s)) => InFlight(d, Frame("Fin", s)),
         Updates(Other(d), s)' = Updates(Other(d), s)
  PROVE  Line(d, s)'
<1> DEFINE o == Other(d)
<1>1. UNCHANGED <<table, sema, pool, closed, gap, inbox, opener, dialed, rd, wr, put, got>>
  BY DEF WriteRest
<1>2. MuxShape /\ QueueShape /\ Line(d, s) /\ o \in Ends
  BY ShapeParts, TheOther DEF MuxInv
<1>3. MuxShape'
  BY <1>1, <1>2, Zenon DEF MuxShape, Live
<1>4. Inbox(d, s) /\ Sent(d, s) /\ Window(d, s)
  BY <1>2 DEF Line
<1>5. Inbox(d, s)'
  BY <1>1, <1>2, <1>3, <1>4, InboxKept
<1>6. Sent(d, s)'
  BY <1>1, <1>2, <1>3, <1>4, SentKept
<1>7. Window(d, s)'
  <2>1. Free(d, s)' = Free(d, s) /\ Holds(d, s)' = Holds(d, s) /\ Taken(d, s)' = Taken(d, s)
    BY <1>1 DEF Free, Holds, Taken
  <2> QED
    BY <1>1, <1>4, <2>1 DEF Window, Live
<1> QED
  BY <1>5, <1>6, <1>7 DEF Line

\* Everything but the lines and the answers.
LEMMA MovesRest ==
  ASSUME MuxInv, WriteRest, NEW s \in Streams,
         \A d \in Ends, f \in Frames : f.s = s =>
           /\ In(wire'[d], f) => In(wire[d], f) \/ In(ctl[d], f) \/ In(data[d], f)
           /\ In(wire'[d], f) /\ f.kind \notin DataKinds => In(wire[d], f) \/ In(ctl[d], f)
           /\ In(ctl'[d], f) => In(ctl[d], f)
           /\ In(data'[d], f) => In(data[d], f)
  PROVE  Start(s)' /\ Opening(s)'
<1>1. UNCHANGED <<table, sema, pool, closed, gap, inbox, opener, dialed, rd, wr, put, got>>
  BY DEF WriteRest
<1>2. Start(s) /\ Opening(s)
  BY ShapeParts DEF StreamInv, Ends
<1>3. "desktop" \in Ends /\ "daemon" \in Ends
  BY DEF Ends
<1>4. ASSUME NEW d \in Ends, NEW f \in Frames, f.s = s
      PROVE  /\ Queued(d, f)' => Queued(d, f) \/ In(data[d], f)
             /\ In(data'[d], f) => In(data[d], f)
             /\ Queued(d, f)' /\ f.kind \notin DataKinds => Queued(d, f)
  BY <1>4 DEF Queued
<1>5. ASSUME NEW d \in Ends, Unheard(d, s)
      PROVE  Unheard(d, s)'
  BY <1>4, <1>5 DEF Unheard
<1>6. Start(s)'
  <2>1. ASSUME dialed[s] = "none", NEW f \in Frames, f.s = s
        PROVE  ~ In(data'["desktop"], f) /\ (Queued("desktop", f)' => f.kind = "Open")
    BY <1>2, <1>3, <1>4, <2>1 DEF Start
  <2> QED
    BY <1>1, <1>2, <1>3, <1>5, <2>1 DEF Start, Still, Live
<1>7. Opening(s)'
  <2>1. \A f \in Answers(s) : f \in Frames /\ f.s = s /\ f.kind \notin DataKinds
    BY FramesAre, FrameFields DEF Answers, Kinds, DataKinds
  <2>2. \A f \in Answers(s) : Queued("daemon", f)' => Queued("daemon", f)
    BY <1>3, <1>4, <2>1
  <2> QED
    BY <1>1, <1>2, <2>2 DEF Opening, Still
<1> QED
  BY <1>6, <1>7

LEMMA WriteCtlKeeps ==
  ASSUME MuxInv, WriteRest, NEW e \in Ends, ctl[e] # <<>>, data' = data,
         NEW h \in Frames, h = Head(ctl[e]), NEW s \in Streams, s = h.s,
         wire' = [wire EXCEPT ![e] = Append(@, Head(ctl[e]))],
         ctl' = [ctl EXCEPT ![e] = Tail(@)]
  PROVE  MuxInv'
<1>1. UNCHANGED <<table, sema, pool, closed, gap, inbox, opener, dialed, rd, wr, put, got>>
  BY DEF WriteRest
<1>2. /\ MuxShape /\ QueueShape /\ ctl \in [Ends -> Seq(Frames)] /\ wire \in [Ends -> Seq(Frames)]
      /\ ctl[e] \in Seq(Frames) /\ wire[e] \in Seq(Frames)
  BY ShapeParts, Zenon DEF MuxInv
<1>3. /\ wire'[e] = Append(wire[e], h) /\ ctl'[e] = Tail(ctl[e])
      /\ \A d \in Ends : d # e => wire'[d] = wire[d] /\ ctl'[d] = ctl[d]
  BY <1>2
<1>4. h \in Frames /\ h.kind \in CtlKinds(e) /\ s \in Streams
  <2>1. h = ctl[e][1] /\ Len(ctl[e]) \in Nat \ {0} /\ h \in Frames
    BY <1>2, TailIs
  <2>2. 1 \in 1..Len(ctl[e])
    BY <2>1
  <2> QED
    BY <1>2, <2>1, <2>2, FramesAre DEF QueueShape
<1>5. h.s = s
  OBVIOUS
<1>6. /\ \A f : In(ctl[e], f) <=> In(ctl'[e], f) \/ f = h
      /\ \A f : Once(ctl[e], f) => Once(ctl'[e], f) /\ (f = h => ~ In(ctl'[e], f))
      /\ \A f, g : Leads(ctl[e], f, g) => Leads(ctl'[e], f, g) /\ (g = h /\ f # g => ~ In(ctl'[e], f))
      /\ \A f : Count(ctl[e], f) = Count(ctl'[e], f) + (IF f = h THEN 1 ELSE 0)
  BY <1>2, <1>3, TailQueue
<1>7. /\ \A f : In(wire'[e], f) <=> In(wire[e], f) \/ f = h
      /\ \A f : Once(wire[e], f) /\ (f = h => ~ In(wire[e], f)) => Once(wire'[e], f)
      /\ \A f, g : Leads(wire[e], f, g) /\ f # g /\ (f = h => ~ In(wire[e], g)) => Leads(wire'[e], f, g)
      /\ \A f : Count(wire'[e], f) = Count(wire[e], f) + (IF f = h THEN 1 ELSE 0)
  BY <1>2, <1>3, <1>4, AppendQueue
<1>8. h.kind \notin DataKinds /\ h \notin Items(s)
  BY <1>4, ItemIs DEF CtlKinds, DataKinds
<1>9. QueueShape'
  <2>1. /\ wire'[e] \in Seq(Frames) /\ Len(wire'[e]) = Len(wire[e]) + 1 /\ Len(wire[e]) \in Nat
        /\ \A i \in 1..Len(wire[e]) : wire'[e][i] = wire[e][i]
        /\ wire'[e][Len(wire[e]) + 1] = h
    BY <1>2, <1>3, <1>4, AppendIs
  <2>2. /\ ctl'[e] \in Seq(Frames) /\ Len(ctl'[e]) = Len(ctl[e]) - 1 /\ Len(ctl[e]) \in Nat \ {0}
        /\ \A i \in 1..Len(ctl'[e]) : ctl'[e][i] = ctl[e][i + 1]
    BY <1>2, <1>3, TailIs
  <2>3. /\ wire' \in [Ends -> Seq(Frames)] /\ ctl' \in [Ends -> Seq(Frames)]
    BY <1>2, <1>3, <2>1, <2>2
  <2>4. \A i \in 1..Len(wire'[e]) : wire'[e][i].kind \in CtlKinds(e) \cup DataKinds
    <3>1. \A i \in 1..Len(wire'[e]) : i \in 1..Len(wire[e]) \/ i = Len(wire[e]) + 1
      BY <2>1
    <3> QED
      BY <1>2, <1>4, <2>1, <3>1 DEF QueueShape
  <2>5. \A i \in 1..Len(ctl'[e]) : ctl'[e][i].kind \in CtlKinds(e)
    <3>1. \A i \in 1..Len(ctl'[e]) : i + 1 \in 1..Len(ctl[e])
      BY <2>2
    <3> QED
      BY <1>2, <2>2, <3>1 DEF QueueShape
  <2>6. ASSUME NEW d \in Ends
        PROVE  /\ Len(data'[d]) <= DataCap
               /\ \A i \in 1..Len(ctl'[d]) : ctl'[d][i].kind \in CtlKinds(d)
               /\ \A i \in 1..Len(data'[d]) : data'[d][i].kind \in DataKinds
               /\ \A i \in 1..Len(wire'[d]) : wire'[d][i].kind \in CtlKinds(d) \cup DataKinds
    <3>1. CASE d = e
      BY <1>2, <2>4, <2>5, <3>1, Zenon DEF QueueShape
    <3>2. CASE d # e
      BY <1>2, <1>3, <3>2 DEF QueueShape
    <3> QED
      BY <3>1, <3>2, Zenon
  <2>7. data' \in [Ends -> Seq(Frames)]
    BY <1>2 DEF QueueShape
  <2> QED
    BY <2>3, <2>6, <2>7, Zenon DEF QueueShape
<1>10. QueuesApart(s)
  <2>1. ASSUME NEW t \in Streams, t # s
        PROVE  Same(ctl[e], ctl'[e], t) /\ Same(wire[e], wire'[e], t)
    <3>1. Same(wire[e], wire'[e], t)
      BY <1>2, <1>3, <1>4, <1>5, <2>1, SameAppend
    <3>2. Same(ctl[e], ctl'[e], t)
      BY <1>2, <1>3, <1>5, <2>1, SameTail
    <3> QED
      BY <3>1, <3>2
  <2> QED
    BY <1>3, <2>1, SameSelf DEF QueuesApart
<1>11. \A d \in Ends : Updates(d, s)' = Updates(d, s)
  <2> DEFINE w == Frame("WindowUpdate", s)
             k == IF w = h THEN 1 ELSE 0
  <2>1. /\ Count(ctl[e], w) \in Nat /\ Count(wire[e], w) \in Nat /\ k \in Nat
        /\ Count(ctl'[e], w) \in Nat
    BY <1>2, <1>9, CountIsNat, Zenon DEF QueueShape
  <2>2. Count(ctl[e], w) = Count(ctl'[e], w) + k /\ Count(wire'[e], w) = Count(wire[e], w) + k
    BY <1>6, <1>7
  <2> HIDE DEF k, w
  <2>3. Count(ctl'[e], w) + Count(wire'[e], w) = Count(ctl[e], w) + Count(wire[e], w)
    BY <2>1, <2>2
  <2>4. Updates(e, s)' = Updates(e, s)
    BY <2>3 DEF Updates, w
  <2>5. \A d \in Ends : d # e => Updates(d, s)' = Updates(d, s)
    BY <1>3 DEF Updates
  <2> QED
    BY <2>4, <2>5
<1>12. ASSUME NEW d \in Ends
       PROVE  Line(d, s)'
  <2>1. Order(d, s) /\ Other(d) \in Ends
    BY <1>4, ShapeParts, TheOther, Zenon DEF Line
  <2>2. ItemsKept(wire[d], wire'[d], s) /\ ItemsKept(data[d], data'[d], s)
    <3>1. ItemsKept(wire[e], wire'[e], s)
      BY <1>2, <1>3, <1>4, <1>8, SameAppend
    <3> QED
      BY <1>3, <3>1, SameSelf
  <2>3. MuxShape'
    BY <1>1, <1>2, Zenon DEF MuxShape, Live
  <2>4. Order(d, s)'
    BY <1>1, <1>2, <1>4, <2>1, <2>2, <2>3, OrderKept
  <2>5. In(wire'[d], Frame("Fin", s)) \/ In(data'[d], Frame("Fin", s)) => InFlight(d, Frame("Fin", s))
    <3>1. Frame("Fin", s) \in Items(s)
      BY <1>4, ItemsAre
    <3> QED
      BY <2>2, <3>1 DEF ItemsKept, InFlight
  <2> QED
    BY <1>4, <1>9, <1>11, <2>1, <2>4, <2>5, LineMoves
<1>13. Start(s)' /\ Opening(s)'
  <2>1. ASSUME NEW d \in Ends, NEW f \in Frames
        PROVE  /\ In(wire'[d], f) => In(wire[d], f) \/ In(ctl[d], f)
               /\ In(ctl'[d], f) => In(ctl[d], f)
               /\ In(data'[d], f) => In(data[d], f)
    BY <1>3, <1>6, <1>7
  <2> QED
    BY <1>4, <2>1, MovesRest
<1>14. Answer(s)'
  <2>1. Answer(s)
    BY <1>4, ShapeParts, Zenon DEF StreamInv, Ends
  <2>2. CASE e # "daemon"
    BY <1>1, <1>3, <2>1, <2>2 DEF Answer, Queued, Ends
  <2>3. CASE e = "daemon"
    <3> DEFINE R == Frame("Reset", s)
    <3>1. /\ dialed[s] \in {"none", "dialing"} => \A f \in Answers(s) \cup {R} : ~ Queued(e, f)
          /\ \A f \in Answers(s) :
               /\ Once(wire[e], f) /\ Once(ctl[e], f)
               /\ ~ (In(wire[e], f) /\ In(ctl[e], f))
               /\ \A g \in Answers(s) : Queued(e, f) /\ Queued(e, g) => f = g
               /\ Leads(wire[e], f, R) /\ Leads(ctl[e], f, R)
               /\ ~ (In(wire[e], R) /\ In(ctl[e], f))
      BY <2>1, <2>3 DEF Answer
    <3>2. \A f : Queued(e, f)' => Queued(e, f)
      BY <1>6, <1>7 DEF Queued
    <3>3. \A f \in Answers(s) : f # R
      BY FrameFields DEF Answers
    <3> HIDE DEF R
    <3>4. ASSUME NEW f \in Answers(s)
          PROVE  /\ Once(wire'[e], f) /\ Once(ctl'[e], f)
                 /\ ~ (In(wire'[e], f) /\ In(ctl'[e], f))
                 /\ \A g \in Answers(s) : Queued(e, f)' /\ Queued(e, g)' => f = g
                 /\ Leads(wire'[e], f, R) /\ Leads(ctl'[e], f, R)
                 /\ ~ (In(wire'[e], R) /\ In(ctl'[e], f))
      <4>1. /\ Once(wire[e], f) /\ Once(ctl[e], f)
            /\ ~ (In(wire[e], f) /\ In(ctl[e], f))
            /\ Leads(wire[e], f, R) /\ Leads(ctl[e], f, R)
            /\ ~ (In(wire[e], R) /\ In(ctl[e], f))
        BY <3>1
      <4>2. In(ctl[e], h)
        BY <1>6
      <4>3. Once(wire'[e], f) /\ Once(ctl'[e], f) /\ ~ (In(wire'[e], f) /\ In(ctl'[e], f))
        BY <1>6, <1>7, <4>1, <4>2
      <4>4. Leads(ctl'[e], f, R) /\ Leads(wire'[e], f, R)
        BY <1>6, <1>7, <3>3, <4>1, <4>2
      <4>5. ~ (In(wire'[e], R) /\ In(ctl'[e], f))
        BY <1>6, <1>7, <3>3, <4>1, <4>2
      <4> QED
        BY <3>1, <3>2, <4>3, <4>4, <4>5
    <3> QED
      BY <1>1, <2>3, <3>1, <3>2, <3>4 DEF Answer, R
  <2> QED
    BY <2>2, <2>3
<1>15. StreamInv(s)'
  BY <1>12, <1>13, <1>14 DEF StreamInv
<1> QED
  BY <1>4, <1>9, <1>10, <1>15, MovesOne

\* The chunk at the head has nothing before it that is not on the wire.
LEMMA OrderWrites ==
  ASSUME MuxInv, WriteRest, NEW e \in Ends, data[e] # <<>>,
         NEW h \in Frames, h = Head(data[e]), NEW s \in Streams,
         wire'[e] = Append(wire[e], h), data'[e] = Tail(data[e])
  PROVE  Order(e, s)'
<1> DEFINE o == Other(e)
<1>1. UNCHANGED <<table, sema, pool, closed, gap, inbox, opener, dialed, rd, wr, put, got>>
  BY DEF WriteRest
<1>2. data[e] \in Seq(Frames) /\ wire[e] \in Seq(Frames) /\ Line(e, s)
  BY ShapeParts
<1>3. Order(e, s)
  BY <1>2 DEF Line
<1>4. /\ \A f : In(data[e], f) <=> In(data'[e], f) \/ f = h
      /\ \A f : Once(data[e], f) => Once(data'[e], f) /\ (f = h => ~ In(data'[e], f))
      /\ \A f, g : Precedes(data[e], f, g) => (f # h => Precedes(data'[e], f, g)) /\ g # h
  BY <1>2, TailQueue
<1>5. /\ \A f : In(wire'[e], f) <=> In(wire[e], f) \/ f = h
      /\ \A f : Once(wire[e], f) /\ (f = h => ~ In(wire[e], f)) => Once(wire'[e], f)
      /\ \A f, g : Precedes(wire[e], f, g) /\ (g = h => In(wire[e], f)) => Precedes(wire'[e], f, g)
  BY <1>2, AppendQueue
<1> SUFFICES ASSUME Live(o, s)', ~ gap'[e]
             PROVE  /\ \A g \in Items(s) : InOrder(e, g)'
                    /\ closed'[e] = "open" =>
                         \A m \in Nat : m > Read(o, s)' /\ m <= put'[e][s]
                                          => InFlight(e, DataFrame(s, m))'
  BY DEF Order
<1>6. Live(o, s) /\ ~ gap[e] /\ Read(o, s)' = Read(o, s)
  BY <1>1 DEF Live, Read, Unread
<1>7. /\ \A g \in Items(s) : InOrder(e, g)
      /\ closed[e] = "open" =>
           \A m \in Nat : m > Read(o, s) /\ m <= put[e][s] => InFlight(e, DataFrame(s, m))
  BY <1>3, <1>6 DEF Order
<1>8. \A f : InFlight(e, f)' <=> InFlight(e, f)
  BY <1>4, <1>5 DEF InFlight
<1>9. In(data[e], h)
  BY <1>4
<1>10. ASSUME NEW g \in Items(s)
       PROVE  InOrder(e, g)'
  <2>1. g.s = s /\ InOrder(e, g)
    BY <1>7, ItemIs
  <2>2. Earlier(e, g)' = Earlier(e, g)
    BY <1>1, <2>1 DEF Earlier, Read, Unread
  <2>3. /\ Once(wire[e], g) /\ Once(data[e], g) /\ ~ (In(wire[e], g) /\ In(data[e], g))
    BY <2>1 DEF InOrder
  <2>4. Once(wire'[e], g) /\ Once(data'[e], g) /\ ~ (In(wire'[e], g) /\ In(data'[e], g))
    BY <1>4, <1>5, <1>9, <2>3
  <2>5. ASSUME NEW m \in Earlier(e, g)
        PROVE  /\ Precedes(wire'[e], DataFrame(g.s, m), g)
               /\ \/ In(wire'[e], DataFrame(g.s, m)) \/ ~ In(data'[e], g)
                  \/ Precedes(data'[e], DataFrame(g.s, m), g)
    <3> DEFINE f == DataFrame(g.s, m)
    <3>1. /\ Precedes(wire[e], f, g)
          /\ In(wire[e], f) \/ ~ In(data[e], g) \/ Precedes(data[e], f, g)
      BY <2>1 DEF InOrder
    <3> HIDE DEF f
    <3>2. Precedes(wire'[e], f, g)
      BY <1>4, <1>5, <1>9, <3>1
    <3>3. In(wire'[e], f) \/ ~ In(data'[e], g) \/ Precedes(data'[e], f, g)
      BY <1>4, <1>5, <3>1
    <3> QED
      BY <3>2, <3>3 DEF f
  <2>6. /\ InFlight(e, g)' => ~ table'[o][g.s].rfin
        /\ InFlight(e, g)' /\ g.kind = "Data" => g.n > Read(o, g.s)' /\ g.n <= put'[e][g.s]
    BY <1>1, <1>6, <1>8, <2>1 DEF InOrder
  <2> QED
    BY <2>2, <2>4, <2>5, <2>6 DEF InOrder
<1> QED
  BY <1>1, <1>6, <1>7, <1>8, <1>10

LEMMA WriteDataKeeps ==
  ASSUME MuxInv, WriteRest, NEW e \in Ends, data[e] # <<>>, ctl' = ctl,
         NEW h \in Frames, h = Head(data[e]), NEW s \in Streams, s = h.s,
         wire' = [wire EXCEPT ![e] = Append(@, Head(data[e]))],
         data' = [data EXCEPT ![e] = Tail(@)]
  PROVE  MuxInv'
<1>1. UNCHANGED <<table, sema, pool, closed, gap, inbox, opener, dialed, rd, wr, put, got>>
  BY DEF WriteRest
<1>2. /\ MuxShape /\ QueueShape /\ data \in [Ends -> Seq(Frames)] /\ wire \in [Ends -> Seq(Frames)]
      /\ data[e] \in Seq(Frames) /\ wire[e] \in Seq(Frames)
  BY ShapeParts, Zenon DEF MuxInv
<1>3. /\ wire'[e] = Append(wire[e], h) /\ data'[e] = Tail(data[e])
      /\ \A d \in Ends : d # e => wire'[d] = wire[d] /\ data'[d] = data[d]
  BY <1>2
<1>4. h.kind \in DataKinds
  <2>1. h = data[e][1] /\ Len(data[e]) \in Nat \ {0}
    BY <1>2, TailIs
  <2>2. 1 \in 1..Len(data[e])
    BY <2>1
  <2> QED
    BY <1>2, <2>1, <2>2 DEF QueueShape
<1>5. /\ \A f : In(data[e], f) <=> In(data'[e], f) \/ f = h
      /\ \A f : In(wire'[e], f) <=> In(wire[e], f) \/ f = h
      /\ \A f : Once(wire[e], f) /\ (f = h => ~ In(wire[e], f)) => Once(wire'[e], f)
      /\ \A f, g : Leads(wire[e], f, g) /\ f # g /\ (f = h => ~ In(wire[e], g)) => Leads(wire'[e], f, g)
      /\ \A f : Count(wire'[e], f) = Count(wire[e], f) + (IF f = h THEN 1 ELSE 0)
  BY <1>2, <1>3, AppendQueue, TailQueue
<1>6. QueueShape'
  <2>1. /\ wire'[e] \in Seq(Frames) /\ Len(wire'[e]) = Len(wire[e]) + 1 /\ Len(wire[e]) \in Nat
        /\ \A i \in 1..Len(wire[e]) : wire'[e][i] = wire[e][i]
        /\ wire'[e][Len(wire[e]) + 1] = h
    BY <1>2, <1>3, AppendIs
  <2>2. /\ data'[e] \in Seq(Frames) /\ Len(data'[e]) = Len(data[e]) - 1 /\ Len(data[e]) \in Nat \ {0}
        /\ \A i \in 1..Len(data'[e]) : data'[e][i] = data[e][i + 1]
    BY <1>2, <1>3, TailIs
  <2>3. /\ wire' \in [Ends -> Seq(Frames)] /\ data' \in [Ends -> Seq(Frames)]
    BY <1>2, <1>3, <2>1, <2>2
  <2>4. \A i \in 1..Len(wire'[e]) : wire'[e][i].kind \in CtlKinds(e) \cup DataKinds
    <3>1. \A i \in 1..Len(wire'[e]) : i \in 1..Len(wire[e]) \/ i = Len(wire[e]) + 1
      BY <2>1
    <3> QED
      BY <1>2, <1>4, <2>1, <3>1 DEF QueueShape
  <2>5. /\ \A i \in 1..Len(data'[e]) : data'[e][i].kind \in DataKinds
        /\ Len(data'[e]) <= DataCap
    <3>1. \A i \in 1..Len(data'[e]) : i + 1 \in 1..Len(data[e])
      BY <2>2
    <3>2. Len(data[e]) <= DataCap /\ DataCap \in Nat
      BY <1>2, MuxAssumption DEF QueueShape
    <3> QED
      BY <1>2, <2>2, <3>1, <3>2 DEF QueueShape
  <2>6. ASSUME NEW d \in Ends
        PROVE  /\ Len(data'[d]) <= DataCap
               /\ \A i \in 1..Len(ctl'[d]) : ctl'[d][i].kind \in CtlKinds(d)
               /\ \A i \in 1..Len(data'[d]) : data'[d][i].kind \in DataKinds
               /\ \A i \in 1..Len(wire'[d]) : wire'[d][i].kind \in CtlKinds(d) \cup DataKinds
    <3>1. CASE d = e
      BY <1>2, <2>4, <2>5, <3>1, Zenon DEF QueueShape
    <3>2. CASE d # e
      BY <1>2, <1>3, <3>2, Zenon DEF QueueShape
    <3> QED
      BY <3>1, <3>2
  <2>7. ctl' \in [Ends -> Seq(Frames)]
    BY <1>2 DEF QueueShape
  <2> QED
    BY <2>3, <2>6, <2>7, Zenon DEF QueueShape
<1>7. QueuesApart(s)
  <2>1. ASSUME NEW t \in Streams, t # s
        PROVE  Same(data[e], data'[e], t) /\ Same(wire[e], wire'[e], t)
    <3>1. Same(wire[e], wire'[e], t)
      BY <1>2, <1>3, <2>1, SameAppend
    <3>2. Same(data[e], data'[e], t)
      BY <1>2, <1>3, <2>1, SameTail
    <3> QED
      BY <3>1, <3>2
  <2> QED
    BY <1>3, <2>1, SameSelf DEF QueuesApart
<1>8. \A d \in Ends : Updates(d, s)' = Updates(d, s)
  <2> DEFINE w == Frame("WindowUpdate", s)
  <2>6. w.kind = "WindowUpdate"
    BY FrameFields
  <2>7. Count(wire[e], w) \in Nat
    BY <1>2, CountIsNat, Zenon
  <2>1. w # h /\ Count(wire[e], w) \in Nat
    BY <1>4, <2>6, <2>7 DEF DataKinds
  <2>2. (IF w = h THEN 1 ELSE 0) = 0 /\ Count(wire'[e], w) = Count(wire[e], w) + (IF w = h THEN 1 ELSE 0)
    BY <1>5, <2>1
  <2> HIDE DEF w
  <2>3. Count(wire'[e], w) = Count(wire[e], w)
    BY <2>1, <2>2
  <2>4. Updates(e, s)' = Updates(e, s)
    BY <2>3 DEF Updates, w
  <2>5. \A d \in Ends : d # e => Updates(d, s)' = Updates(d, s)
    BY <1>3 DEF Updates
  <2> QED
    BY <2>4, <2>5
<1>9. ASSUME NEW d \in Ends
      PROVE  Line(d, s)'
  <2>1. Order(d, s) /\ Other(d) \in Ends
    BY ShapeParts, TheOther, Zenon DEF Line
  <2>2. MuxShape'
    BY <1>1, <1>2, Zenon DEF MuxShape, Live
  <2>3. Order(d, s)'
    <3>1. CASE d = e
      BY <1>3, <3>1, OrderWrites, Zenon
    <3>2. CASE d # e
      <4>1. ItemsKept(wire[d], wire'[d], s) /\ ItemsKept(data[d], data'[d], s)
        BY <1>3, <3>2, SameSelf
      <4> QED
        BY <1>1, <1>2, <2>1, <2>2, <4>1, OrderKept
    <3> QED
      BY <3>1, <3>2
  <2>4. In(wire'[d], Frame("Fin", s)) \/ In(data'[d], Frame("Fin", s)) => InFlight(d, Frame("Fin", s))
    BY <1>3, <1>5 DEF InFlight
  <2> QED
    BY <1>6, <1>8, <2>1, <2>3, <2>4, LineMoves
<1>10. Start(s)' /\ Opening(s)'
  <2>1. ASSUME NEW d \in Ends, NEW f \in Frames
        PROVE  /\ In(wire'[d], f) => In(wire[d], f) \/ In(ctl[d], f) \/ In(data[d], f)
               /\ In(wire'[d], f) /\ f.kind \notin DataKinds => In(wire[d], f) \/ In(ctl[d], f)
               /\ In(ctl'[d], f) => In(ctl[d], f)
               /\ In(data'[d], f) => In(data[d], f)
    BY <1>3, <1>4, <1>5
  <2> QED
    BY <2>1, MovesRest
<1>11. Answer(s)'
  <2>1. Answer(s)
    BY ShapeParts, Zenon DEF StreamInv, Ends
  <2>2. CASE e # "daemon"
    BY <1>1, <1>3, <2>1, <2>2 DEF Answer, Queued, Ends
  <2>3. CASE e = "daemon"
    <3> DEFINE R == Frame("Reset", s)
    <3>1. /\ R # h /\ \A f \in Answers(s) : f # R /\ f # h
      BY <1>4, FrameFields DEF Answers, DataKinds
    <3> HIDE DEF R
    <3>2. \A f \in Answers(s) \cup {R} : In(wire'[e], f) => In(wire[e], f)
      BY <1>5, <3>1
    <3>3. \A f \in Answers(s) : /\ Once(wire[e], f) => Once(wire'[e], f)
                                /\ Leads(wire[e], f, R) => Leads(wire'[e], f, R)
      BY <1>5, <3>1
    <3> QED
      BY <1>1, <2>1, <2>3, <3>2, <3>3, AnswerKept DEF R
  <2> QED
    BY <2>2, <2>3
<1>12. StreamInv(s)'
  BY <1>9, <1>10, <1>11 DEF StreamInv
<1> QED
  BY <1>6, <1>7, <1>12, MovesOne

LEMMA WriteKeeps ==
  ASSUME MuxInv, NEW e \in Ends, Write(e)
  PROVE  MuxInv'
<1>1. WriteRest
  BY DEF Write, WriteRest
<1>2. ctl[e] \in Seq(Frames) /\ data[e] \in Seq(Frames)
  BY ShapeParts
<1>3. CASE ctl[e] # <<>> /\ data' = data /\ wire' = [wire EXCEPT ![e] = Append(@, Head(ctl[e]))]
           /\ ctl' = [ctl EXCEPT ![e] = Tail(@)]
  <2>1. PICK h \in Frames : h = Head(ctl[e])
    BY <1>2, <1>3, TailIs
  <2>2. PICK s \in Streams : s = h.s
    BY FramesAre
  <2> QED
    BY <1>1, <1>3, <2>1, <2>2, WriteCtlKeeps, Zenon
<1>4. CASE data[e] # <<>> /\ ctl' = ctl /\ wire' = [wire EXCEPT ![e] = Append(@, Head(data[e]))]
           /\ data' = [data EXCEPT ![e] = Tail(@)]
  <2>1. PICK h \in Frames : h = Head(data[e])
    BY <1>2, <1>4, TailIs
  <2>2. PICK s \in Streams : s = h.s
    BY FramesAre
  <2> QED
    BY <1>1, <1>4, <2>1, <2>2, WriteDataKeeps, Zenon
<1> QED
  BY <1>3, <1>4 DEF Write

-----------------------------------------------------------------------------
(* Queues that lose what they hold: the end of a session, a lost record. *)

Less(q, r) == r = q \/ r = <<>> \/ (q # <<>> /\ r = Tail(q))

LEMMA LessIs ==
  ASSUME NEW q \in Seq(Frames), NEW r, Less(q, r)
  PROVE  /\ r \in Seq(Frames) /\ Len(r) \in Nat /\ Len(q) \in Nat /\ Len(r) <= Len(q)
         /\ \A i \in 1..Len(r) : In(q, r[i])
         /\ \A f : /\ In(r, f) => In(q, f)
                   /\ Once(q, f) => Once(r, f)
                   /\ Count(r, f) \in Nat /\ Count(q, f) \in Nat /\ Count(r, f) <= Count(q, f)
         /\ \A f, g : Leads(q, f, g) => Leads(r, f, g)
<1>1. CASE r = q
  <2>1. \A f : Count(q, f) \in Nat
    BY CountIsNat, Zenon
  <2> QED
    BY <1>1, <2>1 DEF In
<1>2. CASE r = <<>>
  <2>1. \A f : Count(q, f) \in Nat
    BY CountIsNat, Zenon
  <2>2. r \in Seq(Frames) /\ Len(r) = 0 /\ Len(q) \in Nat
    BY <1>2
  <2> QED
    BY <1>2, <2>1, <2>2, NothingQueued
<1>3. CASE q # <<>> /\ r = Tail(q)
  <2>1. /\ r \in Seq(Frames) /\ Len(r) = Len(q) - 1 /\ Len(q) \in Nat \ {0}
        /\ \A i \in 1..Len(r) : r[i] = q[i + 1]
    BY <1>3, TailIs
  <2>2. /\ \A f : In(r, f) => In(q, f)
        /\ \A f : Once(q, f) => Once(r, f)
        /\ \A f, g : Leads(q, f, g) => Leads(r, f, g)
        /\ \A f : Count(q, f) = Count(r, f) + (IF f = Head(q) THEN 1 ELSE 0)
    BY <1>3, TailQueue
  <2>3. \A f : Count(q, f) \in Nat /\ Count(r, f) \in Nat
    BY <2>1, CountIsNat, Zenon
  <2>4. ASSUME NEW f
        PROVE  Count(r, f) <= Count(q, f)
    <3>1. Count(q, f) = Count(r, f) + (IF f = Head(q) THEN 1 ELSE 0)
      BY <2>2
    <3>2. CASE f = Head(q)
      BY <2>3, <3>1, <3>2
    <3>3. CASE f # Head(q)
      BY <2>3, <3>1, <3>3
    <3> QED
      BY <3>2, <3>3
  <2>5. ASSUME NEW i \in 1..Len(r)
        PROVE  In(q, r[i])
    <3>1. i + 1 \in 1..Len(q) /\ r[i] = q[i + 1]
      BY <2>1, <2>5
    <3> QED
      BY <3>1 DEF In
  <2> QED
    BY <2>1, <2>2, <2>3, <2>4, <2>5
<1> QED
  BY <1>1, <1>2, <1>3 DEF Less

AllLess ==
  /\ ctl' \in [Ends -> Seq(Frames)] /\ data' \in [Ends -> Seq(Frames)]
  /\ wire' \in [Ends -> Seq(Frames)]
  /\ \A d \in Ends : Less(ctl[d], ctl'[d]) /\ Less(data[d], data'[d]) /\ Less(wire[d], wire'[d])

LEMMA LessKeepsShape ==
  ASSUME QueueShape, AllLess
  PROVE  QueueShape'
<1>1. ASSUME NEW d \in Ends
      PROVE  /\ Len(data'[d]) <= DataCap
             /\ \A i \in 1..Len(ctl'[d]) : ctl'[d][i].kind \in CtlKinds(d)
             /\ \A i \in 1..Len(data'[d]) : data'[d][i].kind \in DataKinds
             /\ \A i \in 1..Len(wire'[d]) : wire'[d][i].kind \in CtlKinds(d) \cup DataKinds
  <2>1. /\ ctl[d] \in Seq(Frames) /\ data[d] \in Seq(Frames) /\ wire[d] \in Seq(Frames)
        /\ Less(ctl[d], ctl'[d]) /\ Less(data[d], data'[d]) /\ Less(wire[d], wire'[d])
        /\ Len(data[d]) <= DataCap
    BY DEF QueueShape, AllLess
  <2>2. /\ \A i \in 1..Len(ctl'[d]) : In(ctl[d], ctl'[d][i])
        /\ \A i \in 1..Len(data'[d]) : In(data[d], data'[d][i])
        /\ \A i \in 1..Len(wire'[d]) : In(wire[d], wire'[d][i])
        /\ Len(data'[d]) <= Len(data[d]) /\ Len(data'[d]) \in Nat /\ Len(data[d]) \in Nat
    BY <2>1, LessIs, Zenon
  <2>3. /\ \A f : In(ctl[d], f) => f.kind \in CtlKinds(d)
        /\ \A f : In(data[d], f) => f.kind \in DataKinds
        /\ \A f : In(wire[d], f) => f.kind \in CtlKinds(d) \cup DataKinds
    BY DEF QueueShape, In
  <2>4. Len(data'[d]) <= DataCap
    BY <2>1, <2>2, MuxAssumption
  <2> QED
    BY <2>2, <2>3, <2>4
<1> QED
  BY <1>1 DEF QueueShape, AllLess

LEMMA LessUpdates ==
  ASSUME QueueShape, AllLess, NEW d \in Ends, NEW s \in Streams
  PROVE  Updates(d, s)' <= Updates(d, s) /\ Updates(d, s)' \in Nat /\ Updates(d, s) \in Nat
<1> DEFINE w == Frame("WindowUpdate", s)
<1>1. /\ ctl[d] \in Seq(Frames) /\ wire[d] \in Seq(Frames)
      /\ Less(ctl[d], ctl'[d]) /\ Less(wire[d], wire'[d])
  BY DEF QueueShape, AllLess
<1> HIDE DEF w
<1>2. /\ Count(ctl'[d], w) \in Nat /\ Count(ctl[d], w) \in Nat /\ Count(ctl'[d], w) <= Count(ctl[d], w)
      /\ Count(wire'[d], w) \in Nat /\ Count(wire[d], w) \in Nat
      /\ Count(wire'[d], w) <= Count(wire[d], w)
  BY <1>1, LessIs
<1>3. /\ Count(ctl'[d], w) + Count(wire'[d], w) <= Count(ctl[d], w) + Count(wire[d], w)
      /\ Count(ctl'[d], w) + Count(wire'[d], w) \in Nat
      /\ Count(ctl[d], w) + Count(wire[d], w) \in Nat
  BY <1>2
<1> QED
  BY <1>3 DEF Updates, w

LEMMA LessStart ==
  ASSUME QueueShape, AllLess, NEW s \in Streams, Start(s),
         opener'[s] = "idle" => opener[s] = "idle", dialed'[s] = dialed[s],
         \A d \in Ends : table'[d][s].present => table[d][s].present,
         UNCHANGED <<rd, wr, inbox, put, got>>
  PROVE  Start(s)'
<1>1. "desktop" \in Ends /\ "daemon" \in Ends
  BY DEF Ends
<1>2. ASSUME NEW d \in Ends, NEW f
      PROVE  (Queued(d, f)' => Queued(d, f)) /\ (In(data'[d], f) => In(data[d], f))
  <2>1. /\ ctl[d] \in Seq(Frames) /\ data[d] \in Seq(Frames) /\ wire[d] \in Seq(Frames)
        /\ Less(ctl[d], ctl'[d]) /\ Less(data[d], data'[d]) /\ Less(wire[d], wire'[d])
    BY DEF QueueShape, AllLess
  <2>2. /\ In(ctl'[d], f) => In(ctl[d], f)
        /\ In(data'[d], f) => In(data[d], f)
        /\ In(wire'[d], f) => In(wire[d], f)
    BY <2>1, LessIs, Zenon
  <2> QED
    BY <2>2 DEF Queued
<1>3. ASSUME NEW d \in Ends, Unheard(d, s)
      PROVE  Unheard(d, s)'
  BY <1>2, <1>3 DEF Unheard
<1>4. \A d \in Ends : (Live(d, s)' => Live(d, s)) /\ (Still(d, s) => Still(d, s)')
  BY DEF Live, Still
<1>5. opener'[s] = "idle" =>
        dialed'[s] = "none" /\ Unheard("desktop", s)' /\ ~ Live("desktop", s)'
  BY <1>1, <1>3, <1>4 DEF Start
<1>6. dialed'[s] = "none" =>
        /\ Unheard("daemon", s)' /\ ~ Live("daemon", s)'
        /\ \A f \in Frames : f.s = s =>
             ~ In(data'["desktop"], f) /\ (Queued("desktop", f)' => f.kind = "Open")
        /\ \A d \in Ends : /\ Still(d, s)' /\ inbox'[d][s] = <<>>
                           /\ put'[d][s] = 0 /\ got'[d][s] = 0
  BY <1>1, <1>2, <1>3, <1>4 DEF Start
<1>7. dialed'[s] # "done" => Still("daemon", s)'
  BY <1>1, <1>4 DEF Start
<1> QED
  BY <1>5, <1>6, <1>7 DEF Start

LEMMA LessAnswer ==
  ASSUME QueueShape, AllLess, NEW s \in Streams, Answer(s), dialed'[s] = dialed[s]
  PROVE  Answer(s)' /\ \A f \in Answers(s) : Queued("daemon", f)' => Queued("daemon", f)
<1> DEFINE o == "daemon"
<1>1. /\ ctl[o] \in Seq(Frames) /\ wire[o] \in Seq(Frames)
      /\ Less(ctl[o], ctl'[o]) /\ Less(wire[o], wire'[o])
  BY DEF QueueShape, AllLess, Ends
<1>2. /\ \A f : (In(wire'[o], f) => In(wire[o], f)) /\ (In(ctl'[o], f) => In(ctl[o], f))
      /\ \A f : (Once(wire[o], f) => Once(wire'[o], f)) /\ (Once(ctl[o], f) => Once(ctl'[o], f))
      /\ \A f, g : /\ Leads(wire[o], f, g) => Leads(wire'[o], f, g)
                   /\ Leads(ctl[o], f, g) => Leads(ctl'[o], f, g)
  BY <1>1, LessIs
<1>3. Answer(s)'
  BY <1>2, AnswerKept
<1> QED
  BY <1>2, <1>3 DEF Queued

\* The lines of a stream when queues lose frames and entries go.
LEMMA LessLine ==
  ASSUME MuxShape, MuxShape', QueueShape, QueueShape', AllLess,
         NEW d \in Ends, NEW s \in Streams, NEW o \in Ends, o = Other(d), Line(d, s),
         UNCHANGED <<inbox, rd, wr, put, got>>, Free(d, s)' <= Free(d, s),
         table'[d][s].present => table'[d][s] = table[d][s] /\ sema'[d][s] = sema[d][s],
         table'[o][s].present => table'[o][s] = table[o][s],
         table'[o][s].rfin => table[o][s].rfin,
         Order(d, s)'
  PROVE  Line(d, s)'
<1>1. Inbox(d, s) /\ Sent(d, s) /\ Window(d, s)
  BY DEF Line
<1>2. Inbox(d, s)'
  BY <1>1, InboxKept
<1>3. Sent(d, s)'
  <2>1. In(wire'[d], Frame("Fin", s)) \/ In(data'[d], Frame("Fin", s)) => InFlight(d, Frame("Fin", s))
    <3>1. /\ data[d] \in Seq(Frames) /\ wire[d] \in Seq(Frames)
          /\ Less(data[d], data'[d]) /\ Less(wire[d], wire'[d])
      BY DEF QueueShape, AllLess
    <3>2. \A f : (In(wire'[d], f) => In(wire[d], f)) /\ (In(data'[d], f) => In(data[d], f))
      BY <3>1, LessIs
    <3> QED
      BY <3>2 DEF InFlight
  <2> QED
    BY <1>1, <2>1, SentKept
<1>4. Window(d, s)'
  <2>1. /\ Free(d, s) \in Nat /\ Holds(d, s) \in Nat /\ Taken(d, s) \in Nat
        /\ table[d][s].outstanding \in Nat
    BY HoldingsAreNat
  <2>2. Free(d, s)' \in Nat
    BY HoldingsStayNat
  <2>3. Holds(d, s)' = Holds(d, s) /\ Taken(d, s)' = Taken(d, s)
    BY DEF Holds, Taken
  <2>4. Updates(o, s)' <= Updates(o, s) /\ Updates(o, s)' \in Nat /\ Updates(o, s) \in Nat
    BY LessUpdates
  <2>5. Free(d, s)' + Holds(d, s)' + Updates(o, s)' <= Free(d, s) + Holds(d, s) + Updates(o, s)
    BY <2>1, <2>2, <2>3, <2>4
  <2>6. ASSUME table'[d][s].present
        PROVE  /\ table[d][s].present /\ sema'[d][s] >= 0
               /\ Taken(d, s)' + Updates(o, s)' + table[d][s].outstanding
                    <= Taken(d, s) + Updates(o, s) + table'[d][s].outstanding
    <3>1. table'[d][s] = table[d][s] /\ sema'[d][s] = sema[d][s]
      BY <2>6
    <3>2. sema[d][s] >= 0
      BY <1>1, <2>6, <3>1 DEF Window, Live
    <3>3. Taken(d, s)' + Updates(o, s)' + table[d][s].outstanding
            <= Taken(d, s) + Updates(o, s) + table[d][s].outstanding
      BY <2>1, <2>3, <2>4
    <3> QED
      BY <2>6, <3>1, <3>2, <3>3
  <2> QED
    BY <1>1, <2>5, <2>6, WindowKept
<1> QED
  BY <1>2, <1>3, <1>4 DEF Line

LEMMA LoseKeeps ==
  ASSUME MuxInv, NEW e \in Ends, Lose(e)
  PROVE  MuxInv'
<1>1. /\ wire[e] # <<>> /\ wire' = [wire EXCEPT ![e] = Tail(@)] /\ gap' = [gap EXCEPT ![e] = TRUE]
      /\ UNCHANGED <<table, sema, pool, closed, ctl, data, inbox, opener, dialed, rd, wr, put, got>>
  BY DEF Lose
<1>2. /\ MuxShape /\ QueueShape /\ ConnectionCreditWhole /\ NoFalseAccusation
      /\ gap \in [Ends -> BOOLEAN]
  BY DEF MuxInv, MuxShape
<1>3. /\ ctl \in [Ends -> Seq(Frames)] /\ data \in [Ends -> Seq(Frames)]
      /\ wire \in [Ends -> Seq(Frames)] /\ wire[e] \in Seq(Frames)
  BY ShapeParts
<1>4. Tail(wire[e]) \in Seq(Frames)
  BY <1>1, <1>3, TailIs
<1>5. AllLess
  BY <1>1, <1>3, <1>4 DEF AllLess, Less
<1>6. MuxShape'
  <2>1. gap' \in [Ends -> BOOLEAN]
    BY <1>1, <1>2
  <2> QED
    BY <1>1, <1>2, <2>1 DEF MuxShape, Live
<1>7. QueueShape'
  BY <1>2, <1>5, LessKeepsShape
<1>8. ConnectionCreditWhole' /\ NoFalseAccusation'
  BY <1>1, <1>2, <1>6, CreditSame DEF NoFalseAccusation
<1>9. ASSUME NEW s \in Streams
      PROVE  StreamInv(s)'
  <2>1. StreamInv(s)
    BY <1>9, ShapeParts, TheOther DEF Ends
  <2>2. ASSUME NEW d \in Ends
        PROVE  Line(d, s)'
    <3>1. Line(d, s) /\ Other(d) \in Ends
      BY <2>1, TheOther DEF StreamInv
    <3>2. Order(d, s)'
      <4>1. CASE d = e
        <5>1. gap'[d]
          BY <1>1, <1>2, <4>1
        <5> QED
          BY <5>1 DEF Order
      <4>2. CASE d # e
        <5>1. wire'[d] = wire[d] /\ gap'[d] = gap[d]
          BY <1>1, <1>2, <1>3, <4>2
        <5>2. ItemsKept(wire[d], wire'[d], s) /\ ItemsKept(data[d], data'[d], s)
          BY <1>1, <5>1, SameSelf
        <5> QED
          BY <1>1, <1>2, <1>6, <3>1, <5>1, <5>2, OrderKept DEF Line
      <4> QED
        BY <4>1, <4>2
    <3>3. Free(d, s) \in Nat /\ Free(d, s)' = Free(d, s)
      BY <1>1, <1>2, HoldingsAreNat DEF Free
    <3>4. Free(d, s)' <= Free(d, s)
      BY <3>3
    <3> QED
      BY <1>1, <1>2, <1>5, <1>6, <1>7, <3>1, <3>2, <3>4, LessLine
  <2>3. Start(s) /\ Answer(s) /\ Opening(s)
    BY <2>1 DEF StreamInv
  <2>4. Start(s)'
    BY <1>1, <1>2, <1>5, <2>3, LessStart
  <2>5. Answer(s)' /\ \A f \in Answers(s) : Queued("daemon", f)' => Queued("daemon", f)
    BY <1>1, <1>2, <1>5, <2>3, LessAnswer
  <2>6. Opening(s)'
    BY <1>1, <2>3, <2>5 DEF Opening, Still
  <2> QED
    BY <2>2, <2>4, <2>5, <2>6 DEF StreamInv
<1> QED
  BY <1>6, <1>7, <1>8, <1>9 DEF MuxInv

LEMMA CloseKeeps ==
  ASSUME MuxInv, NEW e \in Ends, NEW reason \in Reasons \ {"open", "protocol"},
         CloseEnd(e, reason), wire' \in [Ends -> Seq(Frames)],
         wire'[e] = wire[e], Less(wire[Other(e)], wire'[Other(e)])
  PROVE  MuxInv'
<1> DEFINE o == Other(e)
<1>1. /\ closed' = [closed EXCEPT ![e] = reason]
      /\ table' = [table EXCEPT ![e] = [s \in Streams |-> Absent]]
      /\ sema' = [sema EXCEPT ![e] = [s \in Streams |-> IF Live(e, s) THEN Shut ELSE sema[e][s]]]
      /\ opener' = [s \in Streams |->
                      IF e = "desktop" /\ opener[s] \in {"reserved", "waiting"}
                      THEN "failed" ELSE opener[s]]
      /\ ctl' = [ctl EXCEPT ![e] = <<>>] /\ data' = [data EXCEPT ![e] = <<>>]
      /\ UNCHANGED <<pool, dialed, gap, inbox, rd, wr, put, got>>
  BY DEF CloseEnd
<1>2. /\ MuxShape /\ QueueShape /\ ConnectionCreditWhole /\ NoFalseAccusation
      /\ o \in Ends /\ o # e /\ Other(o) = e /\ \A d \in Ends : d = e \/ d = o
  BY TheOther DEF MuxInv
<1>3. /\ ctl \in [Ends -> Seq(Frames)] /\ data \in [Ends -> Seq(Frames)]
      /\ table \in [Ends -> [Streams -> Entries]]
      /\ sema \in [Ends -> [Streams -> {n \in Int : n >= -1}]]
      /\ closed \in [Ends -> Reasons] /\ opener \in [Streams -> Openers]
  BY ShapeParts, Zenon
<1>4. AllLess
  <2>1. /\ ctl'[e] = <<>> /\ data'[e] = <<>> /\ \A d \in Ends : d # e => ctl'[d] = ctl[d] /\ data'[d] = data[d]
        /\ ctl' \in [Ends -> Seq(Frames)] /\ data' \in [Ends -> Seq(Frames)]
    BY <1>1, <1>3
  <2> QED
    BY <1>2, <2>1, Zenon DEF AllLess, Less
<1>5. /\ table' \in [Ends -> [Streams -> Entries]] /\ \A s \in Streams : table'[e][s] = Absent
      /\ \A d \in Ends : d # e => table'[d] = table[d]
  <2>1. [s \in Streams |-> Absent] \in [Streams -> Entries]
    BY FreshEntry
  <2> QED
    BY <1>1, <1>3, <2>1
<1>6. /\ sema' \in [Ends -> [Streams -> {n \in Int : n >= -1}]]
      /\ \A s \in Streams : sema'[e][s] = IF Live(e, s) THEN Shut ELSE sema[e][s]
      /\ \A d \in Ends : d # e => sema'[d] = sema[d]
  <2> DEFINE v == [s \in Streams |-> IF Live(e, s) THEN Shut ELSE sema[e][s]]
  <2>1. v \in [Streams -> {n \in Int : n >= -1}]
    BY <1>3 DEF Shut
  <2>2. \A s \in Streams : v[s] = IF Live(e, s) THEN Shut ELSE sema[e][s]
    OBVIOUS
  <2>3. sema' = [sema EXCEPT ![e] = v]
    BY <1>1
  <2> HIDE DEF v
  <2> QED
    BY <1>3, <2>1, <2>2, <2>3
<1>7. /\ closed' \in [Ends -> Reasons] /\ closed'[e] = reason
      /\ \A d \in Ends : d # e => closed'[d] = closed[d]
      /\ opener' \in [Streams -> Openers]
  BY <1>1, <1>3 DEF Openers
<1>8. MuxShape'
  <2>1. \A d \in Ends, s \in Streams : ~ Live(d, s)' => table'[d][s] = Absent
    <3>1. \A d \in Ends, s \in Streams : ~ Live(d, s) => table[d][s] = Absent
      BY <1>2 DEF MuxShape
    <3>2. \A d \in Ends, s \in Streams : d # e => table'[d][s] = table[d][s]
      BY <1>5
    <3> QED
      BY <1>5, <3>1, <3>2, Zenon DEF Live
  <2> QED
    BY <1>1, <1>2, <1>5, <1>6, <1>7, <2>1, Zenon DEF MuxShape
<1>9. QueueShape'
  BY <1>2, <1>4, LessKeepsShape
<1>10. ConnectionCreditWhole' /\ NoFalseAccusation'
  <2>1. ASSUME NEW d \in Ends, closed'[d] = "open"
        PROVE  pool'[d] + Cardinality(Owed(d)') = ConnCredit
    <3>1. d # e /\ closed[d] = "open" /\ pool'[d] = pool[d] /\ table'[d] = table[d]
      BY <1>1, <1>5, <1>7, <2>1
    <3>2. Owed(d)' = Owed(d)
      BY <3>1 DEF Owed
    <3> QED
      BY <1>2, <3>1, <3>2 DEF ConnectionCreditWhole
  <2>2. ConnectionCreditWhole'
    BY <2>1 DEF ConnectionCreditWhole
  <2>3. NoFalseAccusation'
    BY <1>2, <1>7, Zenon DEF NoFalseAccusation
  <2> QED
    BY <2>2, <2>3
<1>11. ASSUME NEW s \in Streams
       PROVE  StreamInv(s)'
  <2>1. StreamInv(s)
    BY <1>2, ShapeParts
  <2>2. ~ table'[e][s].present /\ ~ table'[e][s].rfin /\ ~ table'[e][s].opening
    BY <1>5, FreshEntry
  <2>3. ASSUME NEW d \in Ends
        PROVE  Line(d, s)'
    <3>1. Line(d, s) /\ Other(d) \in Ends /\ Other(Other(d)) = d
      BY <2>1, TheOther DEF StreamInv
    <3>2. Order(d, s)'
      <4>1. CASE d = e
        <5>1. ItemsKept(wire[d], wire'[d], s) /\ data'[d] = <<>> /\ closed'[d] # "open"
          BY <1>1, <1>3, <1>7, <4>1, SameSelf
        <5>2. table'[Other(d)] = table[Other(d)] /\ gap' = gap /\ put' = put /\ got' = got
          BY <1>1, <1>2, <1>5, <4>1
        <5> QED
          BY <1>2, <1>8, <3>1, <5>1, <5>2, OrderKept, Zenon DEF Line
      <4>2. CASE d = o
        <5>1. Other(d) = e
          BY <1>2, <4>2
        <5> QED
          BY <2>2, <5>1 DEF Order, Live
      <4> QED
        BY <1>2, <4>1, <4>2
    <3>3. Free(d, s)' <= Free(d, s)
      <4>1. Free(d, s) \in Nat
        BY <1>2, HoldingsAreNat
      <4>2. Free(d, s)' = Free(d, s) \/ Free(d, s)' = 0
        <5>1. sema'[d][s] = sema[d][s] \/ sema'[d][s] = -1
          BY <1>2, <1>6, Zenon DEF Shut
        <5> QED
          BY <5>1 DEF Free
      <4> QED
        BY <4>1, <4>2
    <3>4. /\ table'[d][s].present => table'[d][s] = table[d][s] /\ sema'[d][s] = sema[d][s]
          /\ table'[Other(d)][s].present => table'[Other(d)][s] = table[Other(d)][s]
          /\ table'[Other(d)][s].rfin => table[Other(d)][s].rfin
      BY <1>2, <1>5, <1>6, <2>2, <3>1, Zenon
    <3> QED
      BY <1>1, <1>2, <1>4, <1>8, <1>9, <3>1, <3>2, <3>3, <3>4, LessLine
  <2>4. Start(s) /\ Answer(s) /\ Opening(s)
    BY <2>1 DEF StreamInv
  <2>5. opener'[s] = opener[s] \/ (e = "desktop" /\ opener'[s] = "failed")
    BY <1>1
  <2>6. Start(s)'
    <3>1. /\ opener'[s] = "idle" => opener[s] = "idle"
          /\ dialed'[s] = dialed[s]
          /\ \A d \in Ends : table'[d][s].present => table[d][s].present
      BY <1>1, <1>5, <2>2, <2>5
    <3> QED
      BY <1>1, <1>2, <1>4, <2>4, <3>1, LessStart
  <2>7. Answer(s)' /\ \A f \in Answers(s) : Queued("daemon", f)' => Queued("daemon", f)
    BY <1>1, <1>2, <1>4, <2>4, LessAnswer
  <2>8. Opening(s)'
    <3>1. ~ table'["daemon"][s].opening
      <4>1. "daemon" \in Ends
        BY DEF Ends
      <4> QED
        BY <1>5, <2>2, <2>4, <4>1, Zenon DEF Opening
    <3>2. CASE e = "desktop"
      BY <1>7, <2>2, <3>1, <3>2 DEF Opening
    <3>3. CASE e = "daemon"
      <4>1. "desktop" \in Ends /\ "desktop" # e
        BY <3>3 DEF Ends
      <4>2. /\ table'["desktop"] = table["desktop"] /\ closed'["desktop"] = closed["desktop"]
            /\ opener'[s] = opener[s] /\ dialed' = dialed /\ rd' = rd /\ wr' = wr
        BY <1>1, <1>5, <1>7, <2>5, <3>3, <4>1
      <4> QED
        BY <2>4, <2>7, <3>1, <4>2 DEF Opening, Still
    <3> QED
      BY <3>2, <3>3 DEF Ends
  <2> QED
    BY <2>3, <2>6, <2>7, <2>8 DEF StreamInv
<1> QED
  BY <1>8, <1>9, <1>10, <1>11 DEF MuxInv

LEMMA CloseStepsKeep ==
  ASSUME MuxInv
  PROVE  /\ \A e \in Ends : Undecipherable(e) \/ PeerLeft(e) => MuxInv'
         /\ Shutdown => MuxInv'
<1>1. wire \in [Ends -> Seq(Frames)] /\ \A d \in Ends : Less(wire[d], wire[d])
  BY ShapeParts DEF Less
<1>2. ASSUME NEW e \in Ends, NEW reason \in Reasons \ {"open", "protocol"}, CloseEnd(e, reason),
             UNCHANGED wire
      PROVE  MuxInv'
  BY <1>1, <1>2, CloseKeeps, TheOther, Zenon
<1>3. /\ "crypto" \in Reasons \ {"open", "protocol"} /\ "link" \in Reasons \ {"open", "protocol"}
      /\ "shutdown" \in Reasons \ {"open", "protocol"} /\ "desktop" \in Ends
  BY DEF Reasons, Ends
<1> QED
  BY <1>2, <1>3 DEF Undecipherable, PeerLeft, Shutdown

-----------------------------------------------------------------------------
(* The reader task takes the next record. *)

Reads(e, o, h, s) ==
  /\ o = Other(e) /\ closed[e] = "open" /\ ~ gap[o] /\ wire[o] # <<>>
  /\ h = Head(wire[o]) /\ s = h.s
Takes(e, o, h, s) ==
  /\ o = Other(e) /\ closed[e] = "open" /\ ~ gap[o] /\ wire[o] # <<>>
  /\ h = Head(wire[o]) /\ s = h.s
  /\ wire' = [wire EXCEPT ![o] = Tail(@)]
  /\ UNCHANGED <<data, gap, put, got, closed>>

LEMMA ReadHead ==
  ASSUME MuxInv, NEW e \in Ends, NEW o \in Ends, NEW h \in Frames, NEW s \in Streams, Reads(e, o, h, s)
  PROVE  /\ e = Other(o) /\ h.kind \in CtlKinds(o) \cup DataKinds /\ In(wire[o], h)
         /\ h.kind # "Data" => h = Frame(h.kind, s)
         /\ h.kind = "Data" => h = DataFrame(s, h.n) /\ h.n \in Nat
<1>1. wire[o] \in Seq(Frames) /\ QueueShape
  BY ShapeParts DEF MuxInv
<1>2. Len(wire[o]) \in Nat \ {0} /\ h = wire[o][1]
  BY <1>1, TailIs DEF Reads
<1>3. 1 \in 1..Len(wire[o])
  BY <1>2
<1>4. In(wire[o], h) /\ h.kind \in CtlKinds(o) \cup DataKinds
  BY <1>1, <1>2, <1>3, Zenon DEF In, QueueShape
<1>5. /\ h.kind # "Data" => h = Frame(h.kind, s)
      /\ h.kind = "Data" => h = DataFrame(s, h.n) /\ h.n \in Nat
  BY FramesAre DEF Reads
<1>6. e = Other(o)
  BY TheOther DEF Reads
<1> QED
  BY <1>4, <1>5, <1>6

LEMMA TakenHead ==
  ASSUME MuxInv, NEW e \in Ends, NEW o \in Ends, NEW h \in Frames, NEW s \in Streams, Takes(e, o, h, s)
  PROVE  /\ e = Other(o) /\ o # e /\ \A d \in Ends : d = e \/ d = o
         /\ h.kind \in CtlKinds(o) \cup DataKinds /\ In(wire[o], h)
         /\ wire[o] \in Seq(Frames) /\ wire' \in [Ends -> Seq(Frames)] /\ wire'[o] \in Seq(Frames)
         /\ wire'[o] = Tail(wire[o]) /\ \A d \in Ends : d # o => wire'[d] = wire[d]
         /\ \A d \in Ends : Less(wire[d], wire'[d])
         /\ h.kind # "Data" => h = Frame(h.kind, s)
         /\ h.kind = "Data" => h = DataFrame(s, h.n) /\ h.n \in Nat
<1>1. wire \in [Ends -> Seq(Frames)] /\ wire[o] \in Seq(Frames) /\ QueueShape
  BY ShapeParts DEF MuxInv
<1>2. e = Other(o) /\ o # e /\ \A d \in Ends : d = e \/ d = o
  BY TheOther DEF Takes
<1>3. /\ Tail(wire[o]) \in Seq(Frames) /\ Len(wire[o]) \in Nat \ {0} /\ h = wire[o][1]
  BY <1>1, TailIs DEF Takes
<1>4. wire' \in [Ends -> Seq(Frames)] /\ wire'[o] = Tail(wire[o]) /\ \A d \in Ends : d # o => wire'[d] = wire[d]
  BY <1>1, <1>3 DEF Takes
<1>5. 1 \in 1..Len(wire[o])
  BY <1>3
<1>6. In(wire[o], h) /\ h.kind \in CtlKinds(o) \cup DataKinds
  BY <1>1, <1>3, <1>5 DEF In, QueueShape
<1>7. \A d \in Ends : Less(wire[d], wire'[d])
  BY <1>4 DEF Less, Takes
<1>8. /\ h.kind # "Data" => h = Frame(h.kind, s)
      /\ h.kind = "Data" => h = DataFrame(s, h.n) /\ h.n \in Nat
  BY FramesAre DEF Takes
<1> QED
  BY <1>1, <1>2, <1>3, <1>4, <1>6, <1>7, <1>8

\* What is left of the queue.
LEMMA TakenQueue ==
  ASSUME MuxInv, NEW e \in Ends, NEW o \in Ends, NEW h \in Frames, NEW s \in Streams, Takes(e, o, h, s)
  PROVE  /\ \A f : In(wire[o], f) <=> In(wire'[o], f) \/ f = h
         /\ \A f : Once(wire[o], f) => Once(wire'[o], f) /\ (f = h => ~ In(wire'[o], f))
         /\ \A f, g : Precedes(wire[o], f, g) => (f # h => Precedes(wire'[o], f, g)) /\ g # h
         /\ \A f, g : Leads(wire[o], f, g) => Leads(wire'[o], f, g) /\ (g = h /\ f # g => ~ In(wire'[o], f))
         /\ \A f : Count(wire[o], f) = Count(wire'[o], f) + (IF f = h THEN 1 ELSE 0)
<1>1. wire[o] \in Seq(Frames) /\ wire'[o] = Tail(wire[o]) /\ wire[o] # <<>> /\ h = Head(wire[o])
  BY TakenHead, Zenon DEF Takes
<1> QED
  BY <1>1, TailQueue

\* A frame that is not the one that opens the stream says that it was dialed.
LEMMA ReadDialed ==
  ASSUME MuxInv, NEW e \in Ends, NEW o \in Ends, NEW h \in Frames, NEW s \in Streams, Reads(e, o, h, s)
  PROVE  /\ opener[s] # "idle" /\ Start(s) /\ Answer(s) /\ Opening(s) /\ Line(e, s) /\ Line(o, s)
         /\ h.kind # "Open" => dialed[s] # "none"
         /\ h.kind = "Open" => e = "daemon" /\ o = "desktop"
         /\ h.kind \in {"Opened", "OpenFailed"} => e = "desktop" /\ o = "daemon"
<1>1. In(wire[o], h) /\ h.kind \in CtlKinds(o) \cup DataKinds
  BY ReadHead
<1>2. Start(s) /\ Answer(s) /\ Opening(s) /\ Line(e, s) /\ Line(o, s)
  BY ShapeParts DEF StreamInv
<1>3. Queued(o, h) /\ h.s = s
  BY <1>1 DEF Queued, Reads
<1>4. h.kind # "Open" => dialed[s] # "none"
  BY <1>2, <1>3 DEF Start, Unheard, Ends
<1>5. /\ h.kind = "Open" => o # "daemon"
      /\ h.kind \in {"Opened", "OpenFailed"} => o # "desktop"
  BY <1>1 DEF CtlKinds, DataKinds
<1>6. o = Other(e)
  BY DEF Reads
<1>7. /\ h.kind = "Open" => e = "daemon" /\ o = "desktop"
      /\ h.kind \in {"Opened", "OpenFailed"} => e = "desktop" /\ o = "daemon"
  BY <1>5, <1>6 DEF Other, Ends
<1>8. opener[s] # "idle"
  BY <1>2, <1>3, <1>4, <1>7 DEF Start, Unheard
<1> QED
  BY <1>2, <1>4, <1>7, <1>8

LEMMA TakenDialed ==
  ASSUME MuxInv, NEW e \in Ends, NEW o \in Ends, NEW h \in Frames, NEW s \in Streams, Takes(e, o, h, s)
  PROVE  /\ opener[s] # "idle" /\ Start(s) /\ Answer(s) /\ Opening(s) /\ Line(e, s) /\ Line(o, s)
         /\ h.kind # "Open" => dialed[s] # "none"
         /\ h.kind = "Open" => e = "daemon" /\ o = "desktop"
         /\ h.kind \in {"Opened", "OpenFailed"} => e = "desktop" /\ o = "daemon"
<1>1. Reads(e, o, h, s)
  BY DEF Takes, Reads
<1> QED
  BY <1>1, ReadDialed

\* Nothing that the other end may have sent is an offence.
LEMMA NoOffence ==
  ASSUME MuxInv, NEW e \in Ends, NEW o \in Ends, NEW h \in Frames, NEW s \in Streams, Reads(e, o, h, s)
  PROVE  ~ Offends(e, h)
<1>1. /\ e = Other(o) /\ h.kind \in CtlKinds(o) \cup DataKinds /\ In(wire[o], h) /\ s = h.s
      /\ closed[e] = "open" /\ ~ gap[o] /\ o = Other(e)
      /\ h.kind # "Data" => h = Frame(h.kind, s)
      /\ h.kind = "Data" => h = DataFrame(s, h.n) /\ h.n \in Nat
  <2>1. s = h.s /\ closed[e] = "open" /\ ~ gap[o] /\ o = Other(e)
    BY DEF Reads
  <2> QED
    BY <2>1, ReadHead
<1>2. /\ Start(s) /\ Answer(s) /\ Opening(s) /\ Line(e, s) /\ Line(o, s)
      /\ h.kind = "Open" => e = "daemon"
      /\ h.kind \in {"Opened", "OpenFailed"} => e = "desktop" /\ o = "daemon"
  BY ReadDialed
<1>3. MuxShape /\ QueueShape /\ table[e][s] \in Entries /\ (~ Live(e, s) => table[e][s] = Absent)
  BY ShapeParts DEF MuxInv
<1>4. /\ put[e][s] \in Nat /\ got[o][s] \in Nat /\ put[o][s] \in Nat /\ got[e][s] \in Nat
      /\ table[e][s].unread \in Nat /\ table[e][s].outstanding \in Nat /\ StreamCredit \in Nat \ {0}
      /\ Free(o, s) \in Nat /\ Holds(o, s) \in Nat /\ Taken(e, s) \in Nat
      /\ Updates(e, s) \in Nat /\ Updates(o, s) \in Nat
  BY <1>3, HoldingsAreNat, UpdatesAreNat, EntryFields, MuxAssumption
<1>5. ASSUME h.kind \in {"Opened", "OpenFailed"}
      PROVE  table[e][s].opening
  <2>1. h \in Answers(s) /\ Queued("daemon", h) /\ closed["desktop"] = "open"
    BY <1>1, <1>2, <1>5 DEF Answers, Queued
  <2> QED
    BY <1>2, <1>5, <2>1 DEF Opening
<1>6. ASSUME h.kind = "Data"
      PROVE  table[e][s].unread < StreamCredit
  <2>1. CASE ~ Live(e, s)
    BY <1>3, <1>4, <2>1, FreshEntry
  <2>2. CASE Live(e, s)
    <3>1. h \in Items(s) /\ InFlight(o, h)
      BY <1>1, <1>6, ItemsAre DEF InFlight
    <3>2. InOrder(o, h)
      BY <1>1, <1>2, <2>2, <3>1 DEF Line, Order
    <3>3. h.n > Read(e, s) /\ h.n <= put[o][s] /\ h.n \in Nat
      BY <1>1, <1>6, <3>1, <3>2 DEF InOrder
    <3>4. Free(o, s) + Holds(o, s) + (put[o][s] - got[e][s] + Updates(e, s)) <= StreamCredit
      BY <1>1, <1>2 DEF Line, Window
    <3>5. h.n > got[e][s] + table[e][s].unread
      BY <3>3 DEF Read, Unread
    <3> QED
      BY <1>4, <3>3, <3>4, <3>5
  <2> QED
    BY <2>1, <2>2
<1>7. ASSUME h.kind = "WindowUpdate", Live(e, s)
      PROVE  table[e][s].outstanding > 0
  <2>1. Updates(o, s) > 0
    BY <1>1, <1>3, <1>7, UpdatesAreNat
  <2>2. Taken(e, s) + (put[e][s] - got[o][s] + Updates(o, s)) <= table[e][s].outstanding
    BY <1>1, <1>2, <1>7 DEF Line, Window
  <2>3. got[o][s] <= put[e][s]
    BY <1>1, <1>2 DEF Line, Inbox
  <2> QED
    BY <1>4, <2>1, <2>2, <2>3
<1>8. ASSUME Offends(e, h)
      PROVE  FALSE
  <2>1. CASE h.kind = "Open" /\ e = "desktop"
    BY <1>2, <2>1
  <2>2. CASE h.kind \in {"Opened", "OpenFailed"} /\ ~ table[e][s].opening
    BY <1>5, <2>2
  <2>3. CASE h.kind = "Data" /\ table[e][s].unread >= StreamCredit
    BY <1>4, <1>6, <2>3
  <2>4. CASE h.kind = "WindowUpdate" /\ Live(e, s) /\ table[e][s].outstanding = 0
    BY <1>7, <2>4
  <2> QED
    BY <1>1, <1>8, <2>1, <2>2, <2>3, <2>4 DEF Offends
<1> QED
  BY <1>8

\* Putting together a step of the reader task that concerns the stream of its record.
LEMMA TakenStep ==
  ASSUME MuxInv, NEW e \in Ends, NEW o \in Ends, NEW h \in Frames, NEW s \in Streams, Takes(e, o, h, s),
         table' \in [Ends -> [Streams -> Entries]],
         \A d \in Ends, t \in Streams : d # e \/ t # s => table'[d][t] = table[d][t],
         ~ table'[e][s].present => table'[e][s] = Absent,
         sema' \in [Ends -> [Streams -> {n \in Int : n >= -1}]],
         \A d \in Ends, t \in Streams : d # e \/ t # s => sema'[d][t] = sema[d][t],
         inbox' \in [Ends -> [Streams -> Seq(Events)]],
         \A d \in Ends, t \in Streams : d # e \/ t # s => inbox'[d][t] = inbox[d][t],
         rd' \in [Ends -> [Streams -> RdStates]], wr' \in [Ends -> [Streams -> WrStates]],
         \A d \in Ends, t \in Streams : d # e \/ t # s => rd'[d][t] = rd[d][t] /\ wr'[d][t] = wr[d][t],
         pool' \in [Ends -> 0..ConnCredit], \A d \in Ends : d # e => pool'[d] = pool[d],
         pool'[e] + table'[e][s].outstanding = pool[e] + table[e][s].outstanding,
         opener' \in [Streams -> Openers], dialed' \in [Streams -> Dials],
         \A t \in Streams : t # s => opener'[t] = opener[t] /\ dialed'[t] = dialed[t],
         Grows(ctl, ctl', e, s, CtlKinds(e)),
         MuxShape' /\ QueueShape' => StreamInv(s)'
  PROVE  MuxInv'
<1>1. /\ MuxShape /\ QueueShape /\ ConnectionCreditWhole
      /\ ctl \in [Ends -> Seq(Frames)] /\ wire \in [Ends -> Seq(Frames)]
  BY ShapeParts, Zenon DEF MuxInv
<1>2. UNCHANGED <<data, gap, put, got, closed>> /\ wire[o] # <<>> /\ h = Head(wire[o]) /\ s = h.s
  BY DEF Takes
<1>3. /\ wire[o] \in Seq(Frames) /\ wire' \in [Ends -> Seq(Frames)] /\ wire'[o] = Tail(wire[o])
      /\ \A d \in Ends : d # o => wire'[d] = wire[d]
      /\ \A d \in Ends : Less(wire[d], wire'[d])
  BY TakenHead
<1>4. MuxShape'
  <2>1. put' \in [Ends -> [Streams -> Nat]] /\ got' \in [Ends -> [Streams -> Nat]]
    BY <1>2, ShapeParts, Zenon
  <2>2. closed' = closed /\ gap' = gap
    BY <1>2
  <2> QED
    BY <1>1, <2>1, <2>2, ShapeMoves, Zenon
<1>5. /\ ctl' \in [Ends -> Seq(Frames)]
      /\ \A d \in Ends : d # e => ctl'[d] = ctl[d]
      /\ \A d \in Ends, t \in Streams : t # s => Same(ctl[d], ctl'[d], t)
      /\ ctl' # ctl => Len(ctl'[e]) = Len(ctl[e]) + 1
      /\ \A d \in Ends : \A i \in 1..Len(ctl'[d]) :
           \/ i \in 1..Len(ctl[d]) /\ ctl'[d][i] = ctl[d][i]
           \/ d = e /\ ctl'[d][i].kind \in CtlKinds(e)
  <2>1. ctl \in [Ends -> Seq(Frames)]
    BY <1>1
  <2> QED
    BY <2>1, OneGrows, Zenon
<1>6. QueueShape'
  <2>1. ASSUME NEW d \in Ends
        PROVE  /\ Len(data'[d]) <= DataCap
               /\ \A i \in 1..Len(ctl'[d]) : ctl'[d][i].kind \in CtlKinds(d)
               /\ \A i \in 1..Len(data'[d]) : data'[d][i].kind \in DataKinds
               /\ \A i \in 1..Len(wire'[d]) : wire'[d][i].kind \in CtlKinds(d) \cup DataKinds
    <3>1. \A i \in 1..Len(ctl'[d]) : ctl'[d][i].kind \in CtlKinds(d)
      BY <1>1, <1>5, Zenon DEF QueueShape
    <3>2. \A i \in 1..Len(wire'[d]) : wire'[d][i].kind \in CtlKinds(d) \cup DataKinds
      <4>1. wire[d] \in Seq(Frames) /\ Less(wire[d], wire'[d])
        BY <1>1, <1>3
      <4>2. \A i \in 1..Len(wire'[d]) : In(wire[d], wire'[d][i])
        BY <4>1, LessIs, Zenon
      <4>3. \A f : In(wire[d], f) => f.kind \in CtlKinds(d) \cup DataKinds
        BY <1>1, Zenon DEF QueueShape, In
      <4> QED
        BY <4>2, <4>3, Zenon
    <3> QED
      BY <1>1, <1>2, <3>1, <3>2 DEF QueueShape
  <2>2. data' \in [Ends -> Seq(Frames)]
    BY <1>1, <1>2 DEF QueueShape
  <2> QED
    BY <1>3, <1>5, <2>1, <2>2, Zenon DEF QueueShape
<1>7. QueuesApart(s)
  <2>1. ASSUME NEW d \in Ends, NEW t \in Streams, t # s
        PROVE  Same(wire[d], wire'[d], t)
    <3>1. CASE d = o
      BY <1>2, <1>3, <2>1, <3>1, SameTail, Zenon
    <3>2. CASE d # o
      BY <1>3, <3>2, SameSelf, Zenon
    <3> QED
      BY <3>1, <3>2
  <2> QED
    BY <1>2, <1>5, <2>1, SameSelf, Zenon DEF QueuesApart
<1>8. OthersKept(s)
  BY <1>2 DEF OthersKept
<1>9. ConnectionCreditWhole'
  <2>1. /\ \A d \in Ends, t \in Streams : d # e \/ t # s =>
             table'[d][t].outstanding = table[d][t].outstanding
        /\ \A d \in Ends : closed'[d] = "open" => closed[d] = "open"
        /\ closed'[e] = "open" =>
             pool'[e] + table'[e][s].outstanding = pool[e] + table[e][s].outstanding
    BY <1>2, Zenon
  <2> QED
    BY <1>1, <1>4, <2>1, CreditKept, Zenon
<1>10. StreamInv(s)'
  BY <1>4, <1>6
<1> QED
  BY <1>4, <1>6, <1>7, <1>8, <1>9, <1>10, OneStreamMoves

\* What a step of e leaves alone at the other end.
FarStays(e, o, s) ==
  /\ table'[o][s] = table[o][s] /\ sema'[o][s] = sema[o][s] /\ inbox'[o][s] = inbox[o][s]
  /\ rd'[o][s] = rd[o][s] /\ wr'[o][s] = wr[o][s] /\ ctl'[o] = ctl[o]

\* The permits that come back with the record are the ones it is about.
LEMMA TakenUpdates ==
  ASSUME MuxInv, NEW e \in Ends, NEW o \in Ends, NEW h \in Frames, NEW s \in Streams,
         Takes(e, o, h, s), ctl'[o] = ctl[o]
  PROVE  /\ h.kind # "WindowUpdate" => Updates(o, s)' = Updates(o, s)
         /\ h.kind = "WindowUpdate" => Updates(o, s)' = Updates(o, s) - 1
         /\ Updates(o, s) \in Nat /\ Updates(o, s)' \in Nat
<1> DEFINE w == Frame("WindowUpdate", s)
<1>1. Count(wire[o], w) = Count(wire'[o], w) + (IF w = h THEN 1 ELSE 0)
  <2>1. \A f : Count(wire[o], f) = Count(wire'[o], f) + (IF f = h THEN 1 ELSE 0)
    BY TakenQueue, Zenon
  <2> QED
    BY <2>1
<1>2. wire[o] \in Seq(Frames) /\ wire'[o] \in Seq(Frames) /\ ctl[o] \in Seq(Frames)
  BY TakenHead, ShapeParts
<1>3. Count(wire[o], w) \in Nat /\ Count(wire'[o], w) \in Nat /\ Count(ctl[o], w) \in Nat
  BY <1>2, CountIsNat, Zenon
<1>4. h.kind = "WindowUpdate" <=> w = h
  <2>1. h.kind = "WindowUpdate" => h = Frame(h.kind, s)
    BY TakenHead, Zenon
  <2>2. w.kind = "WindowUpdate"
    BY FrameFields
  <2> QED
    BY <2>1, <2>2
<1> HIDE DEF w
<1>5. /\ h.kind # "WindowUpdate" => Count(ctl[o], w) + Count(wire'[o], w) = Count(ctl[o], w) + Count(wire[o], w)
      /\ h.kind = "WindowUpdate" => Count(ctl[o], w) + Count(wire'[o], w) = (Count(ctl[o], w) + Count(wire[o], w)) - 1
      /\ Count(ctl[o], w) + Count(wire[o], w) \in Nat
      /\ Count(ctl[o], w) + Count(wire'[o], w) \in Nat
  <2>1. CASE w = h
    <3>1. (IF w = h THEN 1 ELSE 0) = 1
      BY <2>1
    <3>2. Count(wire[o], w) = Count(wire'[o], w) + 1
      BY <1>1, <3>1
    <3> QED
      BY <1>3, <1>4, <2>1, <3>2
  <2>2. CASE w # h
    <3>1. (IF w = h THEN 1 ELSE 0) = 0
      BY <2>2
    <3>2. Count(wire[o], w) = Count(wire'[o], w) + 0
      BY <1>1, <3>1
    <3> QED
      BY <1>3, <1>4, <2>2, <3>2
  <2> QED
    BY <2>1, <2>2
<1> QED
  BY <1>5 DEF Updates, w

\* What e says on the stream goes on as it was.
LEMMA TakenOut ==
  ASSUME MuxInv, MuxShape', QueueShape', NEW e \in Ends, NEW o \in Ends, NEW h \in Frames,
         NEW s \in Streams, Takes(e, o, h, s), FarStays(e, o, s),
         wr'[e][s] \in {"stream", "conn", "data"} =>
           wr[e][s] \in {"stream", "conn", "data"} \/ put[e][s] < Chunks[e],
         wr[e][s] \in {"ended", "over"} => wr'[e][s] \in {"ended", "over"},
         Free(e, s)' + Holds(e, s)' + Updates(o, s)' <= Free(e, s) + Holds(e, s) + Updates(o, s),
         table'[e][s].present =>
           /\ table[e][s].present /\ sema'[e][s] >= 0
           /\ Taken(e, s)' + Updates(o, s)' + table[e][s].outstanding
                <= Taken(e, s) + Updates(o, s) + table'[e][s].outstanding
  PROVE  Line(e, s)'
<1>1. /\ o = Other(e) /\ UNCHANGED <<data, gap, put, got, closed>>
      /\ MuxShape /\ QueueShape /\ Line(e, s)
  BY ShapeParts, Zenon DEF Takes, MuxInv
<1>2. wire'[e] = wire[e]
  BY TakenHead
<1>3. Inbox(e, s) /\ Sent(e, s) /\ Window(e, s) /\ Order(e, s)
  BY <1>1 DEF Line
<1>4. /\ table'[o][s] = table[o][s] /\ sema'[o][s] = sema[o][s] /\ inbox'[o][s] = inbox[o][s]
      /\ rd'[o][s] = rd[o][s] /\ wr'[o][s] = wr[o][s]
  BY DEF FarStays
<1>5. Inbox(e, s)'
  BY <1>1, <1>3, <1>4, InboxKept
<1>6. Sent(e, s)'
  <2>1. In(wire'[e], Frame("Fin", s)) \/ In(data'[e], Frame("Fin", s)) => InFlight(e, Frame("Fin", s))
    BY <1>1, <1>2 DEF InFlight
  <2> QED
    BY <1>1, <1>3, <1>4, <2>1, SentKept
<1>7. Window(e, s)'
  BY <1>1, <1>3, WindowKept
<1>8. Order(e, s)'
  <2>1. ItemsKept(wire[e], wire'[e], s) /\ ItemsKept(data[e], data'[e], s)
    BY <1>1, <1>2, SameSelf
  <2> QED
    BY <1>1, <1>3, <1>4, <2>1, OrderKept
<1> QED
  BY <1>5, <1>6, <1>7, <1>8 DEF Line

LEMMA TakenOutStill ==
  ASSUME MuxInv, MuxShape', QueueShape', NEW e \in Ends, NEW o \in Ends, NEW h \in Frames,
         NEW s \in Streams, Takes(e, o, h, s), FarStays(e, o, s), WriterMoves(e, s)
  PROVE  Line(e, s)'
<1>1. /\ Free(e, s) \in Nat /\ Holds(e, s) \in Nat /\ Taken(e, s) \in Nat
      /\ table[e][s].outstanding \in Nat
  BY HoldingsAreNat DEF MuxInv
<1>2. /\ Free(e, s)' \in Nat /\ Holds(e, s)' \in Nat /\ Taken(e, s)' \in Nat
      /\ table'[e][s].outstanding \in Nat
  BY HoldingsStayNat
<1>3. Updates(o, s) \in Nat /\ Updates(o, s)' \in Nat /\ Updates(o, s)' <= Updates(o, s)
  <2>1. ctl'[o] = ctl[o]
    BY DEF FarStays
  <2>2. /\ h.kind # "WindowUpdate" => Updates(o, s)' = Updates(o, s)
        /\ h.kind = "WindowUpdate" => Updates(o, s)' = Updates(o, s) - 1
        /\ Updates(o, s) \in Nat /\ Updates(o, s)' \in Nat
    BY <2>1, TakenUpdates
  <2> QED
    BY <2>2
<1>4. /\ wr'[e][s] \in {"stream", "conn", "data"} =>
           wr[e][s] \in {"stream", "conn", "data"} \/ put[e][s] < Chunks[e]
      /\ wr[e][s] \in {"ended", "over"} => wr'[e][s] \in {"ended", "over"}
      /\ Free(e, s)' + Holds(e, s)' <= Free(e, s) + Holds(e, s)
      /\ table'[e][s].present =>
           /\ table[e][s].present /\ sema'[e][s] >= 0
           /\ Taken(e, s)' + table[e][s].outstanding <= Taken(e, s) + table'[e][s].outstanding
  BY DEF WriterMoves
<1>5. Free(e, s)' + Holds(e, s)' + Updates(o, s)' <= Free(e, s) + Holds(e, s) + Updates(o, s)
  BY <1>1, <1>2, <1>3, <1>4
<1>6. table'[e][s].present =>
        /\ table[e][s].present /\ sema'[e][s] >= 0
        /\ Taken(e, s)' + Updates(o, s)' + table[e][s].outstanding
             <= Taken(e, s) + Updates(o, s) + table'[e][s].outstanding
  BY <1>1, <1>2, <1>3, <1>4
<1> QED
  BY <1>4, <1>5, <1>6, TakenOut

\* What the other end has sent has its permits where they were.
LEMMA TakenWindow ==
  ASSUME MuxInv, MuxShape', QueueShape', NEW e \in Ends, NEW o \in Ends, NEW h \in Frames,
         NEW s \in Streams, Takes(e, o, h, s), FarStays(e, o, s), Updates(e, s)' = Updates(e, s)
  PROVE  Window(o, s)'
<1>1. Line(o, s) /\ UNCHANGED <<put, got>> /\ e = Other(o)
  BY ShapeParts, TakenHead, Zenon DEF Takes
<1>2. Free(o, s)' = Free(o, s) /\ Holds(o, s)' = Holds(o, s) /\ Taken(o, s)' = Taken(o, s)
  BY DEF FarStays, Free, Holds, Taken
<1> QED
  BY <1>1, <1>2 DEF Line, Window, Live, FarStays

\* A record that is no data changes nothing for the reader of the stream.
LEMMA TakenIn ==
  ASSUME MuxInv, MuxShape', QueueShape', NEW e \in Ends, NEW o \in Ends, NEW h \in Frames,
         NEW s \in Streams, Takes(e, o, h, s), FarStays(e, o, s), Updates(e, s)' = Updates(e, s),
         EntryShrinks(e, s), h \notin Items(s) \/ ~ table'[e][s].present,
         \/ inbox'[e][s] = inbox[e][s]
         \/ /\ ~ table'[e][s].present
            /\ inbox'[e][s] = Append(inbox[e][s], [kind |-> "Reset", n |-> 0])
  PROVE  Line(o, s)'
<1>1. /\ MuxShape /\ QueueShape /\ Line(o, s) /\ UNCHANGED <<data, gap, put, got, closed>>
      /\ e = Other(o) /\ wire[o] \in Seq(Frames) /\ wire'[o] = Tail(wire[o])
      /\ wire[o] # <<>> /\ h = Head(wire[o])
  <2>1. UNCHANGED <<data, gap, put, got, closed>> /\ wire[o] # <<>> /\ h = Head(wire[o])
    BY Zenon DEF Takes
  <2> QED
    BY <2>1, TakenHead, ShapeParts, Zenon DEF MuxInv
<1>2. Inbox(o, s) /\ Sent(o, s) /\ Order(o, s)
  BY <1>1 DEF Line
<1>3. /\ table'[o][s] = table[o][s] /\ rd'[o][s] = rd[o][s] /\ wr'[o][s] = wr[o][s]
  BY DEF FarStays
<1>4. /\ table'[e][s].present => /\ table[e][s].present /\ table'[e][s].unread = table[e][s].unread
                                 /\ table'[e][s].rfin = table[e][s].rfin
      /\ table'[e][s].rfin => table[e][s].rfin
      /\ rd'[e][s] = "ended" => rd[e][s] = "ended"
      /\ table'[e][s].present /\ rd[e][s] = "ended" => rd'[e][s] = "ended"
  BY DEF EntryShrinks
<1>5. Window(o, s)'
  BY TakenWindow
<1>6. Order(o, s)'
  <2>1. CASE ~ table'[e][s].present
    BY <1>1, <2>1 DEF Order, Live
  <2>2. CASE h \notin Items(s)
    <3>1. ItemsKept(wire[o], wire'[o], s) /\ ItemsKept(data[o], data'[o], s)
      BY <1>1, <2>2, SameTail, SameSelf
    <3> QED
      BY <1>1, <1>2, <1>4, <3>1, OrderKept
  <2> QED
    BY <2>1, <2>2
<1>7. In(wire'[o], Frame("Fin", s)) \/ In(data'[o], Frame("Fin", s)) => InFlight(o, Frame("Fin", s))
  <2>1. \A f : In(wire[o], f) <=> In(wire'[o], f) \/ f = h
    BY TakenQueue, Zenon
  <2> QED
    BY <1>1, <2>1 DEF InFlight
<1>8. CASE inbox'[e][s] = inbox[e][s]
  <2>1. Inbox(o, s)'
    BY <1>1, <1>2, <1>4, <1>8, InboxKept
  <2>2. Sent(o, s)'
    BY <1>1, <1>2, <1>3, <1>4, <1>7, <1>8, SentKept
  <2> QED
    BY <1>5, <1>6, <2>1, <2>2 DEF Line
<1>9. CASE /\ ~ table'[e][s].present
           /\ inbox'[e][s] = Append(inbox[e][s], [kind |-> "Reset", n |-> 0])
  <2> DEFINE q == inbox[e][s]
             r == inbox'[e][s]
             v == [kind |-> "Reset", n |-> 0]
  <2>1. q \in Seq(Events) /\ v \in Events /\ v.kind = "Reset"
    BY ShapeParts, Zenon DEF Events
  <2>2. /\ Len(r) = Len(q) + 1 /\ Len(q) \in Nat /\ r[Len(q) + 1] = v
        /\ \A i \in 1..Len(q) : r[i] = q[i]
    BY <1>9, <2>1, AppendIs
  <2>3. /\ got[e][s] <= put[o][s] /\ put[o][s] <= Chunks[o]
        /\ \A i \in 1..Len(q) :
             /\ q[i].kind = "Data" => q[i].n = got[e][s] + i /\ got[e][s] + i <= put[o][s]
             /\ q[i].kind = "Fin" => got[e][s] + i = put[o][s] + 1
        /\ rd[e][s] = "ended" => got[e][s] = put[o][s]
    BY <1>1, <1>2 DEF Inbox
  <2> HIDE DEF q, r, v
  <2>4. \A i \in 1..Len(r) : r[i].kind \in DataKinds => i \in 1..Len(q) /\ r[i] = q[i]
    <3>1. \A i \in 1..Len(r) : i \in 1..Len(q) \/ i = Len(q) + 1
      BY <2>2
    <3> QED
      BY <2>1, <2>2, <3>1 DEF DataKinds
  <2>5. Inbox(o, s)'
    <3>1. \A i \in 1..Len(r) :
            /\ r[i].kind = "Data" => r[i].n = got'[e][s] + i /\ got'[e][s] + i <= put'[o][s]
            /\ r[i].kind = "Fin" => got'[e][s] + i = put'[o][s] + 1
      BY <1>1, <2>3, <2>4 DEF DataKinds
    <3> QED
      BY <1>1, <1>4, <1>9, <2>3, <3>1, Zenon DEF Inbox, Live, r
  <2>6. Sent(o, s)'
    <3>1. (\E i \in 1..Len(r) : r[i].kind = "Fin") => \E i \in 1..Len(q) : q[i].kind = "Fin"
      BY <2>4 DEF DataKinds
    <3>2. InFlight(o, Frame("Fin", s))' => InFlight(o, Frame("Fin", s))
      BY <1>7 DEF InFlight
    <3> QED
      BY <1>1, <1>2, <1>3, <1>4, <3>1, <3>2 DEF Sent, q, r
  <2> QED
    BY <1>5, <1>6, <2>5, <2>6 DEF Line
<1> QED
  BY <1>8, <1>9

LEMMA TakenRest ==
  ASSUME MuxInv, NEW e \in Ends, NEW o \in Ends, NEW h \in Frames, NEW s \in Streams,
         Takes(e, o, h, s), ctl' = ctl, h.kind # "Open", dialed'[s] = dialed[s], opener'[s] # "idle",
         rd'["daemon"][s] = rd["daemon"][s], wr'["daemon"][s] = wr["daemon"][s]
  PROVE  /\ Start(s)' /\ Answer(s)'
         /\ \A f \in Answers(s) : Queued("daemon", f)' => Queued("daemon", f)
<1>1. QueueShape /\ ctl \in [Ends -> Seq(Frames)] /\ data \in [Ends -> Seq(Frames)]
  BY ShapeParts, Zenon DEF MuxInv
<1>2. Start(s) /\ Answer(s) /\ dialed[s] # "none"
  BY TakenDialed
<1>3. AllLess
  <2>1. wire' \in [Ends -> Seq(Frames)] /\ \A d \in Ends : Less(wire[d], wire'[d])
    BY TakenHead
  <2>2. data' = data
    BY DEF Takes
  <2> QED
    BY <1>1, <2>1, <2>2, Zenon DEF AllLess, Less
<1>4. Answer(s)' /\ \A f \in Answers(s) : Queued("daemon", f)' => Queued("daemon", f)
  BY <1>1, <1>2, <1>3, LessAnswer
<1>5. dialed[s] # "done" => rd["daemon"][s] = "off" /\ wr["daemon"][s] = "off"
  BY <1>2 DEF Start, Still
<1>6. Start(s)'
  BY <1>2, <1>5, StartLate
<1> QED
  BY <1>4, <1>6

\* A credit comes back.
LEMMA OnWindowUpdateKeeps ==
  ASSUME MuxInv, NEW e \in Ends, NEW o \in Ends, NEW h \in Frames, NEW s \in Streams,
         Takes(e, o, h, s), h.kind = "WindowUpdate", OnWindowUpdate(e, s)
  PROVE  MuxInv'
<1>1. /\ ~ Live(e, s) \/ table[e][s].outstanding > 0
      /\ IF Live(e, s)
         THEN /\ table' = [table EXCEPT ![e][s].outstanding = table[e][s].outstanding - 1]
              /\ sema' = [sema EXCEPT ![e][s] = sema[e][s] + 1] /\ pool' = [pool EXCEPT ![e] = @ + 1]
         ELSE UNCHANGED <<table, sema, pool>>
      /\ UNCHANGED <<ctl, opener, dialed, inbox, rd, wr>>
  BY DEF OnWindowUpdate
<1>2. /\ o # e /\ e = Other(o) /\ \A d \in Ends : d = e \/ d = o
      /\ MuxShape /\ QueueShape /\ ConnectionCreditWhole
      /\ table \in [Ends -> [Streams -> Entries]]
      /\ sema \in [Ends -> [Streams -> {n \in Int : n >= -1}]]
      /\ pool \in [Ends -> 0..ConnCredit] /\ table[e][s] \in Entries
      /\ (~ Live(e, s) => table[e][s] = Absent)
  BY ShapeParts, TakenHead, Zenon DEF MuxInv
<1>3. /\ opener[s] # "idle" /\ Opening(s) /\ Line(e, s)
  BY TakenDialed
<1>4. /\ Updates(o, s)' = Updates(o, s) - 1 /\ Updates(o, s) \in Nat /\ Updates(o, s)' \in Nat
  <2>1. ctl'[o] = ctl[o]
    BY <1>1
  <2> QED
    BY <2>1, TakenUpdates
<1>5. Updates(e, s)' = Updates(e, s)
  <2>1. wire'[e] = wire[e] /\ ctl' = ctl
    BY <1>1, <1>2, TakenHead
  <2> QED
    BY <2>1 DEF Updates
<1>6. /\ table' \in [Ends -> [Streams -> Entries]]
      /\ \A d \in Ends, t \in Streams : d # e \/ t # s => table'[d][t] = table[d][t]
      /\ table'[e][s].present = table[e][s].present /\ table'[e][s].unread = table[e][s].unread
      /\ table'[e][s].rfin = table[e][s].rfin /\ table'[e][s].lfin = table[e][s].lfin
      /\ table'[e][s].opening = table[e][s].opening
      /\ Live(e, s) => table'[e][s].outstanding = table[e][s].outstanding - 1
      /\ ~ Live(e, s) => table' = table
  <2>1. CASE ~ Live(e, s)
    BY <1>1, <1>2, <2>1
  <2>2. CASE Live(e, s)
    <3> DEFINE n == table[e][s].outstanding - 1
               r == [table[e][s] EXCEPT !.outstanding = n]
    <3>1. n \in Nat
      <4>1. table[e][s].outstanding \in Nat /\ table[e][s].outstanding > 0
        BY <1>1, <1>2, <2>2, EntryFields
      <4> QED
        BY <4>1
    <3>2. table' = [table EXCEPT ![e][s].outstanding = n]
      BY <1>1, <2>2
    <3> HIDE DEF n
    <3>3. table' = [table EXCEPT ![e][s] = r]
      BY <1>2, <3>1, <3>2, PlaceField
    <3>4. /\ r \in Entries /\ r.outstanding = n /\ r.unread = table[e][s].unread
          /\ r.lfin = table[e][s].lfin /\ r.rfin = table[e][s].rfin
          /\ r.opening = table[e][s].opening /\ r.present = table[e][s].present
      BY <1>2, <3>1, EntryChanges
    <3> HIDE DEF r
    <3>5. /\ table' \in [Ends -> [Streams -> Entries]] /\ table'[e][s] = r
          /\ \A d \in Ends, t \in Streams : d # e \/ t # s => table'[d][t] = table[d][t]
      BY <1>2, <3>3, <3>4, Place
    <3> QED
      BY <2>2, <3>4, <3>5 DEF n
  <2> QED
    BY <2>1, <2>2
<1>7. /\ sema' \in [Ends -> [Streams -> {n \in Int : n >= -1}]]
      /\ \A d \in Ends, t \in Streams : d # e \/ t # s => sema'[d][t] = sema[d][t]
      /\ Live(e, s) => sema'[e][s] = sema[e][s] + 1
      /\ ~ Live(e, s) => sema' = sema
  <2>1. CASE ~ Live(e, s)
    BY <1>1, <1>2, <2>1
  <2>2. CASE Live(e, s)
    <3> DEFINE v == sema[e][s] + 1
    <3>1. v \in {n \in Int : n >= -1} /\ sema' = [sema EXCEPT ![e][s] = v]
      BY <1>1, <1>2, <2>2
    <3> HIDE DEF v
    <3>2. /\ sema' \in [Ends -> [Streams -> {n \in Int : n >= -1}]] /\ sema'[e][s] = v
          /\ \A d \in Ends, t \in Streams : d # e \/ t # s => sema'[d][t] = sema[d][t]
      BY <1>2, <3>1, Place
    <3> QED
      BY <2>2, <3>2 DEF v
  <2> QED
    BY <2>1, <2>2
<1>8. /\ pool' \in [Ends -> 0..ConnCredit] /\ \A d \in Ends : d # e => pool'[d] = pool[d]
      /\ pool'[e] + table'[e][s].outstanding = pool[e] + table[e][s].outstanding
  <2>1. CASE ~ Live(e, s)
    BY <1>1, <1>2, <1>6, <2>1
  <2>2. CASE Live(e, s)
    <3>1. pool[e] + table[e][s].outstanding \in 0..ConnCredit
      BY <1>2, RefundFits, Zenon DEF Takes
    <3>2. /\ table[e][s].outstanding \in Nat /\ table[e][s].outstanding > 0 /\ pool[e] \in Nat
          /\ ConnCredit \in Nat /\ table'[e][s].outstanding = table[e][s].outstanding - 1
      <4>1. pool[e] \in 0..ConnCredit /\ table[e][s].outstanding \in Nat
        BY <1>2, EntryFields
      <4> QED
        BY <1>1, <1>6, <2>2, <4>1, MuxAssumption
    <3>3. pool[e] + 1 \in 0..ConnCredit
      BY <3>1, <3>2
    <3>4. pool' = [pool EXCEPT ![e] = @ + 1]
      BY <1>1, <2>2
    <3>5. /\ pool' \in [Ends -> 0..ConnCredit] /\ \A d \in Ends : d # e => pool'[d] = pool[d]
          /\ pool'[e] = pool[e] + 1
      BY <1>2, <3>3, <3>4
    <3> QED
      BY <3>2, <3>5
  <2> QED
    BY <2>1, <2>2
<1>9. FarStays(e, o, s)
  BY <1>1, <1>2, <1>6, <1>7 DEF FarStays
<1>10. ASSUME MuxShape', QueueShape'
       PROVE  StreamInv(s)'
  <2>1. Line(e, s)'
    <3>1. /\ Free(e, s) \in Nat /\ Holds(e, s) \in Nat /\ Taken(e, s) \in Nat
          /\ table[e][s].outstanding \in Nat /\ sema[e][s] \in Int
      BY <1>2, HoldingsAreNat
    <3>2. Holds(e, s)' = Holds(e, s) /\ Taken(e, s)' = Taken(e, s)
      BY <1>1 DEF Holds, Taken
    <3>3. Live(e, s) => sema[e][s] >= 0
      BY <1>3 DEF Line, Window
    <3>4. Free(e, s)' <= Free(e, s) + 1
      <4>1. CASE Live(e, s)
        BY <1>7, <3>1, <3>3, <4>1 DEF Free
      <4>2. CASE ~ Live(e, s)
        <5>1. Free(e, s)' = Free(e, s)
          BY <1>7, <4>2 DEF Free
        <5> QED
          BY <3>1, <5>1
      <4> QED
        BY <4>1, <4>2
    <3>5. Free(e, s)' \in Nat
      BY <1>10, HoldingsStayNat
    <3>6. Free(e, s)' + Holds(e, s)' + Updates(o, s)' <= Free(e, s) + Holds(e, s) + Updates(o, s)
      BY <1>4, <3>1, <3>2, <3>4, <3>5
    <3>7. table'[e][s].present =>
            /\ table[e][s].present /\ sema'[e][s] >= 0
            /\ Taken(e, s)' + Updates(o, s)' + table[e][s].outstanding
                 <= Taken(e, s) + Updates(o, s) + table'[e][s].outstanding
      <4> SUFFICES ASSUME table'[e][s].present
                   PROVE  /\ table[e][s].present /\ sema'[e][s] >= 0
                          /\ Taken(e, s)' + Updates(o, s)' + table[e][s].outstanding
                               <= Taken(e, s) + Updates(o, s) + table'[e][s].outstanding
        OBVIOUS
      <4>1. Live(e, s)
        BY <1>6 DEF Live
      <4>2. table'[e][s].outstanding = table[e][s].outstanding - 1 /\ sema'[e][s] = sema[e][s] + 1
        BY <1>6, <1>7, <4>1
      <4>3. Taken(e, s)' + Updates(o, s)' + table[e][s].outstanding
              <= Taken(e, s) + Updates(o, s) + table'[e][s].outstanding
        BY <1>4, <3>1, <3>2, <4>2
      <4>4. sema'[e][s] >= 0
        BY <3>1, <3>3, <4>1, <4>2
      <4> QED
        BY <4>1, <4>3, <4>4 DEF Live
    <3>8. /\ wr'[e][s] \in {"stream", "conn", "data"} =>
               wr[e][s] \in {"stream", "conn", "data"} \/ put[e][s] < Chunks[e]
          /\ wr[e][s] \in {"ended", "over"} => wr'[e][s] \in {"ended", "over"}
      BY <1>1
    <3> QED
      BY <1>9, <1>10, <3>6, <3>7, <3>8, TakenOut
  <2>2. Line(o, s)'
    <3>1. EntryShrinks(e, s)
      BY <1>1, <1>6 DEF EntryShrinks
    <3>2. h \notin Items(s) /\ inbox'[e][s] = inbox[e][s]
      BY <1>1, ItemIs DEF DataKinds
    <3> QED
      BY <1>5, <1>9, <1>10, <3>1, <3>2, TakenIn
  <2>3. /\ Start(s)' /\ Answer(s)'
        /\ \A f \in Answers(s) : Queued("daemon", f)' => Queued("daemon", f)
    BY <1>1, <1>3, TakenRest
  <2>4. Opening(s)'
    <3>1. /\ table'["daemon"][s].opening => table["daemon"][s].opening
          /\ table'["desktop"][s].opening = table["desktop"][s].opening
          /\ table'["desktop"][s].lfin = table["desktop"][s].lfin
      <4>1. "daemon" \in Ends /\ "desktop" \in Ends
        BY DEF Ends
      <4> QED
        BY <1>6, <4>1
    <3>2. closed' = closed
      BY DEF Takes
    <3>3. table["desktop"][s].opening => rd["desktop"][s] = "off" /\ wr["desktop"][s] = "off"
      BY <1>3 DEF Opening, Still
    <3> QED
      BY <1>1, <1>3, <2>3, <3>1, <3>2, <3>3, OpeningKept
  <2> QED
    BY <1>2, <2>1, <2>2, <2>3, <2>4 DEF StreamInv
<1>11. Grows(ctl, ctl', e, s, CtlKinds(e))
  BY <1>1 DEF Grows
<1>12. ~ table'[e][s].present => table'[e][s] = Absent
  BY <1>2, <1>6 DEF Live
<1>13. /\ inbox' \in [Ends -> [Streams -> Seq(Events)]]
       /\ \A d \in Ends, t \in Streams : d # e \/ t # s => inbox'[d][t] = inbox[d][t]
       /\ rd' \in [Ends -> [Streams -> RdStates]] /\ wr' \in [Ends -> [Streams -> WrStates]]
       /\ \A d \in Ends, t \in Streams : d # e \/ t # s => rd'[d][t] = rd[d][t] /\ wr'[d][t] = wr[d][t]
       /\ opener' \in [Streams -> Openers] /\ dialed' \in [Streams -> Dials]
       /\ \A t \in Streams : t # s => opener'[t] = opener[t] /\ dialed'[t] = dialed[t]
  BY <1>1, ShapeParts, Zenon
<1>14. MuxShape' /\ QueueShape' => StreamInv(s)'
  BY <1>10
<1> QED
  BY <1>6, <1>7, <1>8, <1>11, <1>12, <1>13, <1>14, TakenStep, Zenon

\* The entry goes, and what it had outstanding comes back.
LEMMA Gone ==
  ASSUME MuxInv, NEW e \in Ends, NEW s \in Streams, closed[e] = "open", Removed(e, s), Refund(e, s)
  PROVE  /\ table' \in [Ends -> [Streams -> Entries]] /\ table'[e][s] = Absent
         /\ \A d \in Ends, t \in Streams : d # e \/ t # s => table'[d][t] = table[d][t]
         /\ pool' \in [Ends -> 0..ConnCredit] /\ \A d \in Ends : d # e => pool'[d] = pool[d]
         /\ pool'[e] + table'[e][s].outstanding = pool[e] + table[e][s].outstanding
<1>1. /\ table \in [Ends -> [Streams -> Entries]] /\ pool \in [Ends -> 0..ConnCredit]
      /\ MuxShape /\ ConnectionCreditWhole
  BY ShapeParts, Zenon DEF MuxInv
<1>2. /\ table' = [table EXCEPT ![e][s] = Absent]
      /\ pool' = [pool EXCEPT ![e] = @ + table[e][s].outstanding]
  BY DEF Removed, Refund
<1>3. /\ table' \in [Ends -> [Streams -> Entries]] /\ table'[e][s] = Absent
      /\ \A d \in Ends, t \in Streams : d # e \/ t # s => table'[d][t] = table[d][t]
  BY <1>1, <1>2, FreshEntry, Place
<1>4. pool[e] + table[e][s].outstanding \in 0..ConnCredit
  BY <1>1, RefundFits
<1>5. /\ pool' \in [Ends -> 0..ConnCredit] /\ \A d \in Ends : d # e => pool'[d] = pool[d]
      /\ pool'[e] = pool[e] + table[e][s].outstanding
  BY <1>1, <1>2, <1>4
<1>6. pool'[e] + table'[e][s].outstanding = pool[e] + table[e][s].outstanding
  BY <1>3, <1>4, <1>5, FreshEntry
<1> QED
  BY <1>3, <1>5, <1>6

\* Putting together a step whose record neither opens the stream nor gives credit.
LEMMA TakenEnd ==
  ASSUME MuxInv, NEW e \in Ends, NEW o \in Ends, NEW h \in Frames, NEW s \in Streams, Takes(e, o, h, s),
         h.kind # "Open", UNCHANGED <<sema, ctl, dialed>>,
         table' \in [Ends -> [Streams -> Entries]],
         \A d \in Ends, t \in Streams : d # e \/ t # s => table'[d][t] = table[d][t],
         ~ table'[e][s].present => table'[e][s] = Absent,
         inbox' \in [Ends -> [Streams -> Seq(Events)]],
         \A d \in Ends, t \in Streams : d # e \/ t # s => inbox'[d][t] = inbox[d][t],
         rd' \in [Ends -> [Streams -> RdStates]], wr' \in [Ends -> [Streams -> WrStates]],
         \A d \in Ends, t \in Streams : d # e \/ t # s => rd'[d][t] = rd[d][t] /\ wr'[d][t] = wr[d][t],
         pool' \in [Ends -> 0..ConnCredit], \A d \in Ends : d # e => pool'[d] = pool[d],
         pool'[e] + table'[e][s].outstanding = pool[e] + table[e][s].outstanding,
         opener' \in [Streams -> Openers], \A t \in Streams : t # s => opener'[t] = opener[t],
         opener'[s] # "idle",
         rd'["daemon"][s] = rd["daemon"][s] /\ wr'["daemon"][s] = wr["daemon"][s],
         WriterMoves(e, s),
         (\A f \in Answers(s) : Queued("daemon", f)' => Queued("daemon", f)) => Opening(s)',
         MuxShape' /\ QueueShape' /\ FarStays(e, o, s) /\ Updates(e, s)' = Updates(e, s)
           => Line(o, s)'
  PROVE  MuxInv'
<1>1. /\ o # e /\ \A d \in Ends : d = e \/ d = o
      /\ wire'[e] = wire[e]
  BY TakenHead
<1>2. FarStays(e, o, s) /\ Updates(e, s)' = Updates(e, s)
  BY <1>1 DEF FarStays, Updates
<1>3. ASSUME MuxShape', QueueShape'
      PROVE  StreamInv(s)'
  <2>1. Line(e, s)'
    BY <1>2, <1>3, TakenOutStill
  <2>2. Line(o, s)'
    BY <1>2, <1>3
  <2>3. /\ Start(s)' /\ Answer(s)'
        /\ \A f \in Answers(s) : Queued("daemon", f)' => Queued("daemon", f)
    BY TakenRest
  <2> QED
    BY <1>1, <2>1, <2>2, <2>3, Zenon DEF StreamInv
<1>4. Grows(ctl, ctl', e, s, CtlKinds(e))
  BY DEF Grows
<1>5. /\ sema' \in [Ends -> [Streams -> {n \in Int : n >= -1}]]
      /\ \A d \in Ends, t \in Streams : d # e \/ t # s => sema'[d][t] = sema[d][t]
      /\ dialed' \in [Streams -> Dials]
      /\ \A t \in Streams : t # s => opener'[t] = opener[t] /\ dialed'[t] = dialed[t]
  BY ShapeParts, Zenon
<1>6. MuxShape' /\ QueueShape' => StreamInv(s)'
  BY <1>3
<1> QED
  BY <1>4, <1>5, <1>6, TakenStep, Zenon

\* The opener no longer waits, and no answer is on its way to it.
LEMMA OpenerSettled ==
  ASSUME MuxInv, NEW e \in Ends, NEW o \in Ends, NEW h \in Frames, NEW s \in Streams,
         Takes(e, o, h, s), e = "desktop", h.kind \in {"Opened", "OpenFailed", "Reset"},
         UNCHANGED <<ctl, dialed>>, opener'[s] \in {"open", "failed"},
         ~ table'["desktop"][s].opening, table'["daemon"][s] = table["daemon"][s]
  PROVE  Opening(s)'
<1>1. /\ o = "daemon" /\ Opening(s) /\ Answer(s)
  BY TakenDialed, Zenon DEF Takes, Other
<1>2. /\ In(wire[o], h) /\ h = Frame(h.kind, s)
  BY TakenHead
<1>3. Queued(o, h) /\ h \in Answers(s) \cup {Frame("Reset", s)}
  BY <1>2 DEF Queued, Answers
<1>4. dialed[s] \notin {"none", "dialing"}
  BY <1>1, <1>3 DEF Answer
<1>5. ASSUME NEW f \in Answers(s), Queued(o, f)'
      PROVE  FALSE
  <2>1. /\ In(wire[o], f) <=> In(wire'[o], f) \/ f = h
        /\ Once(wire[o], f) => (f = h => ~ In(wire'[o], f))
        /\ Leads(wire[o], f, h) => (f # h => ~ In(wire'[o], f))
    <3>1. /\ wire[o] \in Seq(Frames) /\ wire'[o] = Tail(wire[o])
          /\ wire[o] # <<>> /\ h = Head(wire[o])
      BY TakenHead, Zenon DEF Takes
    <3> QED
      BY <3>1, TailQueue
  <2>2. /\ Once(wire[o], f) /\ ~ (In(wire[o], f) /\ In(ctl[o], f))
        /\ \A g \in Answers(s) : Queued(o, f) /\ Queued(o, g) => f = g
        /\ Leads(wire[o], f, Frame("Reset", s))
        /\ ~ (In(wire[o], Frame("Reset", s)) /\ In(ctl[o], f))
    BY <1>1 DEF Answer
  <2>3. In(wire'[o], f) \/ In(ctl[o], f)
    BY <1>5 DEF Queued
  <2>4. Queued(o, f)
    BY <2>1, <2>3 DEF Queued
  <2>5. CASE h \in Answers(s)
    <3>1. f = h
      BY <1>3, <2>2, <2>4, <2>5
    <3> QED
      BY <1>2, <2>1, <2>2, <2>3, <3>1
  <2>6. CASE h = Frame("Reset", s)
    <3>1. f # h
      BY <2>6, FrameFields DEF Answers
    <3> QED
      BY <1>2, <2>1, <2>2, <2>3, <2>6, <3>1
  <2> QED
    BY <1>3, <2>5, <2>6
<1>6. \A f \in Answers(s) : ~ Queued("daemon", f)'
  BY <1>1, <1>5
<1>7. ~ table'["daemon"][s].opening
  BY <1>1 DEF Opening
<1> QED
  BY <1>4, <1>6, <1>7 DEF Opening, Asked

\* The stream ends because the other end says so.
LEMMA ResetKeeps ==
  ASSUME MuxInv, NEW e \in Ends, NEW o \in Ends, NEW h \in Frames, NEW s \in Streams,
         Takes(e, o, h, s), h.kind = "Reset", OnReset(e, s)
  PROVE  MuxInv'
<1>1. /\ IF Live(e, s)
         THEN Removed(e, s) /\ Refund(e, s) /\ Deliver(e, s, [kind |-> "Reset", n |-> 0])
         ELSE UNCHANGED <<table, pool, inbox>>
      /\ opener' = IF table[e][s].opening THEN [opener EXCEPT ![s] = "failed"] ELSE opener
      /\ UNCHANGED <<sema, ctl, dialed, rd, wr>>
  BY DEF OnReset
<1>2. /\ table \in [Ends -> [Streams -> Entries]] /\ inbox \in [Ends -> [Streams -> Seq(Events)]]
      /\ opener \in [Streams -> Openers] /\ pool \in [Ends -> 0..ConnCredit]
      /\ (~ Live(e, s) => table[e][s] = Absent) /\ closed[e] = "open"
      /\ inbox[e][s] \in Seq(Events)
  BY ShapeParts, Zenon DEF Takes
<1>3. /\ opener[s] # "idle" /\ Opening(s) /\ Start(s)
  BY TakenDialed
<1>4. /\ table' \in [Ends -> [Streams -> Entries]] /\ table'[e][s] = Absent
      /\ \A d \in Ends, t \in Streams : d # e \/ t # s => table'[d][t] = table[d][t]
      /\ pool' \in [Ends -> 0..ConnCredit] /\ \A d \in Ends : d # e => pool'[d] = pool[d]
      /\ pool'[e] + table'[e][s].outstanding = pool[e] + table[e][s].outstanding
  <2>1. CASE Live(e, s)
    BY <1>1, <1>2, <2>1, Gone
  <2>2. CASE ~ Live(e, s)
    BY <1>1, <1>2, <2>2
  <2> QED
    BY <2>1, <2>2
<1>5. /\ ~ table'[e][s].present /\ ~ table'[e][s].rfin /\ ~ table'[e][s].opening
  BY <1>4, FreshEntry
<1>6. /\ inbox' \in [Ends -> [Streams -> Seq(Events)]]
      /\ \A d \in Ends, t \in Streams : d # e \/ t # s => inbox'[d][t] = inbox[d][t]
      /\ \/ inbox'[e][s] = inbox[e][s]
         \/ inbox'[e][s] = Append(inbox[e][s], [kind |-> "Reset", n |-> 0])
  <2>1. CASE Live(e, s)
    <3> DEFINE v == Append(inbox[e][s], [kind |-> "Reset", n |-> 0])
    <3>1. v \in Seq(Events)
      <4>1. [kind |-> "Reset", n |-> 0] \in Events
        BY DEF Events
      <4> QED
        BY <1>2, <4>1
    <3>2. inbox' = [inbox EXCEPT ![e][s] = v]
      BY <1>1, <2>1 DEF Deliver
    <3> HIDE DEF v
    <3>3. /\ inbox' \in [Ends -> [Streams -> Seq(Events)]] /\ inbox'[e][s] = v
          /\ \A d \in Ends, t \in Streams : d # e \/ t # s => inbox'[d][t] = inbox[d][t]
      BY <1>2, <3>1, <3>2, Place
    <3> QED
      BY <3>3 DEF v
  <2>2. CASE ~ Live(e, s)
    BY <1>1, <1>2, <2>2
  <2> QED
    BY <2>1, <2>2
<1>7. /\ opener' \in [Streams -> Openers] /\ \A t \in Streams : t # s => opener'[t] = opener[t]
      /\ opener'[s] = IF table[e][s].opening THEN "failed" ELSE opener[s]
      /\ opener'[s] # "idle"
  BY <1>1, <1>2, <1>3 DEF Openers
<1>8. WriterMoves(e, s)
  BY <1>1, <1>5, WriterStill
<1>9. ASSUME \A f \in Answers(s) : Queued("daemon", f)' => Queued("daemon", f)
      PROVE  Opening(s)'
  <2>1. "daemon" \in Ends /\ "desktop" \in Ends /\ closed' = closed
    BY DEF Ends, Takes
  <2>2. CASE ~ table[e][s].opening
    <3>1. opener'[s] = opener[s] /\ dialed'[s] = dialed[s]
      BY <1>1, <1>7, <2>2
    <3>2. /\ ~ table'["daemon"][s].opening
          /\ table'["desktop"][s].opening = table["desktop"][s].opening
          /\ table["desktop"][s].opening =>
               /\ table'["desktop"][s].lfin = table["desktop"][s].lfin
               /\ rd'["desktop"][s] = "off" /\ wr'["desktop"][s] = "off"
      <4>1. table["desktop"][s].opening => rd["desktop"][s] = "off" /\ wr["desktop"][s] = "off"
        BY <1>3 DEF Opening, Still
      <4>2. ~ table["daemon"][s].opening
        BY <1>3 DEF Opening
      <4>3. CASE e = "desktop"
        <5>1. /\ table'["daemon"][s] = table["daemon"][s]
          BY <1>4, <2>1, <4>3
        <5>2. table["desktop"][s] \in Entries /\ table'["desktop"][s] \in Entries
          BY <1>2, <1>4, <2>1
        <5>3. /\ table["desktop"][s].opening \in BOOLEAN /\ table'["desktop"][s].opening \in BOOLEAN
              /\ ~ table["desktop"][s].opening /\ ~ table'["desktop"][s].opening
          BY <1>5, <2>2, <4>3, <5>2, EntryFields
        <5>4. table'["desktop"][s].opening = table["desktop"][s].opening
          BY <5>3
        <5> QED
          BY <4>2, <5>1, <5>3, <5>4
      <4>4. CASE e = "daemon"
        <5>1. table'["desktop"][s] = table["desktop"][s]
          BY <1>4, <2>1, <4>4
        <5> QED
          BY <1>1, <1>5, <4>1, <4>4, <5>1
      <4> QED
        BY <4>3, <4>4 DEF Ends
    <3> QED
      BY <1>3, <1>9, <2>1, <3>1, <3>2, OpeningKept
  <2>3. CASE table[e][s].opening
    <3>1. e = "desktop"
      BY <1>3, <2>3 DEF Opening, Ends
    <3>2. table'["daemon"][s] = table["daemon"][s]
      BY <1>4, <2>1, <3>1
    <3>3. opener'[s] = "failed"
      BY <1>7, <2>3
    <3> QED
      BY <1>1, <1>5, <3>1, <3>2, <3>3, OpenerSettled
  <2> QED
    BY <2>2, <2>3
<1>10. ASSUME MuxShape', QueueShape', FarStays(e, o, s), Updates(e, s)' = Updates(e, s)
       PROVE  Line(o, s)'
  <2>1. EntryShrinks(e, s)
    BY <1>1, <1>5 DEF EntryShrinks
  <2> QED
    BY <1>5, <1>6, <1>10, <2>1, TakenIn
<1>11. /\ rd' \in [Ends -> [Streams -> RdStates]] /\ wr' \in [Ends -> [Streams -> WrStates]]
       /\ \A d \in Ends, t \in Streams : d # e \/ t # s => rd'[d][t] = rd[d][t] /\ wr'[d][t] = wr[d][t]
       /\ rd'["daemon"][s] = rd["daemon"][s] /\ wr'["daemon"][s] = wr["daemon"][s]
       /\ h.kind # "Open" /\ UNCHANGED <<sema, ctl, dialed>>
       /\ ~ table'[e][s].present => table'[e][s] = Absent
  BY <1>1, <1>4, ShapeParts, Zenon
<1>12. /\ (\A f \in Answers(s) : Queued("daemon", f)' => Queued("daemon", f)) => Opening(s)'
       /\ MuxShape' /\ QueueShape' /\ FarStays(e, o, s) /\ Updates(e, s)' = Updates(e, s)
            => Line(o, s)'
  BY <1>9, <1>10
<1> QED
  BY <1>4, <1>6, <1>7, <1>8, <1>11, <1>12, TakenEnd, Zenon

\* The daemon has refused the stream.
LEMMA OpenFailedKeeps ==
  ASSUME MuxInv, NEW e \in Ends, NEW o \in Ends, NEW h \in Frames, NEW s \in Streams,
         Takes(e, o, h, s), h.kind = "OpenFailed", OnOpenFailed(e, s)
  PROVE  MuxInv'
<1>1. /\ Removed(e, s) /\ Refund(e, s) /\ opener' = [opener EXCEPT ![s] = "failed"]
      /\ UNCHANGED <<sema, ctl, dialed, inbox, rd, wr>>
  BY DEF OnOpenFailed
<1>2. /\ closed[e] = "open" /\ e = "desktop" /\ opener \in [Streams -> Openers]
      /\ "daemon" \in Ends /\ "daemon" # e
  <2>1. e = "desktop"
    BY TakenDialed
  <2> QED
    BY <2>1, ShapeParts DEF Takes, Ends
<1>3. /\ table' \in [Ends -> [Streams -> Entries]] /\ table'[e][s] = Absent
      /\ \A d \in Ends, t \in Streams : d # e \/ t # s => table'[d][t] = table[d][t]
      /\ pool' \in [Ends -> 0..ConnCredit] /\ \A d \in Ends : d # e => pool'[d] = pool[d]
      /\ pool'[e] + table'[e][s].outstanding = pool[e] + table[e][s].outstanding
  BY <1>1, <1>2, Gone
<1>4. /\ ~ table'[e][s].present /\ ~ table'[e][s].rfin /\ ~ table'[e][s].opening
  BY <1>3, FreshEntry
<1>5. /\ opener' \in [Streams -> Openers] /\ \A t \in Streams : t # s => opener'[t] = opener[t]
      /\ opener'[s] = "failed" /\ opener'[s] # "idle"
  BY <1>1, <1>2 DEF Openers
<1>6. WriterMoves(e, s)
  BY <1>1, <1>4, WriterStill
<1>7. Opening(s)'
  BY <1>1, <1>2, <1>3, <1>4, <1>5, OpenerSettled
<1>8. ASSUME MuxShape', QueueShape', FarStays(e, o, s), Updates(e, s)' = Updates(e, s)
      PROVE  Line(o, s)'
  <2>1. EntryShrinks(e, s) /\ inbox'[e][s] = inbox[e][s]
    BY <1>1, <1>4 DEF EntryShrinks
  <2> QED
    BY <1>4, <1>8, <2>1, TakenIn
<1>9. /\ rd' \in [Ends -> [Streams -> RdStates]] /\ wr' \in [Ends -> [Streams -> WrStates]]
      /\ \A d \in Ends, t \in Streams : d # e \/ t # s => rd'[d][t] = rd[d][t] /\ wr'[d][t] = wr[d][t]
      /\ rd'["daemon"][s] = rd["daemon"][s] /\ wr'["daemon"][s] = wr["daemon"][s]
      /\ h.kind # "Open" /\ UNCHANGED <<sema, ctl, dialed>>
      /\ ~ table'[e][s].present => table'[e][s] = Absent
      /\ inbox' \in [Ends -> [Streams -> Seq(Events)]]
      /\ \A d \in Ends, t \in Streams : d # e \/ t # s => inbox'[d][t] = inbox[d][t]
  BY <1>1, <1>3, ShapeParts, Zenon
<1>10. /\ (\A f \in Answers(s) : Queued("daemon", f)' => Queued("daemon", f)) => Opening(s)'
       /\ MuxShape' /\ QueueShape' /\ FarStays(e, o, s) /\ Updates(e, s)' = Updates(e, s)
            => Line(o, s)'
  BY <1>7, <1>8
<1> QED
  BY <1>3, <1>5, <1>6, <1>9, <1>10, TakenEnd, Zenon

\* The daemon has accepted the stream: the bridge of the desktop starts.
LEMMA OpenedKeeps ==
  ASSUME MuxInv, NEW e \in Ends, NEW o \in Ends, NEW h \in Frames, NEW s \in Streams,
         Takes(e, o, h, s), h.kind = "Opened", OnOpened(e, s)
  PROVE  MuxInv'
<1>1. /\ table[e][s].opening /\ table' = [table EXCEPT ![e][s].opening = FALSE]
      /\ opener' = [opener EXCEPT ![s] = "open"]
      /\ rd' = [rd EXCEPT ![e][s] = "reading"] /\ wr' = [wr EXCEPT ![e][s] = "idle"]
      /\ UNCHANGED <<sema, pool, ctl, dialed, inbox>>
  BY DEF OnOpened, Bridge
<1>2. /\ e = "desktop" /\ opener \in [Streams -> Openers]
      /\ "daemon" \in Ends /\ "daemon" # e
      /\ table \in [Ends -> [Streams -> Entries]] /\ table[e][s] \in Entries
      /\ rd \in [Ends -> [Streams -> RdStates]] /\ wr \in [Ends -> [Streams -> WrStates]]
      /\ (~ Live(e, s) => table[e][s] = Absent) /\ Line(e, s) /\ Opening(s)
  <2>1. e = "desktop"
    BY TakenDialed
  <2> QED
    BY <2>1, ShapeParts, TakenDialed, Zenon DEF Ends
<1>3. /\ table' \in [Ends -> [Streams -> Entries]]
      /\ \A d \in Ends, t \in Streams : d # e \/ t # s => table'[d][t] = table[d][t]
      /\ table'[e][s].outstanding = table[e][s].outstanding
      /\ table'[e][s].unread = table[e][s].unread /\ table'[e][s].rfin = table[e][s].rfin
      /\ table'[e][s].present = table[e][s].present /\ ~ table'[e][s].opening
  <2> DEFINE r == [table[e][s] EXCEPT !.opening = FALSE]
  <2>1. table' = [table EXCEPT ![e][s] = r]
    BY <1>1, <1>2, PlaceField
  <2>2. /\ r \in Entries /\ r.outstanding = table[e][s].outstanding /\ r.unread = table[e][s].unread
        /\ r.rfin = table[e][s].rfin /\ r.opening = FALSE /\ r.present = table[e][s].present
    BY <1>2, EntryChanges, Zenon
  <2> HIDE DEF r
  <2>3. /\ table' \in [Ends -> [Streams -> Entries]] /\ table'[e][s] = r
        /\ \A d \in Ends, t \in Streams : d # e \/ t # s => table'[d][t] = table[d][t]
    BY <1>2, <2>1, <2>2, Place
  <2> QED
    BY <2>2, <2>3
<1>4. /\ rd' \in [Ends -> [Streams -> RdStates]] /\ rd'[e][s] = "reading"
      /\ \A d \in Ends, t \in Streams : d # e \/ t # s => rd'[d][t] = rd[d][t]
  <2>1. "reading" \in RdStates
    BY DEF RdStates
  <2> QED
    BY <1>1, <1>2, <2>1, Place
<1>5. /\ wr' \in [Ends -> [Streams -> WrStates]] /\ wr'[e][s] = "idle"
      /\ \A d \in Ends, t \in Streams : d # e \/ t # s => wr'[d][t] = wr[d][t]
  <2>1. "idle" \in WrStates
    BY DEF WrStates
  <2> QED
    BY <1>1, <1>2, <2>1, Place
<1>6. rd[e][s] = "off" /\ wr[e][s] = "off"
  BY <1>1, <1>2 DEF Opening, Still
<1>7. table[e][s].present
  BY <1>1, <1>2, FreshEntry DEF Live
<1>8. /\ opener' \in [Streams -> Openers] /\ \A t \in Streams : t # s => opener'[t] = opener[t]
      /\ opener'[s] = "open" /\ opener'[s] # "idle"
  BY <1>1, <1>2 DEF Openers
<1>9. WriterMoves(e, s)
  <2>1. Free(e, s) \in Nat /\ table[e][s].outstanding \in Nat
    BY HoldingsAreNat DEF MuxInv
  <2>2. /\ Free(e, s)' = Free(e, s) /\ Holds(e, s)' = 0 /\ Holds(e, s) = 0
        /\ Taken(e, s)' = 0 /\ Taken(e, s) = 0
    BY <1>1, <1>5, <1>6 DEF Free, Holds, Taken
  <2>3. sema[e][s] >= 0 /\ sema' = sema
    BY <1>1, <1>2, <1>7 DEF Line, Window, Live
  <2> QED
    BY <1>3, <1>5, <1>6, <1>7, <2>1, <2>2, <2>3 DEF WriterMoves
<1>10. Opening(s)'
  BY <1>1, <1>2, <1>3, <1>8, OpenerSettled
<1>11. ASSUME MuxShape', QueueShape', FarStays(e, o, s), Updates(e, s)' = Updates(e, s)
       PROVE  Line(o, s)'
  <2>1. EntryShrinks(e, s) /\ inbox'[e][s] = inbox[e][s]
    BY <1>1, <1>3, <1>4, <1>6 DEF EntryShrinks
  <2>2. h \notin Items(s)
    BY ItemIs DEF DataKinds
  <2> QED
    BY <1>11, <2>1, <2>2, TakenIn
<1>12. /\ rd'["daemon"][s] = rd["daemon"][s] /\ wr'["daemon"][s] = wr["daemon"][s]
  BY <1>2, <1>4, <1>5
<1>13. /\ \A d \in Ends, t \in Streams : d # e \/ t # s => rd'[d][t] = rd[d][t] /\ wr'[d][t] = wr[d][t]
       /\ h.kind # "Open" /\ UNCHANGED <<sema, ctl, dialed>>
       /\ ~ table'[e][s].present => table'[e][s] = Absent
       /\ inbox' \in [Ends -> [Streams -> Seq(Events)]]
       /\ \A d \in Ends, t \in Streams : d # e \/ t # s => inbox'[d][t] = inbox[d][t]
       /\ pool' \in [Ends -> 0..ConnCredit] /\ \A d \in Ends : d # e => pool'[d] = pool[d]
       /\ pool'[e] + table'[e][s].outstanding = pool[e] + table[e][s].outstanding
  <2>1. h.kind # "Open" /\ UNCHANGED <<sema, ctl, dialed>>
    BY <1>1, <1>3, <1>4, <1>5
  <2>2. ~ table'[e][s].present => table'[e][s] = Absent
    BY <1>3, <1>7
  <2>3. \A d \in Ends, t \in Streams : d # e \/ t # s => rd'[d][t] = rd[d][t] /\ wr'[d][t] = wr[d][t]
    BY <1>4, <1>5
  <2>4. /\ inbox' = inbox /\ inbox \in [Ends -> [Streams -> Seq(Events)]]
        /\ pool' = pool /\ pool \in [Ends -> 0..ConnCredit]
    BY <1>1, ShapeParts, Zenon
  <2>5. /\ inbox' \in [Ends -> [Streams -> Seq(Events)]] /\ pool' \in [Ends -> 0..ConnCredit]
        /\ \A d \in Ends, t \in Streams : d # e \/ t # s => inbox'[d][t] = inbox[d][t]
        /\ \A d \in Ends : d # e => pool'[d] = pool[d]
        /\ pool'[e] + table'[e][s].outstanding = pool[e] + table[e][s].outstanding
    BY <1>3, <2>4
  <2> QED
    BY <2>1, <2>2, <2>3, <2>5, Zenon
<1>14. /\ (\A f \in Answers(s) : Queued("daemon", f)' => Queued("daemon", f)) => Opening(s)'
       /\ MuxShape' /\ QueueShape' /\ FarStays(e, o, s) /\ Updates(e, s)' = Updates(e, s)
            => Line(o, s)'
  BY <1>10, <1>11
<1> QED
  BY <1>3, <1>4, <1>5, <1>8, <1>9, <1>12, <1>13, <1>14, TakenEnd, Zenon

\* The next chunk on the link is the next one to read, and the end is not there yet.
LEMMA DataTaken ==
  ASSUME MuxInv, NEW e \in Ends, NEW o \in Ends, NEW h \in Frames, NEW s \in Streams,
         Takes(e, o, h, s), h.kind = "Data", Live(e, s)
  PROVE  /\ h = DataFrame(s, h.n) /\ h \in Items(s) /\ InFlight(o, h)
         /\ h.n = Read(e, s) + 1 /\ h.n <= put[o][s]
         /\ Read(e, s) \in Nat /\ ~ table[e][s].rfin /\ rd[e][s] # "ended"
         /\ \A g \in Items(s) : InOrder(o, g)
<1>1. /\ e = Other(o) /\ In(wire[o], h) /\ h = DataFrame(s, h.n) /\ h.n \in Nat
  BY TakenHead
<1>2. ~ gap[o] /\ closed[e] = "open" /\ s = h.s
  BY DEF Takes
<1>3. Line(o, s) /\ MuxShape /\ put[o][s] \in Nat
  BY ShapeParts DEF MuxInv
<1>4. Inbox(o, s) /\ Order(o, s)
  BY <1>3 DEF Line
<1>5. h \in Items(s) /\ InFlight(o, h)
  BY <1>1, ItemsAre DEF InFlight
<1>6. \A g \in Items(s) : InOrder(o, g)
  BY <1>1, <1>2, <1>4 DEF Order
<1>7. /\ ~ table[e][s].rfin /\ h.n > Read(e, s) /\ h.n <= put[o][s]
      /\ \A m \in Earlier(o, h) : Precedes(wire[o], DataFrame(s, m), h)
  BY <1>1, <1>2, <1>5, <1>6 DEF InOrder
<1>8. rd[e][s] # "ended"
  BY <1>1, <1>4, <1>7 DEF Inbox
<1>9. Read(e, s) \in Nat
  BY <1>1, <1>3, <1>4, ReadBehind
<1>10. ASSUME h.n # Read(e, s) + 1
       PROVE  FALSE
  <2> DEFINE m == Read(e, s) + 1
  <2>1. m \in Nat /\ m > Read(e, s) /\ m <= put[o][s] /\ m < h.n
    BY <1>1, <1>3, <1>7, <1>9, <1>10
  <2> HIDE DEF m
  <2>2. m \in Earlier(o, h)
    BY <1>1, <1>2, <2>1 DEF Earlier
  <2>3. Precedes(wire[o], DataFrame(s, m), h)
    BY <1>7, <2>2
  <2>4. \A f, g : Precedes(wire[o], f, g) => (f # h => Precedes(wire'[o], f, g)) /\ g # h
    BY TakenQueue
  <2> QED
    BY <2>3, <2>4
<1> QED
  BY <1>1, <1>5, <1>6, <1>7, <1>8, <1>9, <1>10

\* What is behind an item of the stream keeps its order when the item is taken.
LEMMA TakenOrder ==
  ASSUME MuxInv, NEW e \in Ends, NEW o \in Ends, NEW h \in Frames, NEW s \in Streams,
         Takes(e, o, h, s), h.kind = "Data", Live(e, s),
         table'[e][s].unread = table[e][s].unread + 1, table'[e][s].rfin = table[e][s].rfin
  PROVE  Order(o, s)'
<1>1. /\ e = Other(o) /\ s = h.s /\ UNCHANGED <<data, gap, put, got, closed>>
      /\ ~ gap[o] /\ Order(o, s) /\ MuxShape
  <2>1. s = h.s /\ UNCHANGED <<data, gap, put, got, closed>> /\ ~ gap[o]
    BY DEF Takes
  <2> QED
    BY <2>1, TakenHead, ShapeParts DEF MuxInv, Line
<1>2. /\ h = DataFrame(s, h.n) /\ h \in Items(s) /\ InFlight(o, h)
      /\ h.n = Read(e, s) + 1 /\ h.n <= put[o][s]
      /\ Read(e, s) \in Nat /\ ~ table[e][s].rfin /\ rd[e][s] # "ended"
      /\ \A g \in Items(s) : InOrder(o, g)
  BY DataTaken
<1>3. In(wire[o], h)
  BY TakenHead
<1>4. /\ \A f : In(wire[o], f) <=> In(wire'[o], f) \/ f = h
      /\ \A f : Once(wire[o], f) => Once(wire'[o], f) /\ (f = h => ~ In(wire'[o], f))
      /\ \A f, g : Precedes(wire[o], f, g) => (f # h => Precedes(wire'[o], f, g)) /\ g # h
  BY TakenQueue, Zenon
<1>5. ~ In(wire'[o], h) /\ ~ In(data'[o], h)
  <2>1. Once(wire[o], h) /\ ~ (In(wire[o], h) /\ In(data[o], h))
    BY <1>2 DEF InOrder
  <2> QED
    BY <1>1, <1>3, <1>4, <2>1
<1>6. Read(e, s)' = Read(e, s) + 1
  <2>1. got[e][s] \in Nat /\ table[e][s].unread \in Nat
    BY <1>1, ShapeParts, EntryFields, Zenon
  <2> QED
    BY <1>1, <2>1 DEF Read, Unread
<1>7. ASSUME NEW m \in Nat, m > Read(e, s)'
      PROVE  m > Read(e, s) /\ DataFrame(s, m) # h
  <2>1. m > Read(e, s) /\ m # h.n
    BY <1>2, <1>6, <1>7
  <2>2. DataFrame(s, m).n = m
    BY FrameFields
  <2> QED
    BY <2>1, <2>2
<1>8. ASSUME NEW f
      PROVE  InFlight(o, f)' <=> InFlight(o, f) /\ f # h
  BY <1>1, <1>4, <1>5 DEF InFlight
<1>9. ASSUME NEW g \in Items(s)
      PROVE  InOrder(o, g)'
  <2>1. g.s = s /\ InOrder(o, g)
    BY <1>2, ItemIs
  <2>2. /\ InFlight(o, g) => ~ table[e][s].rfin
        /\ InFlight(o, g) /\ g.kind = "Data" => g.n > Read(e, s) /\ g.n <= put[o][s]
        /\ Once(wire[o], g) /\ Once(data[o], g) /\ ~ (In(wire[o], g) /\ In(data[o], g))
        /\ \A m \in Earlier(o, g) :
             /\ Precedes(wire[o], DataFrame(s, m), g)
             /\ \/ In(wire[o], DataFrame(s, m)) \/ ~ In(data[o], g)
                \/ Precedes(data[o], DataFrame(s, m), g)
    BY <1>1, <2>1 DEF InOrder
  <2>3. InFlight(o, g)' => ~ table'[e][s].rfin
    BY <1>8, <2>2
  <2>4. ASSUME InFlight(o, g)', g.kind = "Data"
        PROVE  g.n > Read(e, s)' /\ g.n <= put'[o][s]
    <3>1. g.n > Read(e, s) /\ g.n <= put[o][s] /\ g # h /\ g = DataFrame(s, g.n) /\ g.n \in Nat
      BY <1>8, <2>2, <2>4, ItemIs
    <3>2. g.n # h.n
      BY <1>2, <3>1
    <3> QED
      BY <1>1, <1>2, <1>6, <3>1, <3>2
  <2>5. Once(wire'[o], g) /\ Once(data'[o], g) /\ ~ (In(wire'[o], g) /\ In(data'[o], g))
    BY <1>1, <1>4, <2>2
  <2>6. ASSUME NEW m \in Earlier(o, g)'
        PROVE  /\ Precedes(wire'[o], DataFrame(s, m), g)
               /\ \/ In(wire'[o], DataFrame(s, m)) \/ ~ In(data'[o], g)
                  \/ Precedes(data'[o], DataFrame(s, m), g)
    <3>1. /\ m \in Nat /\ m > Read(e, s)' /\ m <= put[o][s]
          /\ g.kind = "Data" => m < g.n
      BY <1>1, <2>1, <2>6 DEF Earlier
    <3>2. m > Read(e, s) /\ DataFrame(s, m) # h
      BY <1>7, <3>1
    <3>3. m \in Earlier(o, g)
      BY <1>1, <2>1, <3>1, <3>2 DEF Earlier
    <3> QED
      BY <1>1, <1>4, <2>2, <3>2, <3>3
  <2> QED
    BY <1>1, <2>1, <2>3, <2>4, <2>5, <2>6 DEF InOrder
<1>10. ASSUME closed'[o] = "open", NEW m \in Nat, m > Read(e, s)', m <= put'[o][s]
       PROVE  InFlight(o, DataFrame(s, m))'
  <2>1. m > Read(e, s) /\ DataFrame(s, m) # h
    BY <1>7, <1>10
  <2>2. closed[o] = "open" =>
          \A n \in Nat : n > Read(e, s) /\ n <= put[o][s] => InFlight(o, DataFrame(s, n))
    BY <1>1 DEF Order
  <2>3. InFlight(o, DataFrame(s, m))
    BY <1>1, <1>10, <2>1, <2>2
  <2> QED
    BY <1>8, <2>1, <2>3
<1> QED
  BY <1>1, <1>9, <1>10 DEF Order

LEMMA DataArrives ==
  ASSUME MuxInv, MuxShape', QueueShape', NEW e \in Ends, NEW o \in Ends, NEW h \in Frames,
         NEW s \in Streams, Takes(e, o, h, s), h.kind = "Data", Live(e, s),
         FarStays(e, o, s), Updates(e, s)' = Updates(e, s),
         table'[e][s].unread = table[e][s].unread + 1, table'[e][s].rfin = table[e][s].rfin,
         rd'[e][s] = rd[e][s],
         inbox'[e][s] = Append(inbox[e][s], [kind |-> "Data", n |-> h.n])
  PROVE  Line(o, s)'
<1> DEFINE q == inbox[e][s]
           r == inbox'[e][s]
           v == [kind |-> "Data", n |-> h.n]
<1>1. /\ e = Other(o) /\ UNCHANGED <<data, gap, put, got, closed>> /\ Line(o, s)
  BY TakenHead, ShapeParts, Zenon DEF Takes
<1>2. /\ h.n = Read(e, s) + 1 /\ h.n <= put[o][s]
      /\ ~ table[e][s].rfin /\ rd[e][s] # "ended"
  BY DataTaken
<1>3. /\ h.n \in Nat /\ q \in Seq(Events) /\ table[e][s].unread \in Nat /\ got[e][s] \in Nat
  <2>1. h.n \in Nat
    BY TakenHead
  <2>2. q \in Seq(Events) /\ table[e][s] \in Entries /\ got[e][s] \in Nat
    BY ShapeParts
  <2> QED
    BY <2>1, <2>2, EntryFields
<1>4. v \in Events /\ v.kind = "Data" /\ v.n = h.n
  BY <1>3 DEF Events, DataKinds
<1>5. /\ Len(r) = Len(q) + 1 /\ Len(q) \in Nat /\ r[Len(q) + 1] = v
      /\ \A i \in 1..Len(q) : r[i] = q[i]
  <2>1. r = Append(q, v)
    OBVIOUS
  <2> HIDE DEF q, r, v
  <2> QED
    BY <1>3, <1>4, <2>1, AppendIs
<1>6. /\ got[e][s] <= put[o][s] /\ put[o][s] <= Chunks[o]
      /\ \A i \in 1..Len(q) :
           /\ q[i].kind = "Data" => q[i].n = got[e][s] + i /\ got[e][s] + i <= put[o][s]
           /\ q[i].kind = "Fin" => got[e][s] + i = put[o][s] + 1
      /\ Len(q) = table[e][s].unread
      /\ \A i \in 1..table[e][s].unread : q[i].kind = "Data"
  <2>1. ~ Ending(e, s) /\ table[e][s].unread = Unread(e, s) /\ Inbox(o, s)
    BY <1>1, <1>2 DEF Ending, Unread, Line
  <2>2. Len(q) = Unread(e, s) + 0
    <3>1. (IF Ending(e, s) THEN 1 ELSE 0) = 0
      BY <2>1
    <3>2. Len(q) = Unread(e, s) + (IF Ending(e, s) THEN 1 ELSE 0)
      BY <1>1, <2>1 DEF Inbox
    <3> QED
      BY <3>1, <3>2
  <2>3. /\ got[e][s] <= put[o][s] /\ put[o][s] <= Chunks[o]
        /\ \A i \in 1..Len(q) :
             /\ q[i].kind = "Data" => q[i].n = got[e][s] + i /\ got[e][s] + i <= put[o][s]
             /\ q[i].kind = "Fin" => got[e][s] + i = put[o][s] + 1
        /\ \A i \in 1..Unread(e, s) : q[i].kind = "Data"
    BY <1>1, <2>1 DEF Inbox
  <2> HIDE DEF q
  <2> QED
    BY <1>3, <2>1, <2>2, <2>3
<1>7. h.n = got[e][s] + Len(q) + 1
  BY <1>2, <1>6 DEF Read, Unread
<1> HIDE DEF q, r, v
<1>8. \A i \in 1..Len(r) : (i \in 1..Len(q) /\ r[i] = q[i]) \/ (i = Len(q) + 1 /\ r[i] = v)
  <2>1. \A i \in 1..Len(r) : i \in 1..Len(q) \/ i = Len(q) + 1
    <3>1. Len(r) = Len(q) + 1 /\ Len(q) \in Nat
      BY <1>5
    <3> QED
      BY <3>1
  <2> QED
    BY <1>5, <2>1, Zenon
<1>9. Inbox(o, s)'
  <2>1. \A i \in 1..Len(r) :
          /\ r[i].kind = "Data" => r[i].n = got[e][s] + i /\ got[e][s] + i <= put[o][s]
          /\ r[i].kind = "Fin" => got[e][s] + i = put[o][s] + 1
    <3> SUFFICES ASSUME NEW i \in 1..Len(r)
                 PROVE  /\ r[i].kind = "Data" => r[i].n = got[e][s] + i /\ got[e][s] + i <= put[o][s]
                        /\ r[i].kind = "Fin" => got[e][s] + i = put[o][s] + 1
      OBVIOUS
    <3>1. CASE i \in 1..Len(q) /\ r[i] = q[i]
      BY <1>6, <3>1
    <3>2. CASE i = Len(q) + 1 /\ r[i] = v
      <4>1. got[e][s] + i = h.n
        <5>1. Len(q) \in Nat /\ got[e][s] \in Nat /\ i = Len(q) + 1
          BY <1>3, <1>5, <3>2
        <5>2. got[e][s] + (Len(q) + 1) = got[e][s] + Len(q) + 1
          BY <5>1, AddOne, Zenon
        <5> QED
          BY <1>7, <5>1, <5>2, Zenon
      <4> QED
        BY <1>2, <1>4, <3>2, <4>1
    <3> QED
      BY <1>8, <3>1, <3>2
  <2>2. ~ Ending(e, s)' /\ Unread(e, s)' = Len(r)
    BY <1>2, <1>5, <1>6 DEF Ending, Unread
  <2>3. \A i \in 1..Len(r) : r[i].kind = "Data"
    BY <1>4, <1>6, <1>8, Zenon
  <2>4. Len(r) = Unread(e, s)' + (IF Ending(e, s)' THEN 1 ELSE 0)
    <3>1. Len(r) \in Nat /\ (IF Ending(e, s)' THEN 1 ELSE 0) = 0
      BY <1>5, <2>2
    <3> QED
      BY <2>2, <3>1
  <2>5. rd'[e][s] # "ended"
    BY <1>2
  <2> QED
    BY <1>1, <1>6, <2>1, <2>2, <2>3, <2>4, <2>5, Zenon DEF Inbox, r
<1>10. Sent(o, s)'
  <2>1. \A f : In(wire[o], f) <=> In(wire'[o], f) \/ f = h
    BY TakenQueue, Zenon
  <2>2. InFlight(o, Frame("Fin", s))' => InFlight(o, Frame("Fin", s))
    BY <1>1, <2>1 DEF InFlight
  <2>3. (\E i \in 1..Len(r) : r[i].kind = "Fin") => \E i \in 1..Len(q) : q[i].kind = "Fin"
    BY <1>4, <1>8
  <2>4. Sent(o, s) /\ wr'[o][s] = wr[o][s]
    BY <1>1 DEF Line, FarStays
  <2> QED
    BY <1>1, <2>2, <2>3, <2>4, Zenon DEF Sent, q, r
<1>11. Window(o, s)'
  BY TakenWindow
<1>12. Order(o, s)'
  BY TakenOrder
<1> QED
  BY <1>9, <1>10, <1>11, <1>12 DEF Line

\* Delivering an event to the reader of the stream.
LEMMA Delivers ==
  ASSUME MuxInv, NEW e \in Ends, NEW s \in Streams, NEW v \in Events, Deliver(e, s, v)
  PROVE  /\ inbox' \in [Ends -> [Streams -> Seq(Events)]]
         /\ inbox'[e][s] = Append(inbox[e][s], v)
         /\ \A d \in Ends, t \in Streams : d # e \/ t # s => inbox'[d][t] = inbox[d][t]
<1> DEFINE w == Append(inbox[e][s], v)
<1>1. inbox \in [Ends -> [Streams -> Seq(Events)]] /\ w \in Seq(Events)
  <2>1. inbox \in [Ends -> [Streams -> Seq(Events)]] /\ inbox[e][s] \in Seq(Events)
    BY ShapeParts
  <2> QED
    BY <2>1
<1>2. inbox' = [inbox EXCEPT ![e][s] = w]
  BY DEF Deliver
<1> HIDE DEF w
<1>3. /\ inbox' \in [Ends -> [Streams -> Seq(Events)]] /\ inbox'[e][s] = w
      /\ \A d \in Ends, t \in Streams : d # e \/ t # s => inbox'[d][t] = inbox[d][t]
  BY <1>1, <1>2, Place
<1> QED
  BY <1>3 DEF w

\* A record that leaves the opener and the entry's answer alone.
LEMMA OpeningTaken ==
  ASSUME MuxInv, NEW e \in Ends, NEW o \in Ends, NEW h \in Frames, NEW s \in Streams,
         Takes(e, o, h, s), UNCHANGED <<opener, dialed, rd, wr>>,
         table'[o][s] = table[o][s], table'[e][s].opening = table[e][s].opening,
         table[e][s].opening => table'[e][s].lfin = table[e][s].lfin,
         \A f \in Answers(s) : Queued("daemon", f)' => Queued("daemon", f)
  PROVE  Opening(s)'
<1>1. Opening(s) /\ o = Other(e) /\ closed' = closed
  BY TakenDialed, Zenon DEF Takes
<1>2. /\ table'["daemon"][s].opening => table["daemon"][s].opening
      /\ table'["desktop"][s].opening = table["desktop"][s].opening
      /\ table["desktop"][s].opening => table'["desktop"][s].lfin = table["desktop"][s].lfin
  <2>1. (e = "desktop" /\ o = "daemon") \/ (e = "daemon" /\ o = "desktop")
    BY <1>1 DEF Other, Ends
  <2> QED
    BY <2>1
<1>3. table["desktop"][s].opening => rd'["desktop"][s] = "off" /\ wr'["desktop"][s] = "off"
  BY <1>1 DEF Opening, Still
<1> QED
  BY <1>1, <1>2, <1>3, OpeningKept

\* A record of a stream that is gone is dropped.
LEMMA DroppedKeeps ==
  ASSUME MuxInv, NEW e \in Ends, NEW o \in Ends, NEW h \in Frames, NEW s \in Streams,
         Takes(e, o, h, s), h.kind # "Open", ~ Live(e, s),
         UNCHANGED <<table, sema, pool, ctl, opener, dialed, inbox, rd, wr>>
  PROVE  MuxInv'
<1>1. /\ ~ table'[e][s].present /\ table'[e][s] = Absent /\ opener[s] # "idle"
      /\ \A d \in Ends, t \in Streams : table'[d][t] = table[d][t]
  <2>1. ~ Live(e, s) => table[e][s] = Absent
    BY ShapeParts
  <2> QED
    BY <2>1, TakenDialed DEF Live
<1>2. WriterMoves(e, s)
  BY <1>1, WriterStill
<1>3. ASSUME \A f \in Answers(s) : Queued("daemon", f)' => Queued("daemon", f)
      PROVE  Opening(s)'
  BY <1>1, <1>3, OpeningTaken
<1>4. ASSUME MuxShape', QueueShape', FarStays(e, o, s), Updates(e, s)' = Updates(e, s)
      PROVE  Line(o, s)'
  <2>1. EntryShrinks(e, s) /\ inbox'[e][s] = inbox[e][s]
    BY <1>1 DEF EntryShrinks
  <2> QED
    BY <1>1, <1>4, <2>1, TakenIn
<1>5. /\ h.kind # "Open" /\ UNCHANGED <<sema, ctl, dialed>>
      /\ table' \in [Ends -> [Streams -> Entries]]
      /\ \A d \in Ends, t \in Streams : d # e \/ t # s => table'[d][t] = table[d][t]
      /\ ~ table'[e][s].present => table'[e][s] = Absent
      /\ inbox' \in [Ends -> [Streams -> Seq(Events)]]
      /\ \A d \in Ends, t \in Streams : d # e \/ t # s => inbox'[d][t] = inbox[d][t]
      /\ rd' \in [Ends -> [Streams -> RdStates]] /\ wr' \in [Ends -> [Streams -> WrStates]]
      /\ \A d \in Ends, t \in Streams : d # e \/ t # s => rd'[d][t] = rd[d][t] /\ wr'[d][t] = wr[d][t]
      /\ pool' \in [Ends -> 0..ConnCredit] /\ \A d \in Ends : d # e => pool'[d] = pool[d]
      /\ pool'[e] + table'[e][s].outstanding = pool[e] + table[e][s].outstanding
      /\ opener' \in [Streams -> Openers] /\ \A t \in Streams : t # s => opener'[t] = opener[t]
      /\ opener'[s] # "idle"
      /\ rd'["daemon"][s] = rd["daemon"][s] /\ wr'["daemon"][s] = wr["daemon"][s]
  BY <1>1, ShapeParts, Zenon
<1>6. /\ (\A f \in Answers(s) : Queued("daemon", f)' => Queued("daemon", f)) => Opening(s)'
      /\ MuxShape' /\ QueueShape' /\ FarStays(e, o, s) /\ Updates(e, s)' = Updates(e, s)
           => Line(o, s)'
  BY <1>3, <1>4
<1> QED
  BY <1>2, <1>5, <1>6, TakenEnd, Zenon

LEMMA DataKeeps ==
  ASSUME MuxInv, NEW e \in Ends, NEW o \in Ends, NEW h \in Frames, NEW s \in Streams,
         Takes(e, o, h, s), h.kind = "Data", OnData(e, h)
  PROVE  MuxInv'
<1>1. s = h.s
  BY DEF Takes
<1>2. CASE ~ Live(e, s)
  <2>1. UNCHANGED <<table, sema, pool, ctl, opener, dialed, inbox, rd, wr>>
    BY <1>1, <1>2 DEF OnData
  <2> QED
    BY <1>2, <2>1, DroppedKeeps
<1>3. CASE Live(e, s)
  <2> DEFINE n == table[e][s].unread + 1
             v == [kind |-> "Data", n |-> h.n]
             r == [table[e][s] EXCEPT !.unread = n]
  <2>1. /\ table' = [table EXCEPT ![e][s].unread = n] /\ Deliver(e, s, v)
        /\ UNCHANGED <<sema, pool, ctl, opener, dialed, rd, wr>>
    BY <1>1, <1>3 DEF OnData
  <2>2. /\ table \in [Ends -> [Streams -> Entries]] /\ table[e][s] \in Entries
        /\ pool \in [Ends -> 0..ConnCredit]
    BY ShapeParts, Zenon
  <2>3. n \in Nat
    BY <2>2, EntryFields
  <2>4. h.n \in Nat
    BY TakenHead
  <2>5. v \in Events
    BY <2>4 DEF Events, DataKinds
  <2> HIDE DEF n
  <2>6. table' = [table EXCEPT ![e][s] = r]
    BY <2>1, <2>2, <2>3, PlaceField
  <2>7. /\ r \in Entries /\ r.outstanding = table[e][s].outstanding /\ r.unread = n
        /\ r.lfin = table[e][s].lfin /\ r.rfin = table[e][s].rfin
        /\ r.opening = table[e][s].opening /\ r.present = table[e][s].present
    BY <2>2, <2>3, EntryChanges
  <2> HIDE DEF r
  <2>8. /\ table' \in [Ends -> [Streams -> Entries]] /\ table'[e][s] = r
        /\ \A d \in Ends, t \in Streams : d # e \/ t # s => table'[d][t] = table[d][t]
    BY <2>2, <2>6, <2>7, Place
  <2>9. /\ inbox' \in [Ends -> [Streams -> Seq(Events)]] /\ inbox'[e][s] = Append(inbox[e][s], v)
        /\ \A d \in Ends, t \in Streams : d # e \/ t # s => inbox'[d][t] = inbox[d][t]
    BY <2>1, <2>5, Delivers
  <2>10. /\ table'[e][s].present /\ table'[e][s].unread = table[e][s].unread + 1
         /\ table'[e][s].rfin = table[e][s].rfin /\ table'[e][s].lfin = table[e][s].lfin
         /\ table'[e][s].opening = table[e][s].opening
         /\ table'[e][s].outstanding = table[e][s].outstanding
    BY <1>3, <2>7, <2>8, Zenon DEF Live, n
  <2>11. WriterMoves(e, s)
    BY <1>3, <2>1, <2>10, WriterStill DEF Live
  <2>12. o # e /\ opener[s] # "idle"
    BY TakenHead, TakenDialed
  <2>13. ASSUME \A f \in Answers(s) : Queued("daemon", f)' => Queued("daemon", f)
         PROVE  Opening(s)'
    <3>1. table'[o][s] = table[o][s]
      BY <2>8, <2>12
    <3> QED
      BY <2>1, <2>10, <2>13, <3>1, OpeningTaken
  <2>14. ASSUME MuxShape', QueueShape', FarStays(e, o, s), Updates(e, s)' = Updates(e, s)
         PROVE  Line(o, s)'
    <3>1. /\ table'[e][s].unread = table[e][s].unread + 1 /\ table'[e][s].rfin = table[e][s].rfin
          /\ rd'[e][s] = rd[e][s] /\ inbox'[e][s] = Append(inbox[e][s], [kind |-> "Data", n |-> h.n])
      BY <2>1, <2>9, <2>10
    <3> QED
      BY <1>3, <2>14, <3>1, DataArrives
  <2>15. /\ h.kind # "Open" /\ UNCHANGED <<sema, ctl, dialed>>
         /\ ~ table'[e][s].present => table'[e][s] = Absent
         /\ rd' \in [Ends -> [Streams -> RdStates]] /\ wr' \in [Ends -> [Streams -> WrStates]]
         /\ \A d \in Ends, t \in Streams : d # e \/ t # s => rd'[d][t] = rd[d][t] /\ wr'[d][t] = wr[d][t]
         /\ pool' \in [Ends -> 0..ConnCredit] /\ \A d \in Ends : d # e => pool'[d] = pool[d]
         /\ pool'[e] + table'[e][s].outstanding = pool[e] + table[e][s].outstanding
         /\ opener' \in [Streams -> Openers] /\ \A t \in Streams : t # s => opener'[t] = opener[t]
         /\ opener'[s] # "idle"
         /\ rd'["daemon"][s] = rd["daemon"][s] /\ wr'["daemon"][s] = wr["daemon"][s]
    BY <2>1, <2>10, <2>12, ShapeParts, Zenon
  <2>16. /\ (\A f \in Answers(s) : Queued("daemon", f)' => Queued("daemon", f)) => Opening(s)'
         /\ MuxShape' /\ QueueShape' /\ FarStays(e, o, s) /\ Updates(e, s)' = Updates(e, s)
              => Line(o, s)'
    BY <2>13, <2>14
  <2> QED
    BY <2>8, <2>9, <2>11, <2>15, <2>16, TakenEnd, Zenon
<1> QED
  BY <1>2, <1>3

\* Whoever takes the end of a stream from the link has taken all of the stream.
LEMMA FinTaken ==
  ASSUME MuxInv, NEW e \in Ends, NEW o \in Ends, NEW h \in Frames, NEW s \in Streams,
         Takes(e, o, h, s), h.kind = "Fin", Live(e, s)
  PROVE  /\ Read(e, s) = put[o][s] /\ wr[o][s] \in {"ended", "over"}
         /\ ~ table[e][s].rfin /\ rd[e][s] # "ended"
         /\ \A g \in Items(s) : /\ ~ In(wire'[o], g) /\ ~ In(data[o], g)
                                /\ Once(wire'[o], g) /\ Once(data[o], g)
<1>1. /\ e = Other(o) /\ In(wire[o], h) /\ h = Frame("Fin", s)
  BY TakenHead
<1>2. ~ gap[o] /\ closed[e] = "open" /\ s = h.s
  BY DEF Takes
<1>3. Line(o, s) /\ MuxShape /\ put[o][s] \in Nat
  BY ShapeParts DEF MuxInv
<1>4. Inbox(o, s) /\ Order(o, s) /\ Sent(o, s)
  BY <1>3 DEF Line
<1>5. h \in Items(s) /\ InFlight(o, h)
  BY <1>1, ItemsAre DEF InFlight
<1>6. \A g \in Items(s) : InOrder(o, g)
  BY <1>1, <1>2, <1>4 DEF Order
<1>7. /\ ~ table[e][s].rfin /\ Once(wire[o], h) /\ ~ In(data[o], h)
      /\ \A m \in Earlier(o, h) : Precedes(wire[o], DataFrame(s, m), h)
  BY <1>1, <1>2, <1>5, <1>6 DEF InOrder
<1>8. rd[e][s] # "ended" /\ wr[o][s] \in {"ended", "over"}
  BY <1>1, <1>4, <1>5, <1>7 DEF Inbox, Sent
<1>9. Read(e, s) \in Nat /\ Read(e, s) <= put[o][s]
  BY <1>1, <1>3, <1>4, ReadBehind
<1>10. /\ \A f : In(wire[o], f) <=> In(wire'[o], f) \/ f = h
       /\ \A f : Once(wire[o], f) => Once(wire'[o], f) /\ (f = h => ~ In(wire'[o], f))
       /\ \A f, g : Precedes(wire[o], f, g) => (f # h => Precedes(wire'[o], f, g)) /\ g # h
  BY TakenQueue, Zenon
<1>11. Read(e, s) = put[o][s]
  <2> SUFFICES ASSUME put[o][s] > Read(e, s)
               PROVE  FALSE
    BY <1>3, <1>9
  <2>1. put[o][s] \in Earlier(o, h)
    <3>1. put[o][s] \in Nat /\ put[o][s] > Read(e, s) /\ put[o][s] <= put[o][s]
      BY <1>3
    <3> QED
      BY <1>1, <1>2, <3>1 DEF Earlier
  <2>2. Precedes(wire[o], DataFrame(s, put[o][s]), h)
    BY <1>7, <2>1
  <2> QED
    BY <1>10, <2>2
<1>12. ASSUME NEW g \in Items(s)
       PROVE  /\ ~ In(wire'[o], g) /\ ~ In(data[o], g)
              /\ Once(wire'[o], g) /\ Once(data[o], g)
  <2>1. /\ g.s = s /\ g.kind \in DataKinds
        /\ g.kind = "Data" => g = DataFrame(s, g.n) /\ g.n \in Nat
        /\ g.kind = "Fin" => g = Frame("Fin", s)
    BY ItemIs
  <2>2. /\ InFlight(o, g) /\ g.kind = "Data" => g.n > Read(e, s) /\ g.n <= put[o][s]
        /\ Once(wire[o], g) /\ Once(data[o], g)
    BY <1>1, <1>6, <2>1 DEF InOrder
  <2>3. CASE g.kind = "Data"
    <3>1. ~ InFlight(o, g)
      BY <1>11, <1>3, <2>1, <2>2, <2>3
    <3> QED
      BY <1>10, <2>2, <3>1 DEF InFlight
  <2>4. CASE g.kind = "Fin"
    <3>1. g = h
      BY <1>1, <2>1, <2>4
    <3> QED
      BY <1>7, <1>10, <2>2, <3>1
  <2> QED
    BY <2>1, <2>3, <2>4 DEF DataKinds
<1> QED
  BY <1>8, <1>7, <1>11, <1>12

LEMMA OneMore == \A a, b \in Nat : a + (b + 1) = (a + b) + 1
OBVIOUS

\* What the reader has before it once the end of the stream has come.
LEMMA FinInbox ==
  ASSUME MuxInv, NEW e \in Ends, NEW o \in Ends, NEW h \in Frames, NEW s \in Streams,
         Takes(e, o, h, s), h.kind = "Fin", Live(e, s), rd'[e][s] = rd[e][s],
         \/ ~ table'[e][s].present
         \/ table'[e][s].unread = table[e][s].unread /\ table'[e][s].rfin,
         inbox'[e][s] = Append(inbox[e][s], [kind |-> "Fin", n |-> 0])
  PROVE  Inbox(o, s)'
<1> DEFINE q == inbox[e][s]
           r == inbox'[e][s]
           v == [kind |-> "Fin", n |-> 0]
<1>1. /\ e = Other(o) /\ UNCHANGED <<data, gap, put, got, closed>> /\ Line(o, s)
  BY TakenHead, ShapeParts, Zenon DEF Takes
<1>2. /\ Read(e, s) = put[o][s] /\ ~ table[e][s].rfin /\ rd[e][s] # "ended"
  BY FinTaken
<1>3. /\ q \in Seq(Events) /\ table[e][s].unread \in Nat /\ got[e][s] \in Nat
  <2>1. q \in Seq(Events) /\ table[e][s] \in Entries /\ got[e][s] \in Nat
    BY ShapeParts
  <2> QED
    BY <2>1, EntryFields
<1>4. v \in Events /\ v.kind = "Fin"
  BY DEF Events, DataKinds
<1>5. /\ Len(r) = Len(q) + 1 /\ Len(q) \in Nat /\ r[Len(q) + 1] = v
      /\ \A i \in 1..Len(q) : r[i] = q[i]
  <2>1. r = Append(q, v)
    OBVIOUS
  <2> HIDE DEF q, r, v
  <2> QED
    BY <1>3, <1>4, <2>1, AppendIs
<1>6. /\ got[e][s] <= put[o][s] /\ put[o][s] <= Chunks[o]
      /\ \A i \in 1..Len(q) :
           /\ q[i].kind = "Data" => q[i].n = got[e][s] + i /\ got[e][s] + i <= put[o][s]
           /\ q[i].kind = "Fin" => got[e][s] + i = put[o][s] + 1
      /\ Len(q) = table[e][s].unread
      /\ \A i \in 1..table[e][s].unread : q[i].kind = "Data"
  <2>1. ~ Ending(e, s) /\ table[e][s].unread = Unread(e, s) /\ Inbox(o, s)
    BY <1>1, <1>2 DEF Ending, Unread, Line
  <2>2. Len(q) = Unread(e, s) + 0
    <3>1. (IF Ending(e, s) THEN 1 ELSE 0) = 0
      BY <2>1
    <3>2. Len(q) = Unread(e, s) + (IF Ending(e, s) THEN 1 ELSE 0)
      BY <1>1, <2>1 DEF Inbox
    <3> QED
      BY <3>1, <3>2
  <2>3. /\ got[e][s] <= put[o][s] /\ put[o][s] <= Chunks[o]
        /\ \A i \in 1..Len(q) :
             /\ q[i].kind = "Data" => q[i].n = got[e][s] + i /\ got[e][s] + i <= put[o][s]
             /\ q[i].kind = "Fin" => got[e][s] + i = put[o][s] + 1
        /\ \A i \in 1..Unread(e, s) : q[i].kind = "Data"
    BY <1>1, <2>1 DEF Inbox
  <2> HIDE DEF q
  <2> QED
    BY <1>3, <2>1, <2>2, <2>3
<1>7. got[e][s] + Len(q) = put[o][s]
  BY <1>2, <1>6 DEF Read, Unread
<1> HIDE DEF q, r, v
<1>8. \A i \in 1..Len(r) : (i \in 1..Len(q) /\ r[i] = q[i]) \/ (i = Len(q) + 1 /\ r[i] = v)
  <2>1. \A i \in 1..Len(r) : i \in 1..Len(q) \/ i = Len(q) + 1
    <3>1. Len(r) = Len(q) + 1 /\ Len(q) \in Nat
      BY <1>5
    <3> QED
      BY <3>1
  <2> QED
    BY <1>5, <2>1, Zenon
<1>9. \A i \in 1..Len(r) :
        /\ r[i].kind = "Data" => r[i].n = got[e][s] + i /\ got[e][s] + i <= put[o][s]
        /\ r[i].kind = "Fin" => got[e][s] + i = put[o][s] + 1
  <2> SUFFICES ASSUME NEW i \in 1..Len(r)
               PROVE  /\ r[i].kind = "Data" => r[i].n = got[e][s] + i /\ got[e][s] + i <= put[o][s]
                      /\ r[i].kind = "Fin" => got[e][s] + i = put[o][s] + 1
    OBVIOUS
  <2>1. CASE i \in 1..Len(q) /\ r[i] = q[i]
    BY <1>6, <2>1
  <2>2. CASE i = Len(q) + 1 /\ r[i] = v
    <3>1. got[e][s] + (Len(q) + 1) = (got[e][s] + Len(q)) + 1
      <4>1. got[e][s] \in Nat /\ Len(q) \in Nat
        BY <1>3, <1>5
      <4> QED
        BY <4>1, OneMore, Zenon
    <3>2. got[e][s] + i = put[o][s] + 1
      BY <1>7, <2>2, <3>1, Zenon
    <3> QED
      BY <1>4, <2>2, <3>2
  <2> QED
    BY <1>8, <2>1, <2>2
<1>10. ASSUME table'[e][s].present
       PROVE  /\ Len(r) = Unread(e, s)' + (IF Ending(e, s)' THEN 1 ELSE 0)
              /\ \A i \in 1..Unread(e, s)' : r[i].kind = "Data"
              /\ Ending(e, s)' => r[Unread(e, s)' + 1].kind = "Fin"
              /\ table'[e][s].rfin
  <2>1. Unread(e, s)' = Len(q) /\ Ending(e, s)' /\ table'[e][s].rfin
    BY <1>2, <1>6, <1>10 DEF Unread, Ending
  <2>2. \A i \in 1..Len(q) : r[i].kind = "Data"
    BY <1>5, <1>6
  <2>3. r[Len(q) + 1].kind = "Fin"
    BY <1>4, <1>5
  <2>4. (IF Ending(e, s)' THEN 1 ELSE 0) = 1
    BY <2>1
  <2>5. Len(r) = Unread(e, s)' + 1
    BY <1>5, <2>1
  <2> QED
    BY <2>1, <2>2, <2>3, <2>4, <2>5
<1>11. rd'[e][s] # "ended"
  BY <1>2
<1> QED
  BY <1>1, <1>6, <1>9, <1>10, <1>11, Zenon DEF Inbox, Live, r

LEMMA FinArrives ==
  ASSUME MuxInv, MuxShape', QueueShape', NEW e \in Ends, NEW o \in Ends, NEW h \in Frames,
         NEW s \in Streams, Takes(e, o, h, s), h.kind = "Fin", Live(e, s),
         FarStays(e, o, s), Updates(e, s)' = Updates(e, s), rd'[e][s] = rd[e][s],
         \/ ~ table'[e][s].present
         \/ table'[e][s].unread = table[e][s].unread /\ table'[e][s].rfin,
         inbox'[e][s] = Append(inbox[e][s], [kind |-> "Fin", n |-> 0])
  PROVE  Line(o, s)'
<1>1. /\ e = Other(o) /\ UNCHANGED <<data, gap, put, got, closed>>
      /\ put[o][s] \in Nat
  <2>1. put[o][s] \in Nat
    BY ShapeParts
  <2> QED
    BY <2>1, TakenHead, Zenon DEF Takes
<1>2. /\ Read(e, s) = put[o][s] /\ wr[o][s] \in {"ended", "over"}
      /\ \A g \in Items(s) : /\ ~ In(wire'[o], g) /\ ~ In(data[o], g)
                             /\ Once(wire'[o], g) /\ Once(data[o], g)
  BY FinTaken
<1>3. Sent(o, s)'
  BY <1>2 DEF Sent, FarStays
<1>4. Order(o, s)'
  <2> SUFFICES ASSUME table'[e][s].present
               PROVE  /\ \A g \in Items(s) : InOrder(o, g)'
                      /\ \A m \in Nat : ~ (m > Read(e, s)' /\ m <= put'[o][s])
    BY <1>1 DEF Order, Live
  <2>1. Read(e, s)' = put[o][s]
    BY <1>1, <1>2 DEF Read, Unread
  <2>2. \A m \in Nat : ~ (m > put[o][s] /\ m <= put[o][s])
    BY <1>1
  <2>3. ASSUME NEW g \in Items(s)
        PROVE  InOrder(o, g)'
    <3>1. g.s = s /\ ~ InFlight(o, g)'
      BY <1>1, <1>2, ItemIs DEF InFlight
    <3>2. Earlier(o, g)' = {}
      BY <1>1, <2>1, <2>2, <3>1 DEF Earlier
    <3> QED
      BY <1>1, <1>2, <3>1, <3>2 DEF InOrder
  <2> QED
    BY <1>1, <2>1, <2>2, <2>3
<1>5. Window(o, s)'
  BY TakenWindow
<1>6. Inbox(o, s)'
  BY FinInbox
<1> QED
  BY <1>3, <1>4, <1>5, <1>6 DEF Line

LEMMA FinKeeps ==
  ASSUME MuxInv, NEW e \in Ends, NEW o \in Ends, NEW h \in Frames, NEW s \in Streams,
         Takes(e, o, h, s), h.kind = "Fin", OnFin(e, s)
  PROVE  MuxInv'
<1>1. CASE ~ Live(e, s)
  <2>1. UNCHANGED <<table, sema, pool, ctl, opener, dialed, inbox, rd, wr>>
    BY <1>1 DEF OnFin
  <2> QED
    BY <1>1, <2>1, DroppedKeeps
<1>2. CASE Live(e, s)
  <2> DEFINE v == [kind |-> "Fin", n |-> 0]
             r == [table[e][s] EXCEPT !.rfin = TRUE]
  <2>1. /\ IF table[e][s].lfin THEN Removed(e, s) /\ Refund(e, s)
           ELSE table' = [table EXCEPT ![e][s].rfin = TRUE] /\ UNCHANGED pool
        /\ Deliver(e, s, v) /\ UNCHANGED <<sema, ctl, opener, dialed, rd, wr>>
    BY <1>2 DEF OnFin
  <2>2. /\ table \in [Ends -> [Streams -> Entries]] /\ table[e][s] \in Entries
        /\ pool \in [Ends -> 0..ConnCredit] /\ Opening(s) /\ opener[s] # "idle"
        /\ o # e /\ closed[e] = "open"
    <3>1. o # e /\ closed[e] = "open"
      BY TakenHead, Zenon DEF Takes
    <3>2. Opening(s) /\ opener[s] # "idle"
      BY TakenDialed
    <3> QED
      BY <3>1, <3>2, ShapeParts, Zenon
  <2>3. v \in Events
    BY DEF Events, DataKinds
  <2>4. /\ inbox' \in [Ends -> [Streams -> Seq(Events)]] /\ inbox'[e][s] = Append(inbox[e][s], v)
        /\ \A d \in Ends, t \in Streams : d # e \/ t # s => inbox'[d][t] = inbox[d][t]
    BY <2>1, <2>3, Delivers
  <2>5. /\ table' \in [Ends -> [Streams -> Entries]]
        /\ \A d \in Ends, t \in Streams : d # e \/ t # s => table'[d][t] = table[d][t]
        /\ ~ table'[e][s].present => table'[e][s] = Absent
        /\ pool' \in [Ends -> 0..ConnCredit] /\ \A d \in Ends : d # e => pool'[d] = pool[d]
        /\ pool'[e] + table'[e][s].outstanding = pool[e] + table[e][s].outstanding
        /\ table'[e][s].opening = table[e][s].opening
        /\ table[e][s].opening => table'[e][s].lfin = table[e][s].lfin
        /\ table'[e][s].present => /\ table'[e][s].outstanding = table[e][s].outstanding
                                   /\ table'[e][s].unread = table[e][s].unread
                                   /\ table'[e][s].rfin
    <3>1. CASE table[e][s].lfin
      <4>1. /\ table' \in [Ends -> [Streams -> Entries]] /\ table'[e][s] = Absent
            /\ \A d \in Ends, t \in Streams : d # e \/ t # s => table'[d][t] = table[d][t]
            /\ pool' \in [Ends -> 0..ConnCredit] /\ \A d \in Ends : d # e => pool'[d] = pool[d]
            /\ pool'[e] + table'[e][s].outstanding = pool[e] + table[e][s].outstanding
        BY <2>1, <2>2, <3>1, Gone
      <4>2. ~ table[e][s].opening
        BY <2>2, <3>1 DEF Opening, Ends
      <4>3. ~ table'[e][s].present /\ ~ table'[e][s].opening
        BY <4>1, FreshEntry
      <4>4. table'[e][s].opening = table[e][s].opening
        <5>1. table[e][s].opening \in BOOLEAN /\ table'[e][s].opening \in BOOLEAN
          BY <2>2, <4>1, EntryFields
        <5> QED
          BY <4>2, <4>3, <5>1
      <4> QED
        BY <4>1, <4>2, <4>3, <4>4
    <3>2. CASE ~ table[e][s].lfin
      <4>1. table' = [table EXCEPT ![e][s].rfin = TRUE] /\ pool' = pool
        BY <2>1, <3>2
      <4>2. table' = [table EXCEPT ![e][s] = r]
        BY <2>2, <4>1, PlaceField
      <4>3. /\ r \in Entries /\ r.outstanding = table[e][s].outstanding
            /\ r.unread = table[e][s].unread /\ r.lfin = table[e][s].lfin /\ r.rfin = TRUE
            /\ r.opening = table[e][s].opening /\ r.present = table[e][s].present
        BY <2>2, EntryChanges, Zenon
      <4> HIDE DEF r
      <4>4. /\ table' \in [Ends -> [Streams -> Entries]] /\ table'[e][s] = r
            /\ \A d \in Ends, t \in Streams : d # e \/ t # s => table'[d][t] = table[d][t]
        BY <2>2, <4>2, <4>3, Place
      <4> QED
        BY <1>2, <2>2, <4>1, <4>3, <4>4 DEF Live
    <3> QED
      BY <3>1, <3>2
  <2>6. WriterMoves(e, s)
    BY <1>2, <2>1, <2>5, WriterStill DEF Live
  <2>7. ASSUME \A f \in Answers(s) : Queued("daemon", f)' => Queued("daemon", f)
        PROVE  Opening(s)'
    <3>1. table'[o][s] = table[o][s]
      BY <2>2, <2>5
    <3> QED
      BY <2>1, <2>5, <2>7, <3>1, OpeningTaken
  <2>8. ASSUME MuxShape', QueueShape', FarStays(e, o, s), Updates(e, s)' = Updates(e, s)
        PROVE  Line(o, s)'
    <3>1. /\ \/ ~ table'[e][s].present
             \/ table'[e][s].unread = table[e][s].unread /\ table'[e][s].rfin
          /\ rd'[e][s] = rd[e][s] /\ inbox'[e][s] = Append(inbox[e][s], [kind |-> "Fin", n |-> 0])
      BY <2>1, <2>4, <2>5
    <3> QED
      BY <1>2, <2>8, <3>1, FinArrives
  <2>9. /\ h.kind # "Open" /\ UNCHANGED <<sema, ctl, dialed>>
        /\ rd' \in [Ends -> [Streams -> RdStates]] /\ wr' \in [Ends -> [Streams -> WrStates]]
        /\ \A d \in Ends, t \in Streams : d # e \/ t # s => rd'[d][t] = rd[d][t] /\ wr'[d][t] = wr[d][t]
        /\ opener' \in [Streams -> Openers] /\ \A t \in Streams : t # s => opener'[t] = opener[t]
        /\ opener'[s] # "idle"
        /\ rd'["daemon"][s] = rd["daemon"][s] /\ wr'["daemon"][s] = wr["daemon"][s]
    BY <2>1, <2>2, ShapeParts, Zenon
  <2>10. /\ (\A f \in Answers(s) : Queued("daemon", f)' => Queued("daemon", f)) => Opening(s)'
         /\ MuxShape' /\ QueueShape' /\ FarStays(e, o, s) /\ Updates(e, s)' = Updates(e, s)
              => Line(o, s)'
    BY <2>7, <2>8
  <2> QED
    BY <2>4, <2>5, <2>6, <2>9, <2>10, TakenEnd, Zenon
<1> QED
  BY <1>1, <1>2

\* Before the daemon has heard of a stream there is nothing of it on either side.
LEMMA OpenTaken ==
  ASSUME MuxInv, NEW e \in Ends, NEW o \in Ends, NEW h \in Frames, NEW s \in Streams,
         Takes(e, o, h, s), h.kind = "Open", dialed[s] = "none"
  PROVE  /\ e = "daemon" /\ o = "desktop" /\ Other(e) = o /\ Other(o) = e
         /\ MuxShape /\ QueueShape /\ Line(e, s) /\ Line(o, s) /\ h \notin Items(s)
         /\ UNCHANGED <<data, gap, put, got, closed>> /\ wire'[e] = wire[e]
         /\ table[e][s] = Absent /\ opener[s] # "idle" /\ Opening(s)
         /\ \A d \in Ends : /\ Still(d, s) /\ inbox[d][s] = <<>>
                            /\ put[d][s] = 0 /\ got[d][s] = 0
         /\ \A f \in Answers(s) \cup {Frame("Reset", s)} : ~ Queued(e, f)
         /\ \A g \in Items(s) : ~ In(wire'[o], g) /\ ~ In(data[o], g)
         /\ Updates(o, s) = 0
<1>1. /\ e = "daemon" /\ o = "desktop" /\ Start(s) /\ Opening(s) /\ opener[s] # "idle"
  BY TakenDialed
<1>2. /\ MuxShape /\ QueueShape /\ Line(e, s) /\ Line(o, s) /\ (~ Live(e, s) => table[e][s] = Absent)
      /\ ctl[o] \in Seq(Frames) /\ wire[o] \in Seq(Frames)
  <2>1. Line(e, s) /\ Line(o, s)
    BY TakenDialed
  <2> QED
    BY <2>1, ShapeParts DEF MuxInv
<1>3. Other(e) = o /\ Other(o) = e /\ wire'[e] = wire[e]
  BY TakenHead, Zenon DEF Takes
<1>4. UNCHANGED <<data, gap, put, got, closed>>
  BY DEF Takes
<1>5. h \notin Items(s)
  BY ItemIs DEF DataKinds
<1>6. /\ Unheard(e, s) /\ ~ Live(e, s)
      /\ \A f \in Frames : f.s = s =>
           ~ In(data[o], f) /\ (Queued(o, f) => f.kind = "Open")
      /\ \A d \in Ends : /\ Still(d, s) /\ inbox[d][s] = <<>>
                         /\ put[d][s] = 0 /\ got[d][s] = 0
  BY <1>1 DEF Start
<1>7. \A f \in Answers(s) \cup {Frame("Reset", s)} : ~ Queued(e, f)
  <2>1. \A f \in Answers(s) \cup {Frame("Reset", s)} : f \in Frames /\ f.s = s
    BY FramesAre, FrameFields DEF Answers, Kinds
  <2> QED
    BY <1>6, <2>1 DEF Unheard
<1>8. \A g \in Items(s) : ~ In(wire'[o], g) /\ ~ In(data[o], g)
  <2>1. \A f : In(wire'[o], f) => In(wire[o], f)
    BY TakenQueue
  <2>2. \A g \in Items(s) : g \in Frames /\ g.s = s /\ g.kind # "Open"
    BY ItemIs DEF DataKinds
  <2> QED
    BY <1>6, <2>1, <2>2 DEF Queued
<1>9. Updates(o, s) = 0
  <2> DEFINE w == Frame("WindowUpdate", s)
  <2>1. w \in Frames /\ w.s = s /\ w.kind # "Open"
    BY FramesAre, FrameFields DEF Kinds
  <2>2. ~ In(wire[o], w) /\ ~ In(ctl[o], w)
    BY <1>6, <2>1 DEF Queued
  <2>3. Count(wire[o], w) = 0 /\ Count(ctl[o], w) = 0
    BY <1>2, <2>2, CountIsNat, Zenon
  <2> QED
    BY <2>3 DEF Updates
<1>10. table[e][s] = Absent
  BY <1>2, <1>6
<1> QED
  BY <1>1, <1>2, <1>3, <1>4, <1>5, <1>6, <1>7, <1>8, <1>9, <1>10

\* The daemon makes an entry and dials.
StartsToDial(e, s) ==
  /\ table' = [table EXCEPT ![e][s] = Fresh(FALSE)]
  /\ sema' = [sema EXCEPT ![e][s] = StreamCredit]
  /\ dialed' = [dialed EXCEPT ![s] = "dialing"]
  /\ UNCHANGED <<pool, ctl, opener, inbox, rd, wr>>

LEMMA DialKeeps ==
  ASSUME MuxInv, NEW e \in Ends, NEW o \in Ends, NEW h \in Frames, NEW s \in Streams,
         Takes(e, o, h, s), h.kind = "Open", dialed[s] = "none", StartsToDial(e, s)
  PROVE  MuxInv'
<1>0. UNCHANGED <<pool, ctl, opener, inbox, rd, wr>>
  BY DEF StartsToDial
<1>1. /\ e = "daemon" /\ o = "desktop" /\ Other(e) = o /\ Other(o) = e
      /\ MuxShape /\ QueueShape /\ Line(e, s) /\ Line(o, s) /\ h \notin Items(s)
      /\ UNCHANGED <<data, gap, put, got, closed>> /\ wire'[e] = wire[e]
      /\ table[e][s] = Absent /\ opener[s] # "idle" /\ Opening(s)
      /\ \A d \in Ends : /\ Still(d, s) /\ inbox[d][s] = <<>>
                         /\ put[d][s] = 0 /\ got[d][s] = 0
      /\ \A f \in Answers(s) \cup {Frame("Reset", s)} : ~ Queued(e, f)
      /\ \A g \in Items(s) : ~ In(wire'[o], g) /\ ~ In(data[o], g)
      /\ Updates(o, s) = 0
  BY OpenTaken
<1>2. o # e
  BY TakenHead
<1> DEFINE r == Fresh(FALSE)
<1>3. /\ r \in Entries /\ r.present /\ r.outstanding = 0 /\ r.unread = 0 /\ ~ r.rfin
      /\ ~ r.lfin /\ ~ r.opening
  BY FreshEntry, Zenon
<1> HIDE DEF r
<1>4. /\ table' \in [Ends -> [Streams -> Entries]] /\ table'[e][s] = r
      /\ \A d \in Ends, t \in Streams : d # e \/ t # s => table'[d][t] = table[d][t]
  <2>1. table' = [table EXCEPT ![e][s] = r] /\ table \in [Ends -> [Streams -> Entries]]
    BY ShapeParts DEF r, StartsToDial
  <2> QED
    BY <1>3, <2>1, Place
<1>5. /\ sema' \in [Ends -> [Streams -> {n \in Int : n >= -1}]] /\ sema'[e][s] = StreamCredit
      /\ \A d \in Ends, t \in Streams : d # e \/ t # s => sema'[d][t] = sema[d][t]
  <2>1. StreamCredit \in {n \in Int : n >= -1} /\ sema \in [Ends -> [Streams -> {n \in Int : n >= -1}]]
    BY ShapeParts, MuxAssumption
  <2>2. sema' = [sema EXCEPT ![e][s] = StreamCredit]
    BY DEF StartsToDial
  <2> QED
    BY <2>1, <2>2, Place
<1>6. /\ dialed' \in [Streams -> Dials] /\ dialed'[s] = "dialing"
      /\ \A t \in Streams : t # s => opener'[t] = opener[t] /\ dialed'[t] = dialed[t]
  <2>1. dialed \in [Streams -> Dials] /\ "dialing" \in Dials
    BY ShapeParts DEF Dials
  <2>2. dialed' = [dialed EXCEPT ![s] = "dialing"]
    BY DEF StartsToDial
  <2> QED
    BY <1>0, <2>1, <2>2
<1>7. FarStays(e, o, s)
  BY <1>0, <1>2, <1>4, <1>5 DEF FarStays
<1>8. Updates(o, s)' = 0 /\ Updates(e, s)' = Updates(e, s)
  <2>1. ctl' = ctl /\ h.kind # "WindowUpdate"
    BY <1>0
  <2>2. Updates(o, s)' = Updates(o, s)
    BY <2>1, TakenUpdates
  <2> QED
    BY <1>1, <2>1, <2>2 DEF Updates
<1>9. ASSUME MuxShape', QueueShape'
      PROVE  Line(e, s)'
  <2>1. Inbox(e, s) /\ Sent(e, s) /\ Window(e, s) /\ Order(e, s)
    BY <1>1 DEF Line
  <2>2. /\ closed' = closed /\ gap' = gap /\ data' = data
        /\ table'[o][s] = table[o][s] /\ inbox'[o][s] = inbox[o][s] /\ rd'[o][s] = rd[o][s]
        /\ got'[o][s] = got[o][s] /\ put'[e][s] = put[e][s] /\ wr'[e][s] = wr[e][s]
    BY <1>0, <1>1, <1>2, <1>4
  <2>3. Inbox(e, s)'
    BY <1>1, <1>9, <2>1, <2>2, InboxKept
  <2>4. Sent(e, s)'
    <3>1. In(wire'[e], Frame("Fin", s)) \/ In(data'[e], Frame("Fin", s)) => InFlight(e, Frame("Fin", s))
      BY <1>1, <2>2 DEF InFlight
    <3> QED
      BY <1>1, <1>9, <2>1, <2>2, <3>1, SentKept
  <2>5. Order(e, s)'
    <3>1. ItemsKept(wire[e], wire'[e], s) /\ ItemsKept(data[e], data'[e], s)
      BY <1>1, <2>2, SameSelf
    <3> QED
      BY <1>1, <1>9, <2>1, <2>2, <3>1, OrderKept
  <2>6. Window(e, s)'
    <3>1. StreamCredit \in Nat /\ StreamCredit > 0
      BY MuxAssumption
    <3>2. Free(e, s)' = StreamCredit /\ Holds(e, s)' = 0 /\ Taken(e, s)' = 0
      BY <1>1, <1>5, <2>2, <3>1 DEF Free, Holds, Taken, Still
    <3>3. put'[e][s] - got'[o][s] + Updates(o, s)' = 0
      BY <1>1, <1>8, <2>2
    <3>4. table'[e][s].outstanding = 0
      BY <1>3, <1>4
    <3> QED
      BY <1>1, <1>5, <3>1, <3>2, <3>3, <3>4 DEF Window
  <2> QED
    BY <2>3, <2>4, <2>5, <2>6 DEF Line
<1>10. ASSUME MuxShape', QueueShape'
       PROVE  Line(o, s)'
  <2>1. Inbox(o, s) /\ Sent(o, s) /\ Window(o, s) /\ Order(o, s)
    BY <1>1 DEF Line
  <2>2. /\ closed' = closed /\ gap' = gap /\ data' = data
        /\ table'[o][s] = table[o][s] /\ inbox'[e][s] = <<>> /\ rd'[e][s] = "off"
        /\ got'[e][s] = 0 /\ put'[o][s] = 0 /\ wr'[o][s] = wr[o][s]
    BY <1>0, <1>1, <1>2, <1>4 DEF Still
  <2>3. Inbox(o, s)'
    <3>1. 0 <= Chunks[o] /\ Len(<<>>) = 0
      BY MuxAssumption
    <3>2. Unread(e, s)' = 0 /\ ~ Ending(e, s)'
      BY <1>3, <1>4 DEF Unread, Ending
    <3>3. Len(inbox'[e][s]) = 0
      BY <2>2, <3>1
    <3>4. Len(inbox'[e][s]) = Unread(e, s)' + (IF Ending(e, s)' THEN 1 ELSE 0)
      BY <3>2, <3>3
    <3>5. 1..Len(inbox'[e][s]) = {} /\ 1..Unread(e, s)' = {}
      BY <3>2, <3>3
    <3>6. got'[e][s] <= put'[o][s] /\ put'[o][s] <= Chunks[o] /\ rd'[e][s] # "ended"
      BY <2>2, <3>1
    <3> QED
      BY <1>1, <3>2, <3>4, <3>5, <3>6, Zenon DEF Inbox
  <2>4. Sent(o, s)'
    <3>1. ~ InFlight(o, Frame("Fin", s))'
      BY <1>1, <2>2, ItemsAre DEF InFlight
    <3>2. ~ table'[e][s].rfin /\ wr'[o][s] = "off" /\ 1..Len(inbox'[e][s]) = {}
      <4>1. Len(<<>>) = 0
        OBVIOUS
      <4>2. Len(inbox'[e][s]) = 0
        BY <2>2, <4>1
      <4> QED
        BY <1>1, <1>3, <1>4, <2>2, <4>2 DEF Still
    <3> QED
      BY <1>1, <2>2, <3>1, <3>2 DEF Sent
  <2>5. Window(o, s)'
    BY <1>7, <1>8, <1>10, TakenWindow
  <2>6. Order(o, s)'
    <3>1. Read(e, s)' = 0
      BY <1>3, <1>4, <2>2 DEF Read, Unread
    <3>2. \A m \in Nat : ~ (m > 0 /\ m <= 0)
      OBVIOUS
    <3>3. ASSUME NEW g \in Items(s)
          PROVE  InOrder(o, g)'
      <4>1. g.s = s /\ ~ In(wire'[o], g) /\ ~ In(data'[o], g)
        BY <1>1, <2>2, ItemIs
      <4>2. Once(wire'[o], g) /\ Once(data'[o], g)
        BY <4>1 DEF In, Once
      <4>3. Earlier(o, g)' = {}
        BY <1>1, <2>2, <3>1, <3>2, <4>1 DEF Earlier
      <4>4. ~ InFlight(o, g)'
        BY <4>1 DEF InFlight
      <4> QED
        BY <4>1, <4>2, <4>3, <4>4 DEF InOrder
    <3> QED
      BY <1>1, <2>2, <3>1, <3>2, <3>3 DEF Order
  <2> QED
    BY <2>3, <2>4, <2>5, <2>6 DEF Line
<1>11. Start(s)' /\ Answer(s)' /\ Opening(s)'
  <2>1. rd'["daemon"][s] = "off" /\ wr'["daemon"][s] = "off" /\ opener'[s] # "idle"
    BY <1>0, <1>1 DEF Still
  <2>2. Start(s)'
    BY <1>6, <2>1, StartLate
  <2>3. \A f : Queued("daemon", f)' <=> Queued("daemon", f)
    BY <1>0, <1>1 DEF Queued
  <2>4. Answer(s)'
    <3>1. Answer(s) /\ wire'["daemon"] = wire["daemon"] /\ ctl' = ctl
      BY <1>0, <1>1, TakenDialed
    <3> QED
      BY <3>1, AnswerKept
  <2>5. Opening(s)'
    <3>1. /\ table'["desktop"][s] = table["desktop"][s] /\ ~ table'["daemon"][s].opening
          /\ closed' = closed /\ opener' = opener /\ rd' = rd /\ wr' = wr
      BY <1>0, <1>1, <1>2, <1>3, <1>4
    <3>2. closed["desktop"] = "open" => opener[s] \in Asked
      BY <1>1 DEF Opening
    <3> QED
      BY <1>1, <1>6, <2>3, <3>1, <3>2 DEF Opening, Still
  <2> QED
    BY <2>2, <2>4, <2>5
<1>12. MuxShape' /\ QueueShape' => StreamInv(s)'
  BY <1>1, <1>9, <1>10, <1>11 DEF StreamInv, Ends
<1>13. /\ ~ table'[e][s].present => table'[e][s] = Absent
       /\ inbox' \in [Ends -> [Streams -> Seq(Events)]]
       /\ \A d \in Ends, t \in Streams : d # e \/ t # s => inbox'[d][t] = inbox[d][t]
       /\ rd' \in [Ends -> [Streams -> RdStates]] /\ wr' \in [Ends -> [Streams -> WrStates]]
       /\ \A d \in Ends, t \in Streams : d # e \/ t # s => rd'[d][t] = rd[d][t] /\ wr'[d][t] = wr[d][t]
       /\ pool' \in [Ends -> 0..ConnCredit] /\ \A d \in Ends : d # e => pool'[d] = pool[d]
       /\ opener' \in [Streams -> Openers] /\ Grows(ctl, ctl', e, s, CtlKinds(e))
  BY <1>0, <1>3, <1>4, ShapeParts, Zenon DEF Grows
<1>14. pool'[e] + table'[e][s].outstanding = pool[e] + table[e][s].outstanding
  BY <1>0, <1>1, <1>3, <1>4, FreshEntry
<1> QED
  BY <1>4, <1>5, <1>6, <1>12, <1>13, <1>14, TakenStep, Zenon

\* The daemon refuses the stream at once.
RefusesOpen(e, s) ==
  /\ Tell(e, Frame("OpenFailed", s)) /\ dialed' = [dialed EXCEPT ![s] = "refused"]
  /\ UNCHANGED <<table, sema, pool, opener, inbox, rd, wr>>

LEMMA RefusesOpenKeeps ==
  ASSUME MuxInv, NEW e \in Ends, NEW o \in Ends, NEW h \in Frames, NEW s \in Streams,
         Takes(e, o, h, s), h.kind = "Open", dialed[s] = "none", RefusesOpen(e, s)
  PROVE  MuxInv'
<1> DEFINE a == Frame("OpenFailed", s)
<1>1. /\ e = "daemon" /\ o = "desktop" /\ Other(e) = o /\ Other(o) = e
      /\ MuxShape /\ QueueShape /\ Line(e, s) /\ Line(o, s) /\ h \notin Items(s)
      /\ UNCHANGED <<data, gap, put, got, closed>> /\ wire'[e] = wire[e]
      /\ table[e][s] = Absent /\ opener[s] # "idle" /\ Opening(s)
      /\ \A d \in Ends : /\ Still(d, s) /\ inbox[d][s] = <<>>
                         /\ put[d][s] = 0 /\ got[d][s] = 0
      /\ \A f \in Answers(s) \cup {Frame("Reset", s)} : ~ Queued(e, f)
      /\ \A g \in Items(s) : ~ In(wire'[o], g) /\ ~ In(data[o], g)
      /\ Updates(o, s) = 0
  BY OpenTaken
<1>2. /\ ctl' = [ctl EXCEPT ![e] = Append(@, a)] /\ dialed' = [dialed EXCEPT ![s] = "refused"]
      /\ UNCHANGED <<table, sema, pool, opener, inbox, rd, wr>>
  BY DEF RefusesOpen, Tell
<1>3. a \in Frames /\ a.s = s /\ a.kind = "OpenFailed" /\ o # e
  BY TakenHead, FramesAre, FrameFields DEF Kinds
<1> HIDE DEF a
<1>4. ctl[e] \in Seq(Frames) /\ ctl'[e] = Append(ctl[e], a) /\ ctl'[o] = ctl[o]
  <2>1. ctl \in [Ends -> Seq(Frames)]
    BY ShapeParts
  <2> QED
    BY <1>2, <1>3, <2>1
<1>5. /\ dialed' \in [Streams -> Dials] /\ dialed'[s] = "refused"
      /\ \A t \in Streams : t # s => opener'[t] = opener[t] /\ dialed'[t] = dialed[t]
  <2>1. dialed \in [Streams -> Dials] /\ "refused" \in Dials
    BY ShapeParts DEF Dials
  <2> QED
    BY <1>2, <2>1
<1>6. Grows(ctl, ctl', e, s, {"OpenFailed"}) /\ Grows(ctl, ctl', e, s, CtlKinds(e))
  BY <1>1, <1>2, <1>3, Zenon DEF Grows, CtlKinds
<1>7. FarStays(e, o, s)
  BY <1>2, <1>4 DEF FarStays
<1>8. Updates(e, s)' = Updates(e, s)
  <2>1. "WindowUpdate" \notin {"OpenFailed"}
    OBVIOUS
  <2>2. \A d \in Ends : wire'[d] = wire[d] => Updates(d, s)' = Updates(d, s)
    BY <1>1, <1>6, <2>1, UpdatesStill, Zenon
  <2> QED
    BY <1>1, <2>2
<1>9. ASSUME MuxShape', QueueShape'
      PROVE  Line(e, s)' /\ Line(o, s)'
  <2>1. WriterMoves(e, s)
    <3>1. wr'[e][s] = wr[e][s] /\ sema'[e][s] = sema[e][s] /\ table'[e][s] = table[e][s]
      BY <1>2
    <3> QED
      BY <3>1, WriterStill
  <2>2. EntryShrinks(e, s) /\ inbox'[e][s] = inbox[e][s]
    BY <1>2 DEF EntryShrinks
  <2>3. Line(e, s)'
    BY <1>7, <1>9, <2>1, TakenOutStill
  <2>4. Line(o, s)'
    BY <1>1, <1>7, <1>8, <1>9, <2>2, TakenIn
  <2> QED
    BY <2>3, <2>4
<1>10. Start(s)'
  <2>1. rd'["daemon"][s] = "off" /\ wr'["daemon"][s] = "off" /\ opener'[s] # "idle"
    BY <1>1, <1>2 DEF Still
  <2> QED
    BY <1>5, <2>1, StartLate
<1>11. Answer(s)'
  BY <1>1, <1>3, <1>4, <1>5, AnswerGiven
<1>12. Opening(s)'
  <2>1. closed["desktop"] = "open" => opener[s] \in Asked
    BY <1>1 DEF Opening
  <2> QED
    BY <1>1, <1>2, <1>5, <2>1 DEF Opening, Still
<1>13. MuxShape' /\ QueueShape' => StreamInv(s)'
  BY <1>1, <1>9, <1>10, <1>11, <1>12 DEF StreamInv, Ends
<1>14. /\ table' \in [Ends -> [Streams -> Entries]]
       /\ \A d \in Ends, t \in Streams : d # e \/ t # s => table'[d][t] = table[d][t]
       /\ ~ table'[e][s].present => table'[e][s] = Absent
       /\ sema' \in [Ends -> [Streams -> {n \in Int : n >= -1}]]
       /\ \A d \in Ends, t \in Streams : d # e \/ t # s => sema'[d][t] = sema[d][t]
       /\ inbox' \in [Ends -> [Streams -> Seq(Events)]]
       /\ \A d \in Ends, t \in Streams : d # e \/ t # s => inbox'[d][t] = inbox[d][t]
       /\ rd' \in [Ends -> [Streams -> RdStates]] /\ wr' \in [Ends -> [Streams -> WrStates]]
       /\ \A d \in Ends, t \in Streams : d # e \/ t # s => rd'[d][t] = rd[d][t] /\ wr'[d][t] = wr[d][t]
       /\ pool' \in [Ends -> 0..ConnCredit] /\ \A d \in Ends : d # e => pool'[d] = pool[d]
       /\ pool'[e] + table'[e][s].outstanding = pool[e] + table[e][s].outstanding
       /\ opener' \in [Streams -> Openers]
  BY <1>1, <1>2, ShapeParts, Zenon
<1> QED
  BY <1>5, <1>6, <1>13, <1>14, TakenStep, Zenon

\* Dispatch keeps the invariant, whatever the record is.
LEMMA DispatchKeeps ==
  ASSUME MuxInv, NEW e \in Ends, NEW o \in Ends, NEW h \in Frames, NEW s \in Streams,
         Takes(e, o, h, s), ~ Reused(h), Dispatch(e, h)
  PROVE  MuxInv'
<1>1. s = h.s
  BY DEF Takes
<1>2. CASE h.kind = "Open" /\ OnOpen(e, s)
  <2>1. dialed[s] = "none"
    <3>1. s \in Int
      BY DEF Streams
    <3> QED
      BY <1>1, <1>2, <3>1 DEF Reused
  <2>2. StartsToDial(e, s) \/ RefusesOpen(e, s)
    BY <1>2, Zenon DEF OnOpen, StartsToDial, RefusesOpen
  <2> QED
    BY <1>2, <2>1, <2>2, DialKeeps, RefusesOpenKeeps
<1>3. CASE h.kind = "Opened" /\ OnOpened(e, s)
  BY <1>3, OpenedKeeps
<1>4. CASE h.kind = "OpenFailed" /\ OnOpenFailed(e, s)
  BY <1>4, OpenFailedKeeps
<1>5. CASE h.kind = "Data" /\ OnData(e, h)
  BY <1>5, DataKeeps
<1>6. CASE h.kind = "WindowUpdate" /\ OnWindowUpdate(e, s)
  BY <1>6, OnWindowUpdateKeeps
<1>7. CASE h.kind = "Fin" /\ OnFin(e, s)
  BY <1>7, FinKeeps
<1>8. CASE h.kind = "Reset" /\ OnReset(e, s)
  BY <1>8, ResetKeeps
<1> QED
  BY <1>1, <1>2, <1>3, <1>4, <1>5, <1>6, <1>7, <1>8 DEF Dispatch

LEMMA DispatchStays ==
  ASSUME NEW e, NEW f, Dispatch(e, f)
  PROVE  closed' = closed
BY Zenon DEF Dispatch, OnOpen, OnOpened, OnOpenFailed, OnData, OnWindowUpdate, OnFin, OnReset

LEMMA ReceiveKeeps ==
  ASSUME MuxInv, NEW e \in Ends, Receive(e)
  PROVE  MuxInv'
<1> DEFINE o == Other(e)
           h == Head(wire[o])
           s == h.s
<1>1. /\ closed[e] = "open" /\ ~ gap[o] /\ wire[o] # <<>>
      /\ wire' = [wire EXCEPT ![o] = Tail(@)]
      /\ IF Offends(e, h) THEN CloseEnd(e, "protocol")
         ELSE IF Reused(h) THEN CloseEnd(e, "reused")
         ELSE Dispatch(e, h) /\ UNCHANGED <<data, gap, put, got>>
  BY DEF Receive
<1>2. o \in Ends /\ o # e /\ wire \in [Ends -> Seq(Frames)]
  BY TheOther, ShapeParts
<1>3. wire[o] \in Seq(Frames) /\ h \in Frames /\ Tail(wire[o]) \in Seq(Frames)
  <2>1. wire[o] \in Seq(Frames)
    BY <1>2
  <2> QED
    BY <1>1, <2>1, TailIs
<1>4. s \in Streams
  BY <1>3, FramesAre
<1>5. Reads(e, o, h, s)
  BY <1>1 DEF Reads
<1> HIDE DEF o, h, s
<1>6. ~ Offends(e, h)
  BY <1>2, <1>3, <1>4, <1>5, NoOffence
<1>7. CASE Reused(h)
  <2>1. /\ wire' \in [Ends -> Seq(Frames)] /\ wire'[e] = wire[e] /\ wire'[o] = Tail(wire[o])
    BY <1>1, <1>2, <1>3
  <2>2. Less(wire[o], wire'[o])
    BY <1>1, <2>1 DEF Less
  <2>3. "reused" \in Reasons \ {"open", "protocol"} /\ CloseEnd(e, "reused")
    BY <1>1, <1>6, <1>7 DEF Reasons
  <2> QED
    BY <2>1, <2>2, <2>3, CloseKeeps DEF o
<1>8. CASE ~ Reused(h)
  <2>1. Dispatch(e, h) /\ UNCHANGED <<data, gap, put, got>>
    BY <1>1, <1>6, <1>8
  <2>2. closed' = closed
    BY <2>1, DispatchStays
  <2>3. Takes(e, o, h, s)
    BY <1>1, <1>5, <2>1, <2>2 DEF Takes, Reads
  <2> QED
    BY <1>2, <1>3, <1>4, <1>8, <2>1, <2>3, DispatchKeeps
<1> QED
  BY <1>7, <1>8

-----------------------------------------------------------------------------
(* The invariant of a session, and what follows from it. *)

LEMMA MuxStarts ==
  ASSUME MuxInit
  PROVE  MuxInv
<1>1. /\ table = [e \in Ends |-> [s \in Streams |-> Absent]]
      /\ sema = [e \in Ends |-> [s \in Streams |-> 0]]
      /\ pool = [e \in Ends |-> ConnCredit] /\ closed = [e \in Ends |-> "open"]
      /\ ctl = [e \in Ends |-> <<>>] /\ data = [e \in Ends |-> <<>>]
      /\ wire = [e \in Ends |-> <<>>] /\ gap = [e \in Ends |-> FALSE]
      /\ inbox = [e \in Ends |-> [s \in Streams |-> <<>>]]
      /\ opener = [s \in Streams |-> "idle"] /\ dialed = [s \in Streams |-> "none"]
      /\ rd = [e \in Ends |-> [s \in Streams |-> "off"]]
      /\ wr = [e \in Ends |-> [s \in Streams |-> "off"]]
      /\ put = [e \in Ends |-> [s \in Streams |-> 0]] /\ got = put
  BY DEF MuxInit
<1>2. MuxShape
  <2>1. /\ Absent \in Entries /\ ConnCredit \in 0..ConnCredit /\ 0 \in {n \in Int : n >= -1}
        /\ <<>> \in Seq(Events) /\ "open" \in Reasons /\ "idle" \in Openers /\ "none" \in Dials
        /\ "off" \in RdStates /\ "off" \in WrStates
    BY FreshEntry, MuxAssumption DEF Reasons, Openers, Dials, RdStates, WrStates
  <2> QED
    BY <1>1, <2>1 DEF MuxShape
<1>3. QueueShape
  <2>1. <<>> \in Seq(Frames) /\ Len(<<>>) = 0 /\ 1..0 = {} /\ 0 <= DataCap
    BY MuxAssumption
  <2> QED
    BY <1>1, <2>1 DEF QueueShape
<1>4. ConnectionCreditWhole
  <2> SUFFICES ASSUME NEW e \in Ends
               PROVE  pool[e] + Cardinality(Owed(e)) = ConnCredit
    BY DEF ConnectionCreditWhole
  <2>1. Out(e) \in [Streams -> Nat] /\ \A s \in Streams : Out(e)[s] = 0
    BY <1>1, FreshEntry DEF Out
  <2>2. Cardinality(Owed(e)) = 0
    BY <2>1, NothingOwed, OwedIs
  <2> QED
    BY <1>1, <2>2, MuxAssumption
<1>5. NoFalseAccusation
  BY <1>1 DEF NoFalseAccusation
<1>6. ASSUME NEW s \in Streams
      PROVE  StreamInv(s)
  <2>1. \A e \in Ends : /\ table[e][s] = Absent /\ sema[e][s] = 0 /\ inbox[e][s] = <<>>
                        /\ rd[e][s] = "off" /\ wr[e][s] = "off" /\ put[e][s] = 0 /\ got[e][s] = 0
                        /\ ctl[e] = <<>> /\ data[e] = <<>> /\ wire[e] = <<>>
    BY <1>1
  <2>2. \A f : ~ In(<<>>, f) /\ Count(<<>>, f) = 0
    BY NothingQueued
  <2>3. ASSUME NEW e \in Ends
        PROVE  Line(e, s)
    <3> DEFINE o == Other(e)
    <3>1. o \in Ends
      BY TheOther
    <3>2. 0 <= Chunks[e] /\ StreamCredit >= 0 /\ Len(<<>>) = 0 /\ 1..0 = {}
      BY MuxAssumption
    <3> HIDE DEF o
    <3>3. o = Other(e)
      BY DEF o
    <3>4. ~ Live(o, s) /\ ~ Live(e, s) /\ ~ table[o][s].rfin
      BY <2>1, <3>1, FreshEntry DEF Live
    <3>5. Inbox(e, s)
      <4>1. 1..Len(inbox[o][s]) = {}
        BY <2>1, <3>1, <3>2
      <4>2. got[o][s] <= put[e][s] /\ put[e][s] <= Chunks[e] /\ rd[o][s] # "ended"
        BY <2>1, <3>1, <3>2
      <4> QED
        BY <3>3, <3>4, <4>1, <4>2 DEF Inbox
    <3>6. Sent(e, s)
      <4>1. 1..Len(inbox[o][s]) = {} /\ ~ InFlight(e, Frame("Fin", s))
        BY <2>1, <2>2, <3>1, <3>2 DEF InFlight
      <4>2. rd[o][s] = "off" /\ wr[e][s] = "off"
        BY <2>1, <3>1
      <4> QED
        BY <3>3, <3>4, <4>1, <4>2 DEF Sent
    <3>7. Window(e, s)
      <4>1. Free(e, s) = 0 /\ Holds(e, s) = 0
        BY <2>1 DEF Free, Holds
      <4>2. Updates(o, s) = 0
        BY <2>1, <2>2, <3>1 DEF Updates
      <4>3. put[e][s] = 0 /\ got[o][s] = 0
        BY <2>1, <3>1
      <4>4. 0 + 0 + (0 - 0 + 0) <= StreamCredit
        BY <3>2, MuxAssumption
      <4> QED
        BY <3>3, <3>4, <4>1, <4>2, <4>3, <4>4 DEF Window
    <3>8. Order(e, s)
      BY <3>3, <3>4 DEF Order
    <3> QED
      BY <3>5, <3>6, <3>7, <3>8 DEF Line
  <2>4. \A d \in Ends : \A f : ~ Queued(d, f) /\ ~ In(data[d], f)
    BY <2>1, <2>2 DEF Queued
  <2>5. "desktop" \in Ends /\ "daemon" \in Ends /\ opener[s] = "idle" /\ dialed[s] = "none"
    BY <1>1 DEF Ends
  <2>6. \A d \in Ends : ~ table[d][s].opening /\ ~ Live(d, s)
    BY <2>1, FreshEntry DEF Live
  <2>7. Start(s)
    BY <2>1, <2>4, <2>5, <2>6, Zenon DEF Start, Unheard, Still
  <2>8. Answer(s)
    <3>1. \A f, g : Once(<<>>, f) /\ Leads(<<>>, f, g)
      BY NothingQueued
    <3> QED
      BY <2>1, <2>2, <2>4, <2>5, <3>1 DEF Answer
  <2>9. Opening(s)
    BY <2>4, <2>5, <2>6 DEF Opening, Asked
  <2> QED
    BY <2>3, <2>7, <2>8, <2>9 DEF StreamInv
<1> QED
  BY <1>2, <1>3, <1>4, <1>5, <1>6 DEF MuxInv

LEMMA MuxSteps ==
  ASSUME MuxInv, [MuxNext]_muxVars
  PROVE  MuxInv'
<1>1. ASSUME NEW e \in Ends, Write(e) \/ Receive(e) \/ Lose(e) \/ Undecipherable(e) \/ PeerLeft(e)
      PROVE  MuxInv'
  BY <1>1, WriteKeeps, ReceiveKeeps, LoseKeeps, CloseStepsKeep
<1>2. ASSUME NEW s \in Streams, Reserve(s) \/ SendOpen(s) \/ Accept(s) \/ Refuse(s)
      PROVE  MuxInv'
  BY <1>2, ReserveKeeps, SendOpenKeeps, AcceptKeeps, RefuseKeeps
<1>3. ASSUME NEW e \in Ends, NEW s \in Streams, Reading(e, s)
      PROVE  MuxInv'
  BY <1>3, ReadDataKeeps, ReadFinKeeps, ReadErrorKeeps DEF Reading
<1>4. ASSUME NEW e \in Ends, NEW s \in Streams, Writing(e, s)
      PROVE  MuxInv'
  BY <1>4, TakeStreamCreditKeeps, PutDataKeeps, PutFinKeeps DEF Writing
<1>5. ASSUME NEW e \in Ends, NEW s \in Streams,
             \/ SocketTakes(e, s) \/ SocketBreaks(e, s) \/ SocketSays(e, s)
             \/ TakeConnCredit(e, s) \/ Finish(e, s)
      PROVE  MuxInv'
  BY <1>5, SocketTakesKeeps, SocketBreaksKeeps, SocketSaysKeeps, TakeConnCreditKeeps, FinishKeeps
<1>6. CASE Shutdown
  BY <1>6, CloseStepsKeep
<1>7. CASE UNCHANGED muxVars
  <2>1. /\ UNCHANGED <<table, sema, pool, closed, ctl, data, wire, gap, inbox, opener, dialed>>
        /\ UNCHANGED <<rd, wr, put, got>>
    BY <1>7 DEF muxVars
  <2>2. MuxShape' /\ QueueShape' /\ ConnectionCreditWhole' /\ NoFalseAccusation'
    BY <2>1 DEF MuxInv, MuxShape, QueueShape, ConnectionCreditWhole, NoFalseAccusation, Live, Owed
  <2>3. ASSUME NEW s \in Streams
        PROVE  StreamInv(s)'
    <3>1. StreamInv(s) /\ MuxShape /\ QueueShape
      BY DEF MuxInv
    <3>2. \A e \in Ends : /\ Same(ctl[e], ctl'[e], s) /\ Same(data[e], data'[e], s)
                          /\ Same(wire[e], wire'[e], s)
      BY <2>1, SameSelf
    <3>3. \A e \in Ends :
            /\ table'[e][s] = table[e][s] /\ sema'[e][s] = sema[e][s] /\ inbox'[e][s] = inbox[e][s]
            /\ rd'[e][s] = rd[e][s] /\ wr'[e][s] = wr[e][s]
            /\ put'[e][s] = put[e][s] /\ got'[e][s] = got[e][s]
      BY <2>1
    <3> QED
      BY <2>1, <2>2, <3>1, <3>2, <3>3, StreamApart
  <2> QED
    BY <2>2, <2>3 DEF MuxInv
<1> QED
  BY <1>1, <1>2, <1>3, <1>4, <1>5, <1>6, <1>7 DEF MuxNext

LEMMA MuxHolds == MuxSafe => []MuxInv
<1>1. MuxInit => MuxInv
  BY MuxStarts
<1>2. MuxInv /\ [MuxNext]_muxVars => MuxInv'
  BY MuxSteps
<1> QED
  BY <1>1, <1>2, PTL DEF MuxSafe

LEMMA MuxImplies ==
  ASSUME MuxInv
  PROVE  TypeMux /\ OrderlyEndIsComplete
<1>1. MuxShape /\ QueueShape
  BY DEF MuxInv
<1>2. ASSUME NEW e \in Ends, NEW s \in Streams
      PROVE  /\ Inbox(e, s) /\ Window(e, s)
  BY ShapeParts DEF Line
<1>3. OrderlyEndIsComplete
  <2> SUFFICES ASSUME NEW e \in Ends, NEW s \in Streams, rd[e][s] = "ended"
               PROVE  got[e][s] = put[Other(e)][s]
    BY DEF OrderlyEndIsComplete
  <2>1. Other(e) \in Ends /\ Other(Other(e)) = e
    BY TheOther
  <2>2. Inbox(Other(e), s)
    BY <1>2, <2>1
  <2> QED
    BY <2>1, <2>2 DEF Inbox
<1>4. ASSUME NEW e \in Ends, NEW s \in Streams
      PROVE  /\ table[e][s].outstanding \in Nat /\ table[e][s].unread \in 0..StreamCredit
             /\ sema[e][s] \in -1..StreamCredit
             /\ rd[e][s] \in {"off", "reading", "writing", "ended", "over"}
             /\ wr[e][s] \in {"off", "idle", "stream", "conn", "data", "fin", "ended", "over"}
             /\ put[e][s] \in 0..Chunks[e] /\ got[e][s] \in 0..Chunks[Other(e)]
  <2> DEFINE o == Other(e)
  <2>1. o \in Ends /\ Other(o) = e
    BY TheOther
  <2> HIDE DEF o
  <2>2. /\ table[e][s] \in Entries /\ sema[e][s] \in Int /\ sema[e][s] >= -1
        /\ put[e][s] \in Nat /\ got[e][s] \in Nat /\ put[o][s] \in Nat
        /\ rd[e][s] \in RdStates /\ wr[e][s] \in WrStates
        /\ (~ Live(e, s) => table[e][s] = Absent)
    BY <1>1, <2>1 DEF MuxShape
  <2>3. Inbox(o, s) /\ Window(o, s) /\ Window(e, s) /\ Inbox(e, s)
    BY <1>2, <2>1
  <2>4. /\ Free(e, s) \in Nat /\ Holds(e, s) \in Nat /\ Free(o, s) \in Nat /\ Holds(o, s) \in Nat
        /\ Updates(e, s) \in Nat /\ Updates(o, s) \in Nat /\ StreamCredit \in Nat
        /\ table[e][s].unread \in Nat /\ table[e][s].outstanding \in Nat
    BY <1>1, <2>1, <2>2, HoldingsAreNat, UpdatesAreNat, EntryFields, MuxAssumption
  <2>5. Chunks[e] \in Nat /\ Chunks[o] \in Nat
    BY <2>1, MuxAssumption
  <2>6. /\ got[e][s] <= put[o][s] /\ put[o][s] <= Chunks[o] /\ put[e][s] <= Chunks[e]
        /\ Free(o, s) + Holds(o, s) + (put[o][s] - got[e][s] + Updates(e, s)) <= StreamCredit
    BY <2>1, <2>3 DEF Inbox, Window
  <2>7. put[e][s] \in 0..Chunks[e] /\ got[e][s] \in 0..Chunks[o]
    BY <2>2, <2>5, <2>6
  <2>8. table[e][s].unread \in 0..StreamCredit
    <3>1. CASE ~ Live(e, s)
      BY <2>2, <2>4, <3>1, FreshEntry
    <3>2. CASE Live(e, s)
      <4>1. Read(e, s) <= put[o][s]
        BY <1>1, <2>1, <2>3, <3>2, ReadBehind
      <4>2. got[e][s] + table[e][s].unread <= put[o][s]
        BY <4>1 DEF Read, Unread
      <4> QED
        BY <2>2, <2>4, <2>6, <4>2
    <3> QED
      BY <3>1, <3>2
  <2>9. sema[e][s] \in -1..StreamCredit
    <3>1. Free(e, s) + Holds(e, s) + (put[e][s] - got[o][s] + Updates(o, s)) <= StreamCredit
      BY <2>3 DEF Window, o
    <3>2. got[o][s] <= put[e][s] /\ got[o][s] \in Nat
      BY <1>1, <2>1, <2>3 DEF Inbox, MuxShape, o
    <3>3. Free(e, s) <= StreamCredit
      BY <2>2, <2>4, <3>1, <3>2
    <3>4. sema[e][s] <= Free(e, s)
      BY <2>2 DEF Free
    <3> QED
      BY <2>2, <2>4, <3>3, <3>4
  <2> QED
    BY <2>2, <2>4, <2>7, <2>8, <2>9 DEF RdStates, WrStates, o
<1>5. ASSUME NEW e \in Ends, NEW f \in ToSet(ctl[e]) \cup ToSet(data[e])
      PROVE  f.kind \in Kinds
  <2>1. ctl[e] \in Seq(Frames) /\ data[e] \in Seq(Frames)
    BY <1>1 DEF QueueShape
  <2>2. f \in Frames
    BY <1>5, <2>1 DEF ToSet
  <2> QED
    BY <2>2, FramesAre
<1>6. /\ \A e \in Ends : /\ pool[e] \in 0..ConnCredit /\ Len(data[e]) <= DataCap
                         /\ closed[e] \in {"open", "protocol", "reused", "crypto", "link", "shutdown"}
      /\ opener \in [Streams -> {"idle", "reserved", "waiting", "open", "failed"}]
      /\ dialed \in [Streams -> {"none", "dialing", "done", "refused"}]
  BY <1>1 DEF MuxShape, QueueShape, Reasons, Openers, Dials
<1>7. TypeMux
  BY <1>4, <1>5, <1>6 DEF TypeMux
<1> QED
  BY <1>3, <1>7

\* Both ends keep their books within bounds for any number of streams: no stream has more
\* unread than one window, no semaphore more than it started with (mux.rs:84-124).
THEOREM MuxTypes == MuxSafe => []TypeMux
<1>1. MuxInv => TypeMux
  BY MuxImplies
<1> QED
  BY <1>1, MuxHolds, PTL

\* However many streams are opened, refused, finished, reset or abandoned in whatever
\* order, the connection's semaphore and what its streams have outstanding add up to the
\* credit it started with (remove in mux.rs:132-136, WindowUpdate in pump.rs:189-200).
THEOREM CreditComesBack == MuxSafe => []ConnectionCreditWhole
<1>1. MuxInv => ConnectionCreditWhole
  BY DEF MuxInv
<1> QED
  BY <1>1, MuxHolds, PTL

\* Two honest ends never close a session for CloseReason::Protocol (mux.rs:68), although
\* control frames overtake data and entries go while frames of theirs are on the way.
THEOREM NobodyIsAccused == MuxSafe => []NoFalseAccusation
<1>1. MuxInv => NoFalseAccusation
  BY DEF MuxInv
<1> QED
  BY <1>1, MuxHolds, PTL

\* A reader that sees the orderly end of a stream has read all that the peer's bridge
\* wrote (read in mux.rs:322, the Fin event in pump.rs:201).
THEOREM EndsAreComplete == MuxSafe => []OrderlyEndIsComplete
<1>1. MuxInv => OrderlyEndIsComplete
  BY MuxImplies
<1> QED
  BY <1>1, MuxHolds, PTL
=============================================================================
