----------------------------- MODULE RelayRoom -----------------------------
(***************************************************************************)
(* A desktop and a daemon that meet in a room of the relay (tools/relay/    *)
(* src/relay.rs): admission, presence, forwarding, eviction; the daemon's   *)
(* outbound registration and its session (relay_tunnel/daemon.rs); the      *)
(* desktop's attachment (relay_tunnel/desktop.rs).  Both ends hold the same *)
(* pairing.  A record is sealed for the attachment it belongs to.           *)
(***************************************************************************)
EXTENDS Naturals, Sequences, FiniteSets, SequencesExt

CONSTANTS
  MaxConns,     \* bound: WebSocket connections ever made to the room
  QueueCap,     \* messages between the relay and a peer that reads nothing
  SessionCap,   \* SESSION_QUEUE: records of a session not yet read
  MaxData,      \* bound: application records sent by the daemon
  MaxCuts,      \* bound: connections that die without a word
  MaxDrops,     \* bound: attachments ended by the desktop, daemon restarts
  MaxTimeouts   \* bound: waits of ten seconds that expire

Conns == 1..MaxConns
None  == 0

ASSUME RoomAssumption ==
  /\ MaxConns \in Nat \ {0} /\ QueueCap \in Nat \ {0} /\ SessionCap \in Nat \ {0}
  /\ MaxData \in Nat /\ MaxCuts \in Nat /\ MaxDrops \in Nat /\ MaxTimeouts \in Nat

VARIABLES
  room,     \* the SessionSlot of the room, or NoRoom
  conn,     \* conn[c]: the relay's handler of connection c
  up,       \* up[c]: records on their way to the relay
  queue,    \* queue[c]: messages on their way from the relay
  daemon,   \* the daemon: its connection and its session
  desktop,  \* the desktop: its connection and how far the attachment is
  heard,    \* heard[c]: the last record that the owner of c has read
  used      \* history: instances of the room, data, cuts, drops, timeouts

roomVars == <<room, conn, up, queue, daemon, desktop, heard, used>>

NoRoom == [open |-> FALSE, peers |-> {}, next |-> 0, inst |-> 0]
Unused == [st |-> "unused", id |-> 0, inst |-> 0, sent |-> 0, silent |-> FALSE]

Presence(p)  == [kind |-> p, from |-> None, n |-> 0, epoch |-> None]
Presences    == {"connected", "waiting", "disconnected", "timeout"}
Record(kind, c, epoch) == [kind |-> kind, from |-> c, n |-> conn[c].sent + 1, epoch |-> epoch]

Members(r)     == {p.c : p \in r.peers}
\* Slip: the numeric id alone, which starts again in a new room.
ContainsPeerById(r, c) == \E p \in r.peers : p.id = conn[c].id
\* SessionSlot::contains_peer: the same numeric id and the same channel.
ContainsPeer(r, c) == [id |-> conn[c].id, c |-> c] \in r.peers

\* try_send: a full queue drops the message.
TrySend(q, cs, m) ==
  [c \in Conns |-> IF c \in cs /\ Len(q[c]) < QueueCap THEN Append(q[c], m) ELSE q[c]]

-----------------------------------------------------------------------------
(* The relay. *)

\* Admission into the room and the announcement, under one lock.
Join(c, id) ==
  LET fresh == [open |-> TRUE, peers |-> {[id |-> 0, c |-> c]}, next |-> 1,
                inst |-> used.insts + 1]
      more  == [room EXCEPT !.peers = @ \cup {[id |-> id, c |-> c]}, !.next = @ + 1]
      r     == IF room.open THEN more ELSE fresh
  IN /\ conn[c].st = "unused" /\ \A b \in 1..(c - 1) : conn[b].st # "unused"
     /\ IF room.open THEN Cardinality(room.peers) < 2 /\ id = room.next ELSE id = 0
     /\ room' = r
     /\ conn' = [conn EXCEPT ![c] = [Unused EXCEPT !.st = "reading", !.id = id, !.inst = r.inst]]
     /\ queue' = TrySend(queue, Members(r),
                   Presence(IF Cardinality(r.peers) = 2 THEN "connected" ELSE "waiting"))
     /\ used' = [used EXCEPT !.insts = IF room.open THEN @ ELSE @ + 1]

\* forward_to_others, once the handler has read a record; a stale handler drops it.
Targets(c) == IF ContainsPeer(room, c) THEN Members(room) \ {c} ELSE {}

Forward(c) ==
  /\ conn[c].st = "reading" /\ up[c] # <<>>
  /\ \A d \in Targets(c) : Len(queue[d]) < QueueCap
  /\ queue' = TrySend(queue, Targets(c), Head(up[c])) /\ up' = [up EXCEPT ![c] = Tail(@)]
  /\ UNCHANGED <<room, conn, daemon, desktop, heard, used>>

\* Slip: the senders are dropped one by one and an empty room stays listed.
OverflowKeepsOpen(c) ==
  /\ conn[c].st = "reading" /\ up[c] # <<>>
  /\ \E d \in Targets(c) : Len(queue[d]) >= QueueCap
  /\ up' = [up EXCEPT ![c] = Tail(@)] /\ room' = [room EXCEPT !.peers = {}]
  /\ UNCHANGED <<conn, queue, daemon, desktop, heard, used>>

\* Slip: a record that does not fit is dropped and the room lives on.
OverflowDrops(c) ==
  /\ conn[c].st = "reading" /\ up[c] # <<>>
  /\ \E d \in Targets(c) : Len(queue[d]) >= QueueCap
  /\ up' = [up EXCEPT ![c] = Tail(@)]
  /\ UNCHANGED <<room, conn, queue, daemon, desktop, heard, used>>

\* A peer takes nothing for five seconds: evict_room drops the senders of the room.
Overflow(c) ==
  /\ conn[c].st = "reading" /\ up[c] # <<>>
  /\ \E d \in Targets(c) : Len(queue[d]) >= QueueCap
  /\ up' = [up EXCEPT ![c] = Tail(@)] /\ room' = NoRoom
  /\ UNCHANGED <<conn, queue, daemon, desktop, heard, used>>

\* The handler ends: its socket closed after its last record, its writer ended with the
\* room, or it has been silent too long.
Finished(c) ==
  \/ conn[c].silent
  \/ c \notin Members(room)
  \/ up[c] = <<>> /\ c \notin {daemon.c, desktop.c}

\* remove_peer tells the one that stays.
RemovePeer(c) ==
  /\ conn[c].st = "reading" /\ Finished(c)
  /\ conn' = [conn EXCEPT ![c].st = "done"] /\ up' = [up EXCEPT ![c] = <<>>]
  /\ LET rest == {p \in room.peers : p.id # conn[c].id}
         ours == ContainsPeer(room, c)
         told == IF ours THEN TrySend(queue, {p.c : p \in rest}, Presence("disconnected"))
                 ELSE queue
     IN /\ room' = IF ~ ours THEN room
                   ELSE IF rest = {} THEN NoRoom ELSE [room EXCEPT !.peers = rest]
        \* A peer that was removed has lost its writer; one evicted drains its queue.
        /\ queue' = IF ours THEN [told EXCEPT ![c] = <<>>] ELSE queue
  /\ UNCHANGED <<daemon, desktop, heard, used>>

\* The reaper drops a room none of whose peers has been heard for the idle timeout.
Reap ==
  /\ room.open /\ \A c \in Members(room) : conn[c].silent
  /\ queue' = TrySend(queue, Members(room), Presence("timeout")) /\ room' = NoRoom
  /\ UNCHANGED <<conn, up, daemon, desktop, heard, used>>

\* The network between an end and the relay fails; the end notices, the relay does not.
Gone(c) == conn[c].st = "done" \/ conn[c].silent
Cut(c) ==
  /\ conn[c].st = "reading" /\ ~ conn[c].silent /\ c \in {daemon.c, desktop.c}
  /\ used.cuts < MaxCuts /\ used' = [used EXCEPT !.cuts = @ + 1]
  /\ conn' = [conn EXCEPT ![c].silent = TRUE] /\ up' = [up EXCEPT ![c] = <<>>]
  /\ UNCHANGED <<room, queue, daemon, desktop, heard>>

\* The link of an end delivers what came for it, then it ends.
Hears(c, m) == c # None /\ ~ conn[c].silent /\ queue[c] # <<>> /\ m = Head(queue[c])
LinkEnds(c) == c # None /\ (conn[c].silent \/ (conn[c].st = "done" /\ queue[c] = <<>>))
Take(c) == queue' = [queue EXCEPT ![c] = Tail(@)]
Note(c, m) == heard' = IF m.from = None THEN heard
                       ELSE [heard EXCEPT ![c] = [from |-> m.from, n |-> m.n]]

\* A record on its way: nothing is sent on a connection that has ended.
Send(c, ms) ==
  IF Gone(c) THEN UNCHANGED <<up, conn>>
  ELSE /\ up' = [up EXCEPT ![c] = @ \o [i \in DOMAIN ms |->
                                          [Record(ms[i].kind, c, ms[i].epoch) EXCEPT !.n = @ + i - 1]]]
       /\ conn' = [conn EXCEPT ![c].sent = conn[c].sent + Len(ms)]
Msg(kind, epoch) == [kind |-> kind, epoch |-> epoch]

-----------------------------------------------------------------------------
(* The daemon. *)

NoSession == [st |-> "none", epoch |-> None, recs |-> <<>>]

DaemonJoins(c) ==
  /\ daemon.c = None /\ \E id \in 0..MaxConns : Join(c, id)
  /\ daemon' = [daemon EXCEPT !.c = c] /\ UNCHANGED <<up, desktop, heard>>

\* serve: each join starts a session anew; a record goes to the session, if it fits.
DaemonHears ==
  LET c == daemon.c  s == daemon.session IN
  \E m \in ToSet(queue[IF c = None THEN 1 ELSE c]) :
    /\ Hears(c, m) /\ Take(c) /\ Note(c, m)
    /\ daemon' = [daemon EXCEPT !.session =
         IF m.kind = "connected" THEN [NoSession EXCEPT !.st = "await"]
         ELSE IF m.kind \in Presences THEN NoSession
         ELSE IF s.st = "none" THEN s
         ELSE IF s.st = "dead" \/ Len(s.recs) >= SessionCap THEN NoSession
         ELSE [s EXCEPT !.recs = Append(@, m)]]
    /\ UNCHANGED <<room, conn, up, desktop, used>>

\* run_session: the first record must be the opening of a handshake; once it is, the
\* reply and the credential follow.  What the session cannot decrypt ends it.
SessionReads ==
  LET c == daemon.c  s == daemon.session  m == Head(s.recs) IN
  /\ c # None /\ s.st \in {"await", "up"} /\ s.recs # <<>>
  /\ IF s.st = "await" /\ m.kind = "hello"
     THEN /\ daemon' = [daemon EXCEPT !.session =
                          [st |-> "up", epoch |-> m.epoch, recs |-> Tail(s.recs)]]
          /\ Send(c, <<Msg("reply", m.epoch), Msg("credential", m.epoch)>>)
     ELSE /\ daemon' = [daemon EXCEPT !.session =
                          IF s.st = "up" /\ m.kind # "hello" /\ m.epoch = s.epoch
                          THEN [s EXCEPT !.recs = Tail(@)] ELSE [s EXCEPT !.st = "dead"]]
          /\ UNCHANGED <<up, conn>>
  /\ UNCHANGED <<room, queue, desktop, heard, used>>

SessionSends ==
  LET s == daemon.session IN
  /\ daemon.c # None /\ s.st = "up" /\ used.data < MaxData
  /\ used' = [used EXCEPT !.data = @ + 1] /\ Send(daemon.c, <<Msg("data", s.epoch)>>)
  /\ UNCHANGED <<room, queue, daemon, desktop, heard>>

\* The relay connection ended, or the daemon process restarts: both end in a new try.
DaemonLeaves ==
  /\ daemon.c # None
  /\ \/ LinkEnds(daemon.c) /\ UNCHANGED used
     \/ used.drops < MaxDrops /\ used' = [used EXCEPT !.drops = @ + 1]
  /\ daemon' = [c |-> None, session |-> NoSession]
  /\ UNCHANGED <<room, conn, up, queue, desktop, heard>>

-----------------------------------------------------------------------------
(* The desktop. *)

Detached(outcome) == [c |-> None, phase |-> "idle", last |-> outcome]
DesktopGoes(phase) == desktop' = [desktop EXCEPT !.phase = phase]
DesktopFails(outcome) == desktop' = Detached(outcome)

\* RelaySession::start, by the supervisor; a rejected pairing is left to a person.
DesktopJoins(c) ==
  /\ desktop.c = None /\ desktop.last # "pairing_rejected"
  /\ \E id \in 0..MaxConns : Join(c, id)
  /\ desktop' = [desktop EXCEPT !.c = c, !.phase = "waiting"]
  /\ UNCHANGED <<up, daemon, heard>>

\* wait_for_daemon, handshake, the wait for the credential, and the session.
DesktopWaits(m) ==
  IF m.kind = "connected"
  THEN DesktopGoes("hello") /\ Send(desktop.c, <<Msg("hello", desktop.c)>>)
  ELSE UNCHANGED <<desktop, up, conn>>

DesktopShakes(m) ==
  /\ CASE m.kind = "connected" -> UNCHANGED desktop
       [] m.kind \in Presences \ {"connected"} -> DesktopFails("daemon_offline")
       [] m.kind = "reply" /\ m.epoch = desktop.c -> DesktopGoes("credential")
       [] OTHER -> DesktopFails("pairing_rejected")
  /\ UNCHANGED <<up, conn>>

\* The mux reads on; the peer that leaves, or a record it cannot open, ends it.
DesktopMux(m, outcome) ==
  /\ CASE m.kind = "connected" -> UNCHANGED desktop
       [] m.kind \in Presences \ {"connected"} -> DesktopFails(outcome)
       [] m.kind \in {"credential", "data"} /\ m.epoch = desktop.c ->
            IF m.kind = "credential" THEN DesktopGoes("up") ELSE UNCHANGED desktop
       [] OTHER -> DesktopFails(outcome)
  /\ UNCHANGED <<up, conn>>

DesktopHears ==
  \E m \in ToSet(queue[IF desktop.c = None THEN 1 ELSE desktop.c]) :
    /\ Hears(desktop.c, m) /\ Take(desktop.c) /\ Note(desktop.c, m)
    /\ \/ desktop.phase = "waiting" /\ DesktopWaits(m)
       \/ desktop.phase = "hello" /\ DesktopShakes(m)
       \/ desktop.phase = "credential" /\ DesktopMux(m, "pairing_rejected")
       \/ desktop.phase = "up" /\ DesktopMux(m, "link_lost")
    /\ UNCHANGED <<room, daemon, used>>

DesktopLinkEnds ==
  /\ LinkEnds(desktop.c)
  /\ DesktopFails(CASE desktop.phase = "waiting" -> "relay_unreachable"
                    [] desktop.phase = "credential" -> "pairing_rejected"
                    [] OTHER -> "link_lost")
  /\ UNCHANGED <<room, conn, up, queue, daemon, heard, used>>

\* A wait expires: for a daemon, for the reply, for the credential.
DesktopTimesOut ==
  /\ desktop.c # None /\ desktop.phase # "up"
  /\ used.timeouts < MaxTimeouts /\ used' = [used EXCEPT !.timeouts = @ + 1]
  /\ DesktopFails(IF desktop.phase = "waiting" THEN "daemon_offline" ELSE "pairing_rejected")
  /\ UNCHANGED <<room, conn, up, queue, daemon, heard>>

\* The user or the runtime drops the attachment.
DesktopDrops ==
  /\ desktop.phase = "up" /\ used.drops < MaxDrops
  /\ used' = [used EXCEPT !.drops = @ + 1] /\ DesktopFails("link_lost")
  /\ UNCHANGED <<room, conn, up, queue, daemon, heard>>

\* Nobody answers the pings of the session.
Served == daemon.session.st = "up" /\ daemon.session.epoch = desktop.c
Heartbeat ==
  /\ desktop.phase = "up" /\ ~ Served /\ DesktopFails("link_lost")
  /\ UNCHANGED <<room, conn, up, queue, daemon, heard, used>>

-----------------------------------------------------------------------------
RoomInit ==
  /\ room = NoRoom /\ conn = [c \in Conns |-> Unused]
  /\ up = [c \in Conns |-> <<>>] /\ queue = up
  /\ daemon = [c |-> None, session |-> NoSession] /\ desktop = Detached("none")
  /\ heard = [c \in Conns |-> [from |-> None, n |-> 0]]
  /\ used = [insts |-> 0, data |-> 0, cuts |-> 0, drops |-> 0, timeouts |-> 0]

RoomNext ==
  \/ \E c \in Conns : \/ Forward(c) \/ Overflow(c) \/ RemovePeer(c) \/ Cut(c)
                     \/ DaemonJoins(c) \/ DesktopJoins(c)
  \/ Reap \/ DaemonHears \/ SessionReads \/ SessionSends \/ DaemonLeaves
  \/ DesktopHears \/ DesktopLinkEnds \/ DesktopTimesOut
  \/ DesktopDrops \/ Heartbeat

RoomSpec == RoomInit /\ [][RoomNext]_roomVars

-----------------------------------------------------------------------------
(* Properties. *)

\* Type invariant of the room, its connections and the two ends.
TypeRoom ==
  /\ Cardinality(room.peers) <= 2 /\ room.open = (room.peers # {})
  /\ \A c \in Conns : /\ conn[c].st \in {"unused", "reading", "done"}
                       /\ Len(queue[c]) <= QueueCap
  /\ daemon.c \in Conns \cup {None} /\ daemon.session.st \in {"none", "await", "up", "dead"}
  /\ desktop.c \in Conns \cup {None}
  /\ desktop.phase \in {"idle", "waiting", "hello", "credential", "up"}
  /\ desktop.last \in {"none", "relay_unreachable", "daemon_offline", "pairing_rejected", "link_lost"}

\* Nothing crosses from one room into the room that replaced it: a handler that outlived
\* its room neither forwards into the new one nor removes its peers, although numeric
\* ids start again (contains_peer in relay.rs:28-34, remove_peer in relay.rs:519).
RoomsStayApart ==
  /\ \A c \in Conns : \A m \in ToSet(queue[c]) :
       m.from # None => conn[m.from].inst = conn[c].inst
  /\ \A c \in Members(room) : conn[c].st = "reading" /\ conn[c].inst = room.inst

\* An end never reads on after a record of its peer was lost: what it reads of one
\* connection has no gap, for a full queue ends the room (forward_to_others).
NoSilentGap ==
  [][\A c \in Conns : heard'[c].from = heard[c].from
                        => heard'[c].n \in {heard[c].n, heard[c].n + 1}]_heard
=============================================================================
