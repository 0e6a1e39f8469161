------------------------------ MODULE RelayMux ------------------------------
(***************************************************************************)
(* Streams multiplexed over one authenticated link between a desktop and a *)
(* remote daemon (relay_tunnel/mux.rs, mux/pump.rs), and the bridge of each *)
(* stream to its TCP socket (bridge.rs).  Data is counted in chunks: one    *)
(* chunk takes one permit.  Control frames have a queue of their own that   *)
(* goes first, so that a frame may overtake the data of its stream.         *)
(***************************************************************************)
EXTENDS Integers, Sequences, FiniteSets, SequencesExt

CONSTANTS
  NumStreams,    \* bound: the desktop's applications open this many sockets
  MaxStreams,    \* config.max_streams
  StreamCredit,  \* STREAM_CREDIT, in chunks
  ConnCredit,    \* CONNECTION_CREDIT, in chunks
  DataCap,       \* capacity of the data channel to the writer task
  WireCap,       \* records between a writer task and the other end's reader
  Chunks,        \* Chunks[e]: what the socket at end e has to say, per stream
  Stalled,       \* streams whose desktop client never takes what it is sent
  MaxFins,       \* bound: sockets that end in an orderly way
  MaxFaults      \* bound: socket errors, refused connections, lost records, shutdowns

Ends    == {"desktop", "daemon"}
Streams == 1..NumStreams
Other(e) == IF e = "desktop" THEN "daemon" ELSE "desktop"

ASSUME MuxAssumption ==
  /\ NumStreams \in Nat \ {0} /\ MaxStreams \in Nat \ {0} /\ StreamCredit \in Nat \ {0}
  /\ ConnCredit \in Nat /\ ConnCredit >= StreamCredit
  /\ DataCap \in Nat \ {0} /\ WireCap \in Nat \ {0}
  /\ Chunks \in [Ends -> Nat] /\ Stalled \subseteq Streams
  /\ MaxFins \in Nat /\ MaxFaults \in Nat

VARIABLES
  table,   \* table[e][s]: the Entry of stream s at end e, or Absent
  sema,    \* sema[e][s]: permits of the stream's semaphore, or Shut
  pool,    \* pool[e]: permits of the connection's semaphore
  closed,  \* closed[e]: why the session ended at e, or "open"
  ctl,     \* ctl[e]: control frames for the writer task
  data,    \* data[e]: Data and Fin frames for the writer task
  wire,    \* wire[e]: records sent by e that the other end has not read
  gap,     \* gap[e]: a record of e was lost
  inbox,   \* inbox[e][s]: events for the reader of the stream
  opener,  \* opener[s]: the desktop's call of open
  dialed,  \* dialed[s]: the daemon's connection to its upstream
  rd, wr,  \* rd[e][s], wr[e][s]: the two halves of the bridge
  put,     \* put[e][s]: chunks that e's bridge handed to the writer task
  got,     \* got[e][s]: number of the last chunk that e's bridge has read
  spent    \* history: fins and faults so far

muxVars == <<table, sema, pool, closed, ctl, data, wire, gap, inbox, opener, dialed,
             rd, wr, put, got, spent>>

Absent == [outstanding |-> 0, unread |-> 0, lfin |-> FALSE, rfin |-> FALSE,
           opening |-> FALSE, present |-> FALSE]
Fresh(opening) == [Absent EXCEPT !.present = TRUE, !.opening = opening]
Shut == -1                       \* a closed semaphore

Live(e, s)   == table[e][s].present
Full(e)      == Cardinality({s \in Streams : Live(e, s)}) >= MaxStreams
Frame(kind, s)   == [kind |-> kind, s |-> s, n |-> 0]
DataFrame(s, n)  == [kind |-> "Data", s |-> s, n |-> n]
Tell(e, f)       == ctl' = [ctl EXCEPT ![e] = Append(@, f)]

\* Core::remove: the entry goes, what it had outstanding returns to the connection.
Removed(e, s) == table' = [table EXCEPT ![e][s] = Absent]
\* Slip: what the application has not read is given back as well.
RefundUnread(e, s) == pool' = [pool EXCEPT ![e] = IF closed[e] = "open"
                                THEN @ + table[e][s].outstanding + table[e][s].unread ELSE @]
Refund(e, s)  == pool' = [pool EXCEPT ![e] = IF closed[e] = "open"
                                             THEN @ + table[e][s].outstanding ELSE @]

Bridged(e, s) == rd[e][s] \notin {"off", "over"} \/ wr[e][s] \notin {"off", "over"}
Over(e, s) == rd' = [rd EXCEPT ![e][s] = "over"] /\ wr' = [wr EXCEPT ![e][s] = "over"]

\* The bridge stops: its other half is dropped, and MuxStream::reset aborts the stream.
Fail(e, s) ==
  /\ Over(e, s)
  /\ IF Live(e, s) THEN Removed(e, s) /\ Refund(e, s) /\ Tell(e, Frame("Reset", s))
                   ELSE UNCHANGED <<table, pool, ctl>>
-----------------------------------------------------------------------------
(* Opening a stream. *)

\* MuxHandle::open, for a socket that the loopback listener accepted: the entry is
\* made under the lock, the frame is queued after it is released.
Reserve(s) ==
  /\ opener[s] = "idle" /\ \A t \in 1..(s - 1) : opener[t] # "idle"
  /\ closed["desktop"] = "open" /\ ~ Full("desktop")
  /\ table' = [table EXCEPT !["desktop"][s] = Fresh(TRUE)]
  /\ sema' = [sema EXCEPT !["desktop"][s] = StreamCredit]
  /\ opener' = [opener EXCEPT ![s] = "reserved"]
  /\ UNCHANGED <<pool, closed, ctl, data, wire, gap, inbox, dialed, rd, wr, put, got, spent>>

SendOpen(s) ==
  /\ opener[s] = "reserved" /\ opener' = [opener EXCEPT ![s] = "waiting"]
  /\ Tell("desktop", Frame("Open", s))
  /\ UNCHANGED <<table, sema, pool, closed, data, wire, gap, inbox, dialed, rd, wr,
                 put, got, spent>>

Bridge(e, s) == rd' = [rd EXCEPT ![e][s] = "reading"] /\ wr' = [wr EXCEPT ![e][s] = "idle"]

\* The daemon connects to its upstream, then accepts the stream or refuses it.
Accept(s) ==
  /\ dialed[s] = "dialing" /\ dialed' = [dialed EXCEPT ![s] = "done"]
  /\ Tell("daemon", Frame("Opened", s)) /\ Bridge("daemon", s)
  /\ UNCHANGED <<table, sema, pool, closed, data, wire, gap, inbox, opener, put, got, spent>>

Refuse(s) ==
  /\ dialed[s] = "dialing" /\ dialed' = [dialed EXCEPT ![s] = "done"]
  /\ spent.faults < MaxFaults /\ spent' = [spent EXCEPT !.faults = @ + 1]
  /\ IF Live("daemon", s)
     THEN Removed("daemon", s) /\ Refund("daemon", s) /\ Tell("daemon", Frame("OpenFailed", s))
     ELSE UNCHANGED <<table, pool, ctl>>
  /\ UNCHANGED <<sema, closed, data, wire, gap, inbox, opener, rd, wr, put, got>>

-----------------------------------------------------------------------------
(* The half of a bridge that reads the stream and writes the socket. *)

Elsewhere == UNCHANGED <<closed, wire, gap, opener, dialed>>

\* Slip: the credit is returned, but the chunk still counts as unread.
ReadDataUncounted(e, s) ==
  /\ rd[e][s] = "reading" /\ inbox[e][s] # <<>> /\ Head(inbox[e][s]).kind = "Data"
  /\ inbox' = [inbox EXCEPT ![e][s] = Tail(inbox[e][s])]
  /\ Tell(e, Frame("WindowUpdate", s))
  /\ got' = [got EXCEPT ![e][s] = Head(inbox[e][s]).n]
  /\ rd' = [rd EXCEPT ![e][s] = "writing"]
  /\ UNCHANGED <<table, sema, pool, data, wr, put, spent>> /\ Elsewhere

\* MuxStream::read of a chunk: the credit goes back at once.
ReadData(e, s) ==
  /\ rd[e][s] = "reading" /\ inbox[e][s] # <<>> /\ Head(inbox[e][s]).kind = "Data"
  /\ inbox' = [inbox EXCEPT ![e][s] = Tail(inbox[e][s])]
  /\ table' = IF Live(e, s) THEN [table EXCEPT ![e][s].unread = table[e][s].unread - 1] ELSE table
  /\ Tell(e, Frame("WindowUpdate", s))
  /\ got' = [got EXCEPT ![e][s] = Head(inbox[e][s]).n]
  /\ rd' = [rd EXCEPT ![e][s] = "writing"]
  /\ UNCHANGED <<sema, pool, data, wr, put, spent>> /\ Elsewhere

\* Once both halves have ended the stream is dropped: Drop resets what is left of it.
Ends2(e, s) ==
  IF wr[e][s] = "ended" THEN Fail(e, s)
  ELSE rd' = [rd EXCEPT ![e][s] = "ended"] /\ UNCHANGED <<wr, table, pool, ctl>>

ReadFin(e, s) ==
  /\ rd[e][s] = "reading" /\ inbox[e][s] # <<>> /\ Head(inbox[e][s]).kind = "Fin"
  /\ inbox' = [inbox EXCEPT ![e][s] = Tail(inbox[e][s])]
  /\ Ends2(e, s)
  /\ UNCHANGED <<sema, data, put, got, spent>> /\ Elsewhere

\* The stream was reset, or it is gone and nothing is left to read.
ReadError(e, s) ==
  /\ rd[e][s] = "reading"
  /\ \/ inbox[e][s] # <<>> /\ Head(inbox[e][s]).kind = "Reset"
     \/ inbox[e][s] = <<>> /\ ~ Live(e, s)
  /\ Fail(e, s)
  /\ UNCHANGED <<sema, inbox, data, put, got, spent>> /\ Elsewhere

SocketTakes(e, s) ==
  /\ rd[e][s] = "writing" /\ rd' = [rd EXCEPT ![e][s] = "reading"]
  /\ UNCHANGED <<table, sema, pool, ctl, data, inbox, wr, put, got, spent>> /\ Elsewhere

SocketBreaks(e, s) ==
  /\ rd[e][s] = "writing" \/ wr[e][s] = "idle"
  /\ spent.faults < MaxFaults /\ Fail(e, s)
  /\ spent' = [spent EXCEPT !.faults = @ + 1]
  /\ UNCHANGED <<sema, inbox, data, put, got>> /\ Elsewhere

-----------------------------------------------------------------------------
(* The half that reads the socket and writes the stream. *)

\* write_all: look the stream up and take its semaphore.
SocketSays(e, s) ==
  /\ wr[e][s] = "idle" /\ put[e][s] < Chunks[e]
  /\ IF Live(e, s) THEN wr' = [wr EXCEPT ![e][s] = "stream"] /\ UNCHANGED <<rd, table, pool, ctl>>
                   ELSE Fail(e, s)
  /\ UNCHANGED <<sema, data, inbox, put, got, spent>> /\ Elsewhere

TakeStreamCredit(e, s) ==
  /\ wr[e][s] = "stream" /\ sema[e][s] # 0
  /\ \/ /\ sema[e][s] > 0 /\ sema' = [sema EXCEPT ![e][s] = sema[e][s] - 1]
        /\ wr' = [wr EXCEPT ![e][s] = "conn"] /\ UNCHANGED <<rd, table, pool, ctl>>
     \/ sema[e][s] = Shut /\ Fail(e, s) /\ UNCHANGED sema
  /\ UNCHANGED <<data, inbox, put, got, spent>> /\ Elsewhere

\* The permits are kept only if the stream is still there.
TakeConnCredit(e, s) ==
  /\ wr[e][s] = "conn" /\ (closed[e] # "open" \/ pool[e] > 0)
  /\ \/ /\ closed[e] = "open" /\ Live(e, s)
        /\ pool' = [pool EXCEPT ![e] = @ - 1]
        /\ table' = [table EXCEPT ![e][s].outstanding = table[e][s].outstanding + 1]
        /\ wr' = [wr EXCEPT ![e][s] = "data"] /\ UNCHANGED <<rd, ctl>>
     \/ ~ Live(e, s) /\ Fail(e, s)
  /\ UNCHANGED <<sema, data, inbox, put, got, spent>> /\ Elsewhere

PutData(e, s) ==
  /\ wr[e][s] = "data"
  /\ \/ /\ closed[e] = "open" /\ Len(data[e]) < DataCap
        /\ data' = [data EXCEPT ![e] = Append(@, DataFrame(s, put[e][s] + 1))]
        /\ put' = [put EXCEPT ![e][s] = put[e][s] + 1]
        /\ wr' = [wr EXCEPT ![e][s] = "idle"] /\ UNCHANGED <<rd, table, pool, ctl>>
     \/ closed[e] # "open" /\ Fail(e, s) /\ UNCHANGED <<data, put>>
  /\ UNCHANGED <<sema, inbox, got, spent>> /\ Elsewhere

\* MuxStream::finish: the second Fin of a stream removes it, before it is sent.
Finish(e, s) ==
  /\ wr[e][s] = "idle" /\ wr' = [wr EXCEPT ![e][s] = "fin"]
  /\ spent.fins < MaxFins /\ spent' = [spent EXCEPT !.fins = @ + 1]
  /\ IF Live(e, s) /\ table[e][s].rfin
     THEN Removed(e, s) /\ Refund(e, s)
     ELSE /\ table' = IF Live(e, s) THEN [table EXCEPT ![e][s].lfin = TRUE] ELSE table
          /\ UNCHANGED pool
  /\ UNCHANGED <<sema, ctl, data, inbox, rd, put, got>> /\ Elsewhere

\* Slip: the Fin goes with the control frames.
PutFinAhead(e, s) ==
  /\ wr[e][s] = "fin" /\ closed[e] = "open" /\ rd[e][s] # "ended"
  /\ Tell(e, Frame("Fin", s)) /\ wr' = [wr EXCEPT ![e][s] = "ended"]
  /\ UNCHANGED <<table, sema, pool, data, inbox, rd, put, got, spent>> /\ Elsewhere

PutFin(e, s) ==
  /\ wr[e][s] = "fin" /\ (closed[e] # "open" \/ Len(data[e]) < DataCap)
  /\ data' = IF closed[e] = "open" THEN [data EXCEPT ![e] = Append(@, Frame("Fin", s))] ELSE data
  /\ IF rd[e][s] = "ended" THEN Fail(e, s)
     ELSE wr' = [wr EXCEPT ![e][s] = "ended"] /\ UNCHANGED <<rd, table, pool, ctl>>
  /\ UNCHANGED <<sema, inbox, put, got, spent>> /\ Elsewhere

-----------------------------------------------------------------------------
(* The pump: the writer task, the reader task, the end of the session. *)

\* write_task: control frames first.  A frame it holds counts as on the wire.
Write(e) ==
  /\ closed[e] = "open" /\ Len(wire[e]) < WireCap
  /\ \/ /\ ctl[e] # <<>>
        /\ wire' = [wire EXCEPT ![e] = Append(@, Head(ctl[e]))]
        /\ ctl' = [ctl EXCEPT ![e] = Tail(@)] /\ UNCHANGED data
     \/ /\ ctl[e] = <<>> /\ data[e] # <<>>
        /\ wire' = [wire EXCEPT ![e] = Append(@, Head(data[e]))]
        /\ data' = [data EXCEPT ![e] = Tail(@)] /\ UNCHANGED ctl
  /\ UNCHANGED <<table, sema, pool, closed, gap, inbox, opener, dialed, rd, wr, put, got, spent>>

\* close: every entry is drained, its semaphore closed, its waiting opener failed.
CloseEnd(e, reason) ==
  /\ closed' = [closed EXCEPT ![e] = reason]
  /\ table' = [table EXCEPT ![e] = [s \in Streams |-> Absent]]
  /\ sema' = [sema EXCEPT ![e] = [s \in Streams |-> IF Live(e, s) THEN Shut ELSE sema[e][s]]]
  /\ opener' = [s \in Streams |->
                   IF e = "desktop" /\ opener[s] \in {"reserved", "waiting"}
                   THEN "failed" ELSE opener[s]]
  /\ ctl' = [ctl EXCEPT ![e] = <<>>] /\ data' = [data EXCEPT ![e] = <<>>]
  /\ UNCHANGED <<pool, dialed, gap, inbox, rd, wr, put, got>>

Deliver(e, s, event) == inbox' = [inbox EXCEPT ![e][s] = Append(inbox[e][s], event)]

\* dispatch and open_requested, for the next record that e reads.
OnOpen(e, s) ==
  \/ /\ ~ Full(e)
     /\ table' = [table EXCEPT ![e][s] = Fresh(FALSE)]
     /\ sema' = [sema EXCEPT ![e][s] = StreamCredit]
     /\ dialed' = [dialed EXCEPT ![s] = "dialing"]
     /\ UNCHANGED <<pool, ctl, closed, opener, inbox, rd, wr>>
  \/ /\ Tell(e, Frame("OpenFailed", s))     \* the table or the backlog is full
     /\ dialed' = [dialed EXCEPT ![s] = "refused"]
     /\ UNCHANGED <<table, sema, pool, closed, opener, inbox, rd, wr>>

OnOpened(e, s) ==
  /\ table[e][s].opening /\ table' = [table EXCEPT ![e][s].opening = FALSE]
  /\ opener' = [opener EXCEPT ![s] = "open"] /\ Bridge(e, s)
  /\ UNCHANGED <<sema, pool, ctl, closed, dialed, inbox>>

OnOpenFailed(e, s) ==
  /\ table[e][s].opening /\ Removed(e, s) /\ Refund(e, s)
  /\ opener' = [opener EXCEPT ![s] = "failed"]
  /\ UNCHANGED <<sema, ctl, closed, dialed, inbox, rd, wr>>

OnData(e, f) ==
  /\ ~ Live(e, f.s) \/ table[e][f.s].unread < StreamCredit
  /\ IF Live(e, f.s)
     THEN /\ table' = [table EXCEPT ![e][f.s].unread = table[e][f.s].unread + 1]
          /\ Deliver(e, f.s, [kind |-> "Data", n |-> f.n])
     ELSE UNCHANGED <<table, inbox>>
  /\ UNCHANGED <<sema, pool, ctl, closed, opener, dialed, rd, wr>>

OnWindowUpdate(e, s) ==
  /\ ~ Live(e, s) \/ table[e][s].outstanding > 0
  /\ IF Live(e, s)
     THEN /\ table' = [table EXCEPT ![e][s].outstanding = table[e][s].outstanding - 1]
          /\ sema' = [sema EXCEPT ![e][s] = sema[e][s] + 1] /\ pool' = [pool EXCEPT ![e] = @ + 1]
     ELSE UNCHANGED <<table, sema, pool>>
  /\ UNCHANGED <<ctl, closed, opener, dialed, inbox, rd, wr>>

OnFin(e, s) ==
  /\ IF ~ Live(e, s) THEN UNCHANGED <<table, pool, inbox>>
     ELSE /\ Deliver(e, s, [kind |-> "Fin", n |-> 0])
          /\ IF table[e][s].lfin THEN Removed(e, s) /\ Refund(e, s)
             ELSE table' = [table EXCEPT ![e][s].rfin = TRUE] /\ UNCHANGED pool
  /\ UNCHANGED <<sema, ctl, closed, opener, dialed, rd, wr>>

\* Slip: what a reset stream had outstanding is lost to the connection.
OnResetKeeps(e, s) ==
  /\ IF Live(e, s) THEN Removed(e, s) /\ Deliver(e, s, [kind |-> "Reset", n |-> 0])
     ELSE UNCHANGED <<table, inbox>>
  /\ UNCHANGED <<sema, pool, ctl, closed, opener, dialed, rd, wr>>

OnReset(e, s) ==
  /\ IF Live(e, s)
     THEN Removed(e, s) /\ Refund(e, s) /\ Deliver(e, s, [kind |-> "Reset", n |-> 0])
     ELSE UNCHANGED <<table, pool, inbox>>
  /\ opener' = IF table[e][s].opening THEN [opener EXCEPT ![s] = "failed"] ELSE opener
  /\ UNCHANGED <<sema, ctl, closed, dialed, rd, wr>>

Dispatch(e, f) ==
  \/ f.kind = "Open" /\ OnOpen(e, f.s)
  \/ f.kind = "Opened" /\ OnOpened(e, f.s)
  \/ f.kind = "OpenFailed" /\ OnOpenFailed(e, f.s)
  \/ f.kind = "Data" /\ OnData(e, f)
  \/ f.kind = "WindowUpdate" /\ OnWindowUpdate(e, f.s)
  \/ f.kind = "Fin" /\ OnFin(e, f.s)
  \/ f.kind = "Reset" /\ OnReset(e, f.s)

\* What dispatch answers with CloseReason::Protocol.  The ids of the peer's streams
\* must grow: last_remote_id is the largest that was dialed or refused.
Reused(f) == f.kind = "Open" /\ \E t \in Streams : t >= f.s /\ dialed[t] # "none"

Offends(e, f) ==
  \/ f.kind = "Open" /\ e = "desktop"
  \/ f.kind \in {"Opened", "OpenFailed"} /\ ~ table[e][f.s].opening
  \/ f.kind = "Data" /\ table[e][f.s].unread >= StreamCredit
  \/ f.kind = "WindowUpdate" /\ Live(e, f.s) /\ table[e][f.s].outstanding = 0

\* Slip: the reader waits for the writer to send its answers first.
ReceiveInTurn(e) ==
  LET o == Other(e) IN
  /\ closed[e] = "open" /\ ctl[e] = <<>> /\ ~ gap[o] /\ wire[o] # <<>>
  /\ ~ Offends(e, Head(wire[o])) /\ ~ Reused(Head(wire[o]))
  /\ wire' = [wire EXCEPT ![o] = Tail(@)] /\ Dispatch(e, Head(wire[o]))
  /\ UNCHANGED <<data, gap, put, got, spent>>

Receive(e) ==
  LET o == Other(e) IN
  /\ closed[e] = "open" /\ ~ gap[o] /\ wire[o] # <<>>
  /\ wire' = [wire EXCEPT ![o] = Tail(@)]
  /\ IF Offends(e, Head(wire[o])) THEN CloseEnd(e, "protocol")
     ELSE IF Reused(Head(wire[o])) THEN CloseEnd(e, "reused")
     ELSE Dispatch(e, Head(wire[o])) /\ UNCHANGED <<data, gap, put, got>>
  /\ UNCHANGED spent

\* The relay loses a record; the next one, a ping at the latest, does not decrypt.
Lose(e) ==
  /\ spent.faults < MaxFaults /\ spent' = [spent EXCEPT !.faults = @ + 1]
  /\ wire[e] # <<>> /\ ~ gap[e]
  /\ wire' = [wire EXCEPT ![e] = Tail(@)] /\ gap' = [gap EXCEPT ![e] = TRUE]
  /\ UNCHANGED <<table, sema, pool, closed, ctl, data, inbox, opener, dialed, rd, wr, put, got>>

Undecipherable(e) ==
  /\ closed[e] = "open" /\ gap[Other(e)] /\ CloseEnd(e, "crypto") /\ UNCHANGED <<wire, spent>>

Shutdown ==
  /\ closed["desktop"] = "open" /\ spent.faults < MaxFaults
  /\ spent' = [spent EXCEPT !.faults = @ + 1]
  /\ CloseEnd("desktop", "shutdown") /\ UNCHANGED wire

\* The other end is gone: the link closes, or its silence is noticed.
PeerLeft(e) ==
  /\ closed[e] = "open" /\ closed[Other(e)] # "open"
  /\ CloseEnd(e, "link") /\ UNCHANGED <<wire, spent>>

-----------------------------------------------------------------------------
MuxInit ==
  /\ table = [e \in Ends |-> [s \in Streams |-> Absent]]
  /\ sema = [e \in Ends |-> [s \in Streams |-> 0]]
  /\ pool = [e \in Ends |-> ConnCredit] /\ closed = [e \in Ends |-> "open"]
  /\ ctl = [e \in Ends |-> <<>>] /\ data = [e \in Ends |-> <<>>]
  /\ wire = [e \in Ends |-> <<>>] /\ gap = [e \in Ends |-> FALSE]
  /\ inbox = [e \in Ends |-> [s \in Streams |-> <<>>]]
  /\ opener = [s \in Streams |-> "idle"] /\ dialed = [s \in Streams |-> "none"]
  /\ rd = [e \in Ends |-> [s \in Streams |-> "off"]]
  /\ wr = [e \in Ends |-> [s \in Streams |-> "off"]]
  /\ put = [e \in Ends |-> [s \in Streams |-> 0]] /\ got = put
  /\ spent = [fins |-> 0, faults |-> 0]

Reading(e, s) == ReadData(e, s) \/ ReadFin(e, s) \/ ReadError(e, s)
Writing(e, s) == TakeStreamCredit(e, s) \/ PutData(e, s) \/ PutFin(e, s)

MuxNext ==
  \/ \E e \in Ends : Write(e) \/ Receive(e) \/ Lose(e) \/ Undecipherable(e) \/ PeerLeft(e)
  \/ \E s \in Streams : Reserve(s) \/ SendOpen(s) \/ Accept(s) \/ Refuse(s)
  \/ \E e \in Ends, s \in Streams :
       Reading(e, s) \/ SocketTakes(e, s) \/ SocketBreaks(e, s)
       \/ SocketSays(e, s) \/ Writing(e, s) \/ TakeConnCredit(e, s) \/ Finish(e, s)
  \/ Shutdown

-----------------------------------------------------------------------------
(* Properties. *)

Kinds == {"Open", "Opened", "OpenFailed", "Data", "WindowUpdate", "Fin", "Reset"}

\* Type invariant of the two ends of a session (mux.rs:84-124, bridge.rs).
TypeMux ==
  /\ \A e \in Ends, s \in Streams :
       /\ table[e][s].outstanding \in Nat /\ table[e][s].unread \in 0..StreamCredit
       /\ sema[e][s] \in -1..StreamCredit
       /\ rd[e][s] \in {"off", "reading", "writing", "ended", "over"}
       /\ wr[e][s] \in {"off", "idle", "stream", "conn", "data", "fin", "ended", "over"}
       /\ put[e][s] \in 0..Chunks[e] /\ got[e][s] \in 0..Chunks[Other(e)]
  /\ \A e \in Ends : /\ pool[e] \in 0..ConnCredit /\ Len(data[e]) <= DataCap
                     /\ closed[e] \in {"open", "protocol", "reused", "crypto", "link", "shutdown"}
                     /\ \A f \in ToSet(ctl[e]) \cup ToSet(data[e]) : f.kind \in Kinds
  /\ opener \in [Streams -> {"idle", "reserved", "waiting", "open", "failed"}]
  /\ dialed \in [Streams -> {"none", "dialing", "done", "refused"}]

\* The permits that streams of e have outstanding, each told apart from the others.
Owed(e) == UNION {{s} \X (1..table[e][s].outstanding) : s \in Streams}

\* While the session lasts, what the connection's semaphore lacks is outstanding on
\* some stream: a stream that is reset, refused or finished gives back all it took,
\* once (remove in mux.rs:132-136, WindowUpdate in pump.rs:189-200).
ConnectionCreditWhole ==
  \A e \in Ends : closed[e] = "open" =>
    pool[e] + Cardinality(Owed(e)) = ConnCredit

\* Two honest ends never accuse each other of a credit overrun, of credit beyond
\* what was sent or of an answer nobody waits for, whatever overtakes what
\* (CloseReason::Protocol, mux.rs:68).
NoFalseAccusation == \A e \in Ends : closed[e] # "protocol"

\* A reader that is told the orderly end of a stream has read everything the peer's
\* bridge wrote before it (read in mux.rs:322, the Fin event in pump.rs:201).
OrderlyEndIsComplete ==
  \A e \in Ends, s \in Streams : rd[e][s] = "ended" => got[e][s] = put[Other(e)][s]

\* A stalled client stops its own stream only: every other writer is served, or its
\* stream or bridge ends (mux.rs:7-9, backpressure in write_all).  It needs credit
\* for the connection beyond what the stalled streams hold.
WriterServed ==
  \A e \in Ends, s \in Streams \ Stalled :
    wr[e][s] \in {"stream", "conn", "data"} ~> wr[e][s] \in {"idle", "over"} \/ ~ Live(e, s)

\* Tasks are polled; channels and semaphores serve their waiters in turn.  Sockets
\* take what they are sent, except those of stalled clients.
MuxFairness ==
  /\ \A e \in Ends : /\ WF_muxVars(Write(e)) /\ WF_muxVars(Receive(e))
                     /\ WF_muxVars(Undecipherable(e) \/ PeerLeft(e))
  /\ \A s \in Streams : WF_muxVars(SendOpen(s)) /\ WF_muxVars(Accept(s) \/ Refuse(s))
  /\ \A e \in Ends, s \in Streams :
       /\ WF_muxVars(Reading(e, s))
       /\ SF_muxVars(Writing(e, s)) /\ SF_muxVars(TakeConnCredit(e, s))
       /\ (e = "desktop" /\ s \in Stalled) \/ WF_muxVars(SocketTakes(e, s))

MuxSafe == MuxInit /\ [][MuxNext]_muxVars
MuxSpec == MuxSafe /\ MuxFairness
=============================================================================
