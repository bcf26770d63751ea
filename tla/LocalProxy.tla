----------------------------- MODULE LocalProxy -----------------------------
(***************************************************************************)
(* The client's side of the streams: LocalProxy and LocalProxyConnection   *)
(* of client/local_proxy.py, driven by the receive loop of client.py.      *)
(*                                                                         *)
(* The coroutines are the receive loop, which handles one frame of the     *)
(* exit node after the other; and for each connection of an application    *)
(* its handler (the SOCKS5 handshake), its read loop and its write loop.   *)
(* A stream id is never used twice, so a stream is its connection.         *)
(*                                                                         *)
(* The exit node is modelled by the frames it may send for a stream: one   *)
(* answer, DATA, one CLOSE (ExitStreams!ToldInOrder).                      *)
(***************************************************************************)
EXTENDS Naturals, Sequences

CONSTANTS
    Conns,     \* the applications' connections
    MaxWrite,  \* maxsize of _write_queue
    MaxData,   \* bound: DATA frames of the exit node for one stream
    MaxSend,   \* bound: DATA frames of an application
    Stuck,     \* the connections whose application has stopped reading
    None

\* What the receive loop may be suspended at.
Awaits == {"answer", "refuse", "reader", "writer", "socket"} \X Conns

ASSUME LocalAssumption ==
    /\ MaxWrite \in Nat \ {0} /\ MaxData \in Nat /\ MaxSend \in Nat
    /\ Stuck \subseteq Conns
    /\ None \notin Awaits

VARIABLES
    handler,    \* _handle_connection
    table,      \* _connections
    connected,  \* _connected
    reader,     \* _read_task
    writer,     \* _write_task
    queue,      \* _write_queue: numbers of DATA frames
    socket,     \* the application's socket: "closing" once writer.close() was called
    wrote,      \* the DATA frames written to it
    sent,       \* the frames sent to the exit node for this stream
    exit,       \* what the exit node has sent: its answer, then CLOSE
    data,       \* how many DATA frames it has sent
    recv,       \* what the receive loop awaits: None, or <<where, connection>>
    lost        \* history: connections that fail while they are being answered, or
                \* are closed before their read loop begins

connVars == <<handler, table, connected>>
loopVars == <<reader, writer, queue, socket, wrote>>
peerVars == <<sent, exit, data>>
vars == <<connVars, loopVars, peerVars, recv, lost>>

TypeOK ==
    /\ handler \in [Conns -> {"none", "handshake", "failing", "done"}]
    /\ table \in SUBSET Conns
    /\ connected \in [Conns -> BOOLEAN]
    /\ reader \in [Conns -> {"none", "created", "running", "cancelled", "done"}]
    /\ writer \in [Conns -> {"none", "waiting", "draining", "cancelled", "done"}]
    /\ queue \in [Conns -> Seq(1 .. MaxData)]
    /\ \A c \in Conns : Len(queue[c]) <= MaxWrite
    /\ socket \in [Conns -> {"open", "closing", "closed"}]
    /\ wrote \in [Conns -> Seq(1 .. MaxData)]
    /\ sent \in [Conns -> Seq({"open", "data", "close"})]
    /\ exit \in [Conns -> {"silent", "ok", "fail", "close"}]
    /\ data \in [Conns -> 0 .. MaxData]
    /\ recv \in {None} \cup Awaits
    /\ lost \subseteq Conns

Init ==
    /\ handler = [c \in Conns |-> "none"]
    /\ table = {} /\ lost = {}
    /\ connected = [c \in Conns |-> FALSE]
    /\ reader = [c \in Conns |-> "none"]
    /\ writer = [c \in Conns |-> "none"]
    /\ queue = [c \in Conns |-> <<>>]
    /\ socket = [c \in Conns |-> "open"]
    /\ wrote = [c \in Conns |-> <<>>]
    /\ sent = [c \in Conns |-> <<>>]
    /\ exit = [c \in Conns |-> "silent"]
    /\ data = [c \in Conns |-> 0]
    /\ recv = None

-----------------------------------------------------------------------------
(* Helpers *)

Send(c, what) == sent' = [sent EXCEPT ![c] = Append(@, what)]

\* writer.close(): what was written is still flushed.
CloseSocket(c) == socket' = [socket EXCEPT ![c] = IF @ = "open" THEN "closing" ELSE @]

\* The application has read what was written to it.
Drains(c) == c \notin Stuck \/ wrote[c] = <<>>

\* Mutant: the read loop is awaited without being cancelled.
CancelReader_Not(c) == UNCHANGED reader

\* A read loop that has not begun to run has no finally block to run either.
CancelReader(c) ==
    reader' = [reader EXCEPT ![c] = CASE @ = "running" -> "cancelled"
                                      [] @ = "created" -> "done"
                                      [] OTHER -> @]

Cancelled(task) == IF task \in {"waiting", "draining"} THEN "cancelled" ELSE task

\* The transport is closed once it has been flushed.
SocketCloses(c) ==
    /\ socket[c] = "closing" /\ Drains(c)
    /\ socket' = [socket EXCEPT ![c] = "closed"]
    /\ UNCHANGED <<connVars, reader, writer, queue, wrote, peerVars, recv, lost>>

-----------------------------------------------------------------------------
(* _handle_connection *)

Accept(c) ==
    /\ handler[c] = "none"
    /\ handler' = [handler EXCEPT ![c] = "handshake"]
    /\ table' = table \cup {c}
    /\ UNCHANGED <<connected, loopVars, peerVars, recv, lost>>

\* OPEN is sent and the handler returns; the connection is left to the loops.
HandshakeSucceeds(c) ==
    /\ handler[c] = "handshake"
    /\ Send(c, "open")
    /\ handler' = [handler EXCEPT ![c] = "done"]
    /\ UNCHANGED <<table, connected, loopVars, exit, data, recv, lost>>

\* Not SOCKS5, no acceptable method, not CONNECT, or the application went away.
HandshakeFails(c) ==
    /\ handler[c] = "handshake"
    /\ table' = table \ {c}
    /\ CloseSocket(c)
    /\ handler' = [handler EXCEPT ![c] = "failing"]
    /\ UNCHANGED <<connected, reader, writer, queue, wrote, peerVars, recv, lost>>

HandshakeClosed(c) ==
    /\ handler[c] = "failing" /\ socket[c] = "closed"
    /\ handler' = [handler EXCEPT ![c] = "done"]
    /\ UNCHANGED <<table, connected, loopVars, peerVars, recv, lost>>

-----------------------------------------------------------------------------
(* The receive loop: handle_frame *)

\* The receive loop is free, and the exit node knows of c.  A frame for a
\* connection that is not in the table is dropped.
MaySend(c) == recv = None /\ Len(sent[c]) > 0

OpenResponse(c, reply) ==
    /\ MaySend(c) /\ exit[c] = "silent"
    /\ exit' = [exit EXCEPT ![c] = reply]
    /\ IF c \notin table
       THEN UNCHANGED <<connected, recv>>
       ELSE IF reply = "ok"
       THEN recv' = <<"answer", c>> /\ connected' = [connected EXCEPT ![c] = TRUE]
       ELSE recv' = <<"refuse", c>> /\ UNCHANGED connected
    /\ UNCHANGED <<handler, table, loopVars, sent, data, lost>>

\* The response has been written: start pumping.
Answered(c) ==
    /\ recv = <<"answer", c>>
    /\ recv' = None
    /\ reader' = [reader EXCEPT ![c] = "created"]
    /\ writer' = [writer EXCEPT ![c] = "waiting"]
    /\ UNCHANGED <<connVars, queue, socket, wrote, peerVars, lost>>

Refused(c) ==
    /\ recv = <<"refuse", c>>
    /\ recv' = <<"socket", c>>
    /\ CloseSocket(c)
    /\ UNCHANGED <<connVars, reader, writer, queue, wrote, peerVars, lost>>

\* The application has reset its connection: the drain raises out of
\* handle_open_response, and the receive loop goes on with the next frame.
AnswerRaises(c) ==
    /\ recv \in {<<"answer", c>>, <<"refuse", c>>}
    /\ recv' = None
    /\ lost' = lost \cup {c}
    /\ socket' = [socket EXCEPT ![c] = "closed"]
    /\ UNCHANGED <<connVars, reader, writer, queue, wrote, peerVars>>

\* close: cancel the read loop and await it ...
BeginClose(c) ==
    IF reader[c] = "none"
    THEN recv' = <<"socket", c>> /\ CloseSocket(c) /\ UNCHANGED reader
    ELSE recv' = <<"reader", c>> /\ CancelReader(c) /\ UNCHANGED socket

\* ... the write loop too ...
ReaderAwaited(c) ==
    /\ recv = <<"reader", c>> /\ reader[c] = "done"
    /\ recv' = <<"writer", c>>
    /\ writer' = [writer EXCEPT ![c] = Cancelled(@)]
    /\ UNCHANGED <<connVars, reader, queue, socket, wrote, peerVars, lost>>

WriterAwaited(c) ==
    /\ recv = <<"writer", c>> /\ writer[c] = "done"
    /\ recv' = <<"socket", c>>
    /\ CloseSocket(c)
    /\ UNCHANGED <<connVars, reader, writer, queue, wrote, peerVars, lost>>

\* ... and the socket.
SocketAwaited(c) ==
    /\ recv = <<"socket", c>> /\ socket[c] = "closed"
    /\ recv' = None
    /\ table' = table \ {c}
    /\ UNCHANGED <<handler, connected, loopVars, peerVars, lost>>

\* Mutant: DATA that finds the queue full replaces what is queued.
Data_DropsOldest(c) ==
    /\ MaySend(c) /\ exit[c] = "ok" /\ data[c] < MaxData
    /\ data' = [data EXCEPT ![c] = @ + 1]
    /\ queue' = IF c \in table /\ connected[c]
                THEN [queue EXCEPT ![c] = Append(IF Len(@) = MaxWrite THEN Tail(@) ELSE @,
                                                 data[c] + 1)]
                ELSE queue
    /\ UNCHANGED <<connVars, reader, writer, socket, wrote, sent, exit, recv, lost>>

\* DATA is queued; a full queue closes the stream.  The receive loop does not yield
\* between frames that are there, so the queue may be full before the read loop
\* takes its first step: it is then cancelled and never does.
Data(c) ==
    /\ MaySend(c) /\ exit[c] = "ok" /\ data[c] < MaxData
    /\ data' = [data EXCEPT ![c] = @ + 1]
    /\ \/ /\ c \notin table \/ ~connected[c]
          /\ UNCHANGED <<queue, reader, socket, recv, lost>>
       \/ /\ c \in table /\ connected[c] /\ Len(queue[c]) < MaxWrite
          /\ queue' = [queue EXCEPT ![c] = Append(@, data[c] + 1)]
          /\ UNCHANGED <<reader, socket, recv, lost>>
       \/ /\ c \in table /\ connected[c] /\ Len(queue[c]) = MaxWrite
          /\ BeginClose(c)
          /\ lost' = IF reader[c] = "created" THEN lost \cup {c} ELSE lost
          /\ UNCHANGED queue
    /\ UNCHANGED <<connVars, writer, wrote, sent, exit>>

Close(c) ==
    /\ MaySend(c) /\ exit[c] = "ok"
    /\ exit' = [exit EXCEPT ![c] = "close"]
    /\ IF c \in table THEN BeginClose(c) ELSE UNCHANGED <<recv, reader, socket>>
    /\ UNCHANGED <<connVars, writer, queue, wrote, sent, data, lost>>

-----------------------------------------------------------------------------
(* The read loop and the write loop *)

ReaderBegins(c) ==
    /\ reader[c] = "created"
    /\ reader' = [reader EXCEPT ![c] = "running"]
    /\ UNCHANGED <<connVars, writer, queue, socket, wrote, peerVars, recv, lost>>

ReadData(c) ==
    /\ reader[c] = "running"
    /\ Len(sent[c]) <= MaxSend
    /\ Send(c, "data")
    /\ UNCHANGED <<connVars, loopVars, exit, data, recv, lost>>

\* Mutant: only a read loop that sees the end of the stream sends CLOSE.
ReadLoopEnds_NotIfCancelled(c) ==
    /\ reader[c] \in {"running", "cancelled"}
    /\ reader' = [reader EXCEPT ![c] = "done"]
    /\ IF reader[c] = "cancelled" THEN UNCHANGED sent ELSE Send(c, "close")
    /\ connected' = [connected EXCEPT ![c] = FALSE]
    /\ writer' = [writer EXCEPT ![c] = Cancelled(@)]
    /\ CloseSocket(c)
    /\ table' = table \ {c}
    /\ UNCHANGED <<handler, queue, wrote, exit, data, recv, lost>>

\* Mutant: the connection stays in the table.
ReadLoopEnds_StaysInTable(c) ==
    /\ reader[c] \in {"running", "cancelled"}
    /\ reader' = [reader EXCEPT ![c] = "done"]
    /\ connected' = [connected EXCEPT ![c] = FALSE]
    /\ writer' = [writer EXCEPT ![c] = Cancelled(@)]
    /\ CloseSocket(c)
    /\ Send(c, "close")
    /\ UNCHANGED <<handler, table, queue, wrote, exit, data, recv, lost>>

\* End of stream, error or cancellation: the finally block.
ReadLoopEnds(c) ==
    /\ reader[c] \in {"running", "cancelled"}
    /\ reader' = [reader EXCEPT ![c] = "done"]
    /\ connected' = [connected EXCEPT ![c] = FALSE]
    /\ writer' = [writer EXCEPT ![c] = Cancelled(@)]
    /\ CloseSocket(c)
    /\ Send(c, "close")
    /\ table' = table \ {c}
    /\ UNCHANGED <<handler, queue, wrote, exit, data, recv, lost>>

\* The write loop is created after the read loop, and begins after it.
WriteNext(c) ==
    /\ writer[c] = "waiting" /\ queue[c] # <<>> /\ reader[c] # "created"
    /\ wrote' = IF socket[c] = "closed" THEN wrote
                ELSE [wrote EXCEPT ![c] = Append(@, Head(queue[c]))]
    /\ queue' = [queue EXCEPT ![c] = Tail(@)]
    /\ writer' = [writer EXCEPT ![c] = "draining"]
    /\ UNCHANGED <<connVars, reader, socket, peerVars, recv, lost>>

WriteDrained(c) ==
    /\ writer[c] = "draining" /\ Drains(c)
    /\ writer' = [writer EXCEPT ![c] = "waiting"]
    /\ UNCHANGED <<connVars, reader, queue, socket, wrote, peerVars, recv, lost>>

\* The application has reset its connection.  close, called by the write loop,
\* cancels the read loop, whose finally block leaves it nothing more to do.
WriteRaises(c) ==
    /\ writer[c] = "draining"
    /\ CancelReader(c)
    /\ writer' = [writer EXCEPT ![c] = "done"]
    /\ socket' = [socket EXCEPT ![c] = "closed"]
    /\ UNCHANGED <<connVars, queue, wrote, peerVars, recv, lost>>

WriteLoopEnds(c) ==
    /\ writer[c] = "cancelled"
    /\ writer' = [writer EXCEPT ![c] = "done"]
    /\ UNCHANGED <<connVars, reader, queue, socket, wrote, peerVars, recv, lost>>

-----------------------------------------------------------------------------
Frame(c) == (\E reply \in {"ok", "fail"} : OpenResponse(c, reply)) \/ Data(c) \/ Close(c)

RecvLoop ==
    \E c \in Conns : Answered(c) \/ Refused(c) \/ AnswerRaises(c)
                     \/ ReaderAwaited(c) \/ WriterAwaited(c) \/ SocketAwaited(c)

WriteLoop(c) == WriteNext(c) \/ WriteDrained(c) \/ WriteRaises(c) \/ WriteLoopEnds(c)

Next ==
    \/ RecvLoop
    \/ \E c \in Conns :
        \/ Accept(c) \/ HandshakeSucceeds(c) \/ HandshakeFails(c) \/ HandshakeClosed(c)
        \/ Frame(c)
        \/ ReaderBegins(c) \/ ReadData(c) \/ ReadLoopEnds(c) \/ WriteLoop(c)
        \/ SocketCloses(c)

Spec == Init /\ [][Next]_vars

\* Coroutines go on once what they await is there; sockets close when flushed.
FairSpec ==
    /\ Spec
    /\ WF_vars(RecvLoop)
    /\ \A c \in Conns :
        /\ WF_vars(ReaderBegins(c))
        /\ WF_vars(WriteLoop(c))
        /\ WF_vars(reader[c] = "cancelled" /\ ReadLoopEnds(c))
        /\ WF_vars(SocketCloses(c))
        /\ WF_vars(HandshakeClosed(c))

-----------------------------------------------------------------------------
(* What the local proxy promises *)

\* For one stream the exit node sees OPEN, then DATA, then at most one CLOSE:
\* close and the read loop's finally block both run when a stream is closed,
\* called from three coroutines (client/local_proxy.py:145-159, 286-302).
ToldOnce ==
    \A c \in Conns : \A n \in DOMAIN sent[c] :
        /\ n = 1 <=> sent[c][n] = "open"
        /\ sent[c][n] = "close" => n = Len(sent[c])

\* A stream that the exit node holds open and the proxy has forgotten was closed
\* with a CLOSE, so that its destination is not kept open for ever -- unless its
\* application vanished while it was being answered, or its queue overflowed
\* before its read loop had begun.
ExitIsTold ==
    \A c \in Conns \ (table \cup lost) :
        exit[c] = "ok" => sent[c][Len(sent[c])] = "close"

\* So a stream that the exit node opened is closed there by one CLOSE.
ExitIsToldOnce == ToldOnce /\ ExitIsTold

\* The application gets the exit node's data in order and without a hole, also
\* when it reads slower than the data comes: overflow closes the stream
\* (client/local_proxy.py:62-63).
InOrder == \A c \in Conns : \A n \in DOMAIN wrote[c] : wrote[c][n] = n

\* A connection whose read loop has ended is in the table only while it is being
\* closed: it does not stay there, its frames taken and dropped.  (One whose read
\* loop was never made, because its answer could not be written, does.)
NoLeak ==
    \A c \in table : reader[c] = "done" => recv # None /\ recv[2] = c

\* When the exit node closes a stream, the application's connection is closed.
CloseReachesApplication ==
    \A c \in Conns : (exit[c] = "close") ~> (socket[c] = "closed" /\ c \notin table)

\* The receive loop, which serves every stream, always comes back for the next
\* frame.  It does if applications read; but not if one has stopped reading
\* (client/local_proxy.py:114-120, "lets one stalled application stall the whole
\* tunnel"), because closing its full queue awaits the flush of its socket.
NeverStalls == []<>(recv = None)

\* With applications that read, the receive loop moves and closes arrive.
LoopServesAll == NeverStalls /\ CloseReachesApplication

(* What is not true *)

\* Every stream that the exit node opened is closed there
\* (client/local_proxy.py:286-302): the finally block that sends CLOSE is that of the
\* read loop, and a connection may be closed without one, or before it runs.
EveryStreamIsClosed ==
    \A c \in Conns \ table : exit[c] = "ok" => sent[c][Len(sent[c])] = "close"
=============================================================================
