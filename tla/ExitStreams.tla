---------------------------- MODULE ExitStreams ----------------------------
(***************************************************************************)
(* The exit node's side of the streams: SocksHandler and StreamConnection  *)
(* of exitnode/socks.py, driven by the receive loop of exitnode/server.py. *)
(*                                                                         *)
(* The coroutines are the receive loop, which handles one frame after the  *)
(* other; one task per OPEN frame; one read loop per connected stream; and *)
(* close_all, a task of its own when the client disconnects, which holds   *)
(* the lock.  Nothing else suspends while it holds it.                     *)
(*                                                                         *)
(* A stream is named by the OPEN that asked for it, <<session, id>>: the   *)
(* frames and the handler's tables only know the id, and every client      *)
(* program numbers its streams from 1 (client/local_proxy.py:353).  A      *)
(* session is a tunnel, from PEER_CONNECTING to its end.  The client is    *)
(* modelled by what it sends; a frame is sent when it is handled.          *)
(***************************************************************************)
EXTENDS Naturals, Sequences

CONSTANTS
    Ids,         \* stream ids
    MaxSession,  \* bound: sessions, one after the other
    Opens,       \* bound: the streams a client of some session may ask for
    MaxData,     \* bound: DATA frames a client sends on a stream
    MaxReply,    \* bound: DATA frames a destination sends on a stream
    MaxPending,  \* MAX_PENDING_BYTES, in DATA frames
    Eager,       \* the streams whose client does not wait for the answer to OPEN
    Handovers,   \* bound: the ways in which one session follows another
    Stuck,       \* the streams whose destination never reads
    None

ASSUME StreamsAssumption ==
    /\ MaxSession \in Nat \ {0} /\ Opens \subseteq (1 .. MaxSession) \X Ids
    /\ MaxData \in Nat /\ MaxReply \in Nat /\ MaxPending \in Nat
    /\ Eager \subseteq Opens
    /\ Handovers \subseteq {"quiet", "opening", "websocket"}
    /\ Stuck \subseteq Opens
    /\ None \notin Opens \cup Ids \cup {"drain", "stop"} \X Opens \cup {"close"} \X Ids
    /\ \A S \in SUBSET Opens : None # S

VARIABLES
    session,    \* the client the tunnel leads to
    client,     \* what the client thinks of its stream
    sent,       \* how many DATA frames it has sent on it
    streams,    \* _streams: id -> the stream with that id
    opening,    \* the keys of _opening
    held,       \* the values of _opening: DATA that waits for the connection
    aborted,    \* _aborted: ids closed while they were opening
    task,       \* the open task
    left,       \* its local "pending": DATA still to be flushed
    doomed,     \* its local "aborted"
    conn,       \* the stream's socket and read loop
    got,        \* what was written to the destination
    told,       \* the frames sent to the client for a stream
    recv,       \* what the receive loop awaits: None, or <<why, stream or id>>
    closing,    \* close_all: the streams it has still to stop; None: not running
    closer      \* close_all: the stream whose stop it awaits

clientVars == <<session, client, sent>>
openVars == <<opening, held, aborted>>
taskVars == <<task, left, doomed>>
connVars == <<conn, got, told>>
closeVars == <<closing, closer>>
vars == <<clientVars, streams, openVars, taskVars, connVars, recv, closeVars>>

Chunks == Opens \X (1 .. MaxData)

TypeOK ==
    /\ session \in 1 .. MaxSession
    /\ client \in [Opens -> {"idle", "asked", "up", "ended"}]
    /\ sent \in [Opens -> 0 .. MaxData]
    /\ streams \in [Ids -> Opens \cup {None}]
    /\ opening \in SUBSET Ids
    /\ held \in [Ids -> Seq(Chunks)]
    /\ \A i \in Ids : Len(held[i]) <= MaxPending /\ (i \notin opening => held[i] = <<>>)
    /\ aborted \subseteq opening
    /\ task \in [Opens -> {"none", "connecting", "waiting", "flushing", "stopping", "done"}]
    /\ left \in [Opens -> Seq(Chunks)]
    /\ doomed \in SUBSET Opens
    /\ conn \in [Opens -> {"none", "started", "reading", "cancelled", "closed"}]
    /\ got \in [Opens -> Seq(Chunks)]
    /\ told \in [Opens -> Seq({"ok", "fail", "data", "close"})]
    /\ recv \in {None} \cup {"drain", "stop"} \X Opens \cup {"close"} \X Ids
    /\ closing = None \/ closing \in SUBSET Opens
    /\ closer \in Opens \cup {None}

Init ==
    /\ session = 1
    /\ client = [o \in Opens |-> "idle"]
    /\ sent = [o \in Opens |-> 0]
    /\ streams = [i \in Ids |-> None]
    /\ opening = {} /\ aborted = {} /\ doomed = {}
    /\ held = [i \in Ids |-> <<>>]
    /\ task = [o \in Opens |-> "none"]
    /\ left = [o \in Opens |-> <<>>]
    /\ conn = [o \in Opens |-> "none"]
    /\ got = [o \in Opens |-> <<>>]
    /\ told = [o \in Opens |-> <<>>]
    /\ recv = None
    /\ closing = None /\ closer = None

-----------------------------------------------------------------------------
(* StreamConnection *)

\* write: nothing reaches a destination whose socket is closed.
Written(o, chunks) ==
    IF conn[o] = "closed" THEN got ELSE [got EXCEPT ![o] = @ \o chunks]

\* drain or wait_closed returns: the destination has read what it was sent.
Drains(o) == o \notin Stuck \/ got[o] = <<>>

\* The write of o has failed, and write pops the entry of that id.
PoppedIfLost(o) ==
    {streams} \cup IF conn[o] = "closed" THEN {[streams EXCEPT ![o[2]] = None]} ELSE {}

\* Mutant: stop awaits the read loop without cancelling it.
Stopping_NoCancel(o) == {conn}

\* stop cancels the read loop; one that never ran has no finally block to run.
Stopping(o) ==
    CASE conn[o] = "started" -> {[conn EXCEPT ![o] = how] : how \in {"closed", "cancelled"}}
      [] conn[o] = "reading" -> {[conn EXCEPT ![o] = "cancelled"]}
      [] OTHER -> {conn}

\* ... and then waits for the socket to be closed.
Stopped(o) == conn[o] = "closed" /\ Drains(o)

Tell(o, what) == told' = [told EXCEPT ![o] = Append(@, what)]

ReadData(o) ==
    /\ conn[o] \in {"started", "reading"}
    /\ Len(told[o]) <= MaxReply
    /\ Tell(o, "data")
    /\ conn' = [conn EXCEPT ![o] = "reading"]
    /\ UNCHANGED <<clientVars, streams, openVars, taskVars, got, recv, closeVars>>

\* The destination closes or fails, or the loop was cancelled.  on_close pops
\* the id, whichever stream it names by then.
ReadLoopEnds(o) ==
    /\ conn[o] \in {"started", "reading", "cancelled"}
    /\ conn' = [conn EXCEPT ![o] = "closed"]
    /\ Tell(o, "close")
    /\ streams' = [streams EXCEPT ![o[2]] = None]
    /\ UNCHANGED <<clientVars, openVars, taskVars, got, recv, closeVars>>

-----------------------------------------------------------------------------
(* The open task *)

\* An OPEN response goes to the client that is there now, which only sees the id.
Answer(o, reply) ==
    LET asker == <<session, o[2]>>
    IN  /\ Tell(o, reply)
        /\ client' = IF asker \in Opens /\ client[asker] = "asked"
                     THEN [client EXCEPT ![asker] = IF reply = "ok" THEN "up" ELSE "ended"]
                     ELSE client
        /\ UNCHANGED <<session, sent>>

\* Mutants: the stream stays marked as aborted, or keeps its _opening entry.
Discard_KeepsAborted(i) ==
    /\ opening' = opening \ {i}
    /\ held' = [held EXCEPT ![i] = <<>>]
    /\ UNCHANGED aborted
Discard_KeepsOpening(i) == UNCHANGED <<opening, held, aborted>>

\* _discard_pending, and the pops of _flush_pending.
Discard(i) ==
    /\ opening' = opening \ {i}
    /\ held' = [held EXCEPT ![i] = <<>>]
    /\ aborted' = aborted \ {i}

\* A timeout, an OSError or an OPEN that does not decode.
ConnectFails(o) ==
    /\ task[o] = "connecting"
    /\ Discard(o[2])
    /\ Answer(o, "fail")
    /\ task' = [task EXCEPT ![o] = "done"]
    /\ UNCHANGED <<streams, left, doomed, conn, got, recv, closeVars>>

\* The connection is made while close_all holds the lock.
ConnectedWaits(o) ==
    /\ task[o] = "connecting" /\ closing # None
    /\ task' = [task EXCEPT ![o] = "waiting"]
    /\ UNCHANGED <<clientVars, streams, openVars, left, doomed, connVars, recv, closeVars>>

\* From the entry in the table to the first DATA flushed nothing suspends: the
\* read loop is created, the client answered, the held DATA taken.
Insert(o) ==
    /\ task[o] \in {"connecting", "waiting"} /\ closing = None
    /\ streams' = [streams EXCEPT ![o[2]] = o]
    /\ conn' = [conn EXCEPT ![o] = "started"]
    /\ Answer(o, "ok")
    /\ Discard(o[2])
    /\ doomed' = IF o[2] \in aborted THEN doomed \cup {o} ELSE doomed
    /\ IF held[o[2]] = <<>>
       THEN UNCHANGED <<got, left>>
       ELSE /\ got' = [got EXCEPT ![o] = Append(@, Head(held[o[2]]))]
            /\ left' = [left EXCEPT ![o] = Tail(held[o[2]])]
    /\ task' = [task EXCEPT ![o] = "flushing"]
    /\ UNCHANGED <<recv, closeVars>>

\* The write before has drained; the next held DATA is written.
Flush(o) ==
    /\ task[o] = "flushing" /\ left[o] # <<>> /\ Drains(o)
    /\ got' = Written(o, <<Head(left[o])>>)
    /\ streams' \in PoppedIfLost(o)
    /\ left' = [left EXCEPT ![o] = Tail(@)]
    /\ UNCHANGED <<clientVars, openVars, task, doomed, conn, told, recv, closeVars>>

FlushEnds(o) ==
    /\ task[o] = "flushing" /\ left[o] = <<>> /\ Drains(o)
    /\ IF o \in doomed
       THEN /\ closing = None
            /\ streams' = [streams EXCEPT ![o[2]] = None]
            /\ conn' \in Stopping(o)
            /\ task' = [task EXCEPT ![o] = "stopping"]
       ELSE /\ streams' \in PoppedIfLost(o)
            /\ task' = [task EXCEPT ![o] = "done"]
            /\ UNCHANGED conn
    /\ UNCHANGED <<clientVars, openVars, left, doomed, got, told, recv, closeVars>>

AbortEnds(o) ==
    /\ task[o] = "stopping" /\ Stopped(o)
    /\ task' = [task EXCEPT ![o] = "done"]
    /\ UNCHANGED <<clientVars, streams, openVars, left, doomed, connVars, recv, closeVars>>

-----------------------------------------------------------------------------
(* handle_frame, in the receive loop *)

\* The receive loop is free and the client of this session sends on stream o.
May(o, states) == recv = None /\ o[1] = session /\ client[o] \in states

\* The shipped client waits for the answer (client/local_proxy.py:102-108); the
\* handler is written, and tested, for clients that do not.
MaySend(o) == May(o, IF o \in Eager THEN {"asked", "up"} ELSE {"up"})

HandleOpen(o) ==
    /\ May(o, {"idle"})
    /\ client' = [client EXCEPT ![o] = "asked"]
    /\ opening' = opening \cup {o[2]}
    /\ task' = [task EXCEPT ![o] = "connecting"]
    /\ UNCHANGED <<session, sent, streams, held, aborted, left, doomed, connVars, recv, closeVars>>

HandleData(o) ==
    LET i == o[2]
        chunk == <<o, sent[o] + 1>>
    IN  /\ MaySend(o) /\ sent[o] < MaxData
        /\ sent' = [sent EXCEPT ![o] = @ + 1]
        /\ \/ /\ i \in opening
              /\ held' = IF Len(held[i]) < MaxPending
                         THEN [held EXCEPT ![i] = Append(@, chunk)] ELSE held
              /\ UNCHANGED <<got, recv>>
           \/ /\ i \notin opening /\ streams[i] # None
              /\ got' = Written(streams[i], <<chunk>>)
              /\ recv' = <<"drain", streams[i]>>
              /\ UNCHANGED held
           \/ /\ i \notin opening /\ streams[i] = None
              /\ UNCHANGED <<held, got, recv>>
        /\ UNCHANGED <<session, client, streams, opening, aborted, taskVars, conn, told, closeVars>>

DataDrained(o) ==
    /\ recv = <<"drain", o>> /\ Drains(o)
    /\ streams' \in PoppedIfLost(o)
    /\ recv' = None
    /\ UNCHANGED <<clientVars, openVars, taskVars, connVars, closeVars>>

\* Mutant: a CLOSE for a stream that is opening is ignored.
HandleClose_Ignores(o) ==
    /\ MaySend(o)
    /\ client' = [client EXCEPT ![o] = "ended"]
    /\ recv' = IF o[2] \in opening THEN None ELSE <<"close", o[2]>>
    /\ UNCHANGED <<session, sent, streams, openVars, taskVars, connVars, closeVars>>

\* A CLOSE for a stream that is opening is left to its open task.
HandleClose(o) ==
    /\ MaySend(o)
    /\ client' = [client EXCEPT ![o] = "ended"]
    /\ IF o[2] \in opening
       THEN aborted' = aborted \cup {o[2]} /\ UNCHANGED recv
       ELSE recv' = <<"close", o[2]>> /\ UNCHANGED aborted
    /\ UNCHANGED <<session, sent, streams, opening, held, taskVars, connVars, closeVars>>

\* Mutant: _handle_close forgets the stream and leaves its socket open.
CloseStream_OnlyForgets(i) ==
    /\ recv = <<"close", i>> /\ closing = None
    /\ streams' = [streams EXCEPT ![i] = None]
    /\ recv' = None
    /\ UNCHANGED <<clientVars, openVars, taskVars, connVars, closeVars>>

\* _handle_close has the lock.
CloseStream(i) ==
    /\ recv = <<"close", i>> /\ closing = None
    /\ streams' = [streams EXCEPT ![i] = None]
    /\ IF streams[i] = None
       THEN recv' = None /\ UNCHANGED conn
       ELSE recv' = <<"stop", streams[i]>> /\ conn' \in Stopping(streams[i])
    /\ UNCHANGED <<clientVars, openVars, taskVars, got, told, closeVars>>

CloseEnds(o) ==
    /\ recv = <<"stop", o>> /\ Stopped(o)
    /\ recv' = None
    /\ UNCHANGED <<clientVars, streams, openVars, taskVars, connVars, closeVars>>

-----------------------------------------------------------------------------
(* One session follows another.  Bound: not while close_all is running. *)

Quiet == recv = None /\ \A o \in Opens : task[o] \in {"none", "done"}

NextSession == session < MaxSession /\ closing = None /\ session' = session + 1

\* PEER_DISCONNECTED: close_all begins before a frame of the next client can come.
ClientDisconnects ==
    /\ NextSession
    /\ "opening" \in Handovers \/ ("quiet" \in Handovers /\ Quiet)
    /\ closing' = {streams[i] : i \in Ids} \ {None}
    /\ UNCHANGED <<client, sent, streams, openVars, taskVars, connVars, recv, closer>>

\* The exit node's websocket drops and is made again: nothing is closed.
Reconnects ==
    /\ NextSession
    /\ "websocket" \in Handovers \/ ("quiet" \in Handovers /\ Quiet /\ streams = [i \in Ids |-> None])
    /\ UNCHANGED <<client, sent, streams, openVars, taskVars, connVars, recv, closeVars>>

CloseAllStops(o) ==
    /\ closing # None /\ closer = None /\ o \in closing
    /\ closing' = closing \ {o}
    /\ closer' = o
    /\ conn' \in Stopping(o)
    /\ UNCHANGED <<clientVars, streams, openVars, taskVars, got, told, recv>>

CloseAllStopped(o) ==
    /\ closer = o /\ Stopped(o)
    /\ closer' = None
    /\ UNCHANGED <<clientVars, streams, openVars, taskVars, connVars, recv, closing>>

CloseAllEnds ==
    /\ closing = {} /\ closer = None
    /\ closing' = None
    /\ streams' = [i \in Ids |-> None]
    /\ UNCHANGED <<clientVars, openVars, taskVars, connVars, recv, closer>>

-----------------------------------------------------------------------------
OpenTask(o) ==
    \/ ConnectFails(o) \/ ConnectedWaits(o) \/ Insert(o)
    \/ Flush(o) \/ FlushEnds(o) \/ AbortEnds(o)

RecvLoop ==
    \/ \E o \in Opens : DataDrained(o) \/ CloseEnds(o)
    \/ \E i \in Ids : CloseStream(i)

CloseAll == CloseAllEnds \/ \E o \in Opens : CloseAllStops(o) \/ CloseAllStopped(o)

ClientSends == \E o \in Opens : HandleOpen(o) \/ HandleData(o) \/ HandleClose(o)

Next ==
    \/ \E o \in Opens : OpenTask(o) \/ ReadData(o) \/ ReadLoopEnds(o)
    \/ RecvLoop \/ CloseAll \/ ClientSends
    \/ ClientDisconnects \/ Reconnects

Spec == Init /\ [][Next]_vars

\* Connecting ends within CONNECT_TIMEOUT_SECONDS, a cancelled read loop runs its
\* finally block, and a coroutine goes on once what it awaits is there.
Fairness ==
    /\ \A o \in Opens :
        /\ WF_vars(OpenTask(o))
        /\ WF_vars(conn[o] = "cancelled" /\ ReadLoopEnds(o))
    /\ WF_vars(RecvLoop)
    /\ WF_vars(CloseAll)

FairSpec == Spec /\ Fairness

-----------------------------------------------------------------------------
(* What the exit node promises *)

\* A destination gets what the client sent on its stream, in the order it was
\* sent, and all of it while its socket is open, however opens, frames and
\* close_all interleave (exitnode/socks.py:138-141).
Delivered(o) ==
    /\ \A n \in 1 .. Len(got[o]) : got[o][n] = <<o, n>>
    /\ conn[o] \in {"started", "reading"} /\ left[o] = <<>> => Len(got[o]) = sent[o]

\* An open socket is always one the table leads to, so that a CLOSE or close_all
\* will find it: a stream leaves the table only as its socket is being closed
\* (exitnode/socks.py:108-112, "a long session leaks descriptors").
NoLeak ==
    \A o \in Opens : conn[o] \in {"started", "reading"} => streams[o[2]] = o

\* The client sees one answer, then data, then at most one CLOSE, though the read
\* loop runs beside the open task; and it is told when its stream's socket has
\* been closed (exitnode/socks.py:114-120).
ToldInOrder ==
    \A o \in Opens :
        /\ \A n \in DOMAIN told[o] :
            /\ n = 1 <=> told[o][n] \in {"ok", "fail"}
            /\ told[o][n] \in {"fail", "close"} => n = Len(told[o])
        /\ conn[o] = "closed" /\ client[o] = "up" /\ o[1] = session
            => told[o][Len(told[o])] = "close"

\* Both directions of every stream whose client waits for its answer.
InOrder == (\A o \in Opens \ Eager : Delivered(o)) /\ ToldInOrder

\* A stream that its client has closed, even before it was open, ends: no task,
\* no table entry, no socket is left (exitnode/socks.py:170, 190).
ClosedStreamEnds ==
    \A o \in Opens : client[o] = "ended"
        ~> (/\ task[o] \in {"none", "done"} /\ conn[o] \in {"none", "closed"}
            /\ streams[o[2]] # o /\ o[2] \notin opening)

\* The receive loop, which serves every stream, always comes back for the next
\* frame (tests/test_head_of_line.py:1, "The tunnel must not stall when one
\* destination is slow").
NeverStalls == []<>(recv = None)

\* What is not true of every handover: that the data of one client goes only to
\* destinations that this client has asked for.
OwnDestinationOnly ==
    \A o \in Opens : \A n \in DOMAIN got[o] : got[o][n][1][1] = o[1]
=============================================================================
