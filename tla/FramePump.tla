----------------------------- MODULE FramePump -----------------------------
(***************************************************************************)
(* The frame queues between the streams of a program and its websocket,    *)
(* the same in client/client.py and exitnode/server.py: _queue_frame and   *)
(* _send_loop on the way out, _handle_data_received and _recv_loop on the  *)
(* way in, and _clear_stale_queues, which every connection attempt begins  *)
(* with.  The streams know nothing of connections: they live on, and go on *)
(* queueing frames, while the tunnel drops and is made again.              *)
(*                                                                         *)
(* Frames are numbered in the order in which they are queued (outwards)    *)
(* and in which they arrive (inwards).  The send loop suspends at every    *)
(* send_data; the receive loop while it handles a frame.                   *)
(***************************************************************************)
EXTENDS Naturals, Sequences, SequencesExt

CONSTANTS
    IsClient,    \* the client's queues, or the exit node's
    MaxQueue,    \* maxsize of _send_queue and _recv_queue
    MaxPending,  \* how many frames _pending_queue takes
    MaxOut,      \* bound: frames queued
    MaxIn,       \* bound: frames that arrive
    MaxAttempts, \* bound: connection attempts
    None

ASSUME PumpAssumption ==
    /\ IsClient \in BOOLEAN
    /\ MaxQueue \in Nat \ {0} /\ MaxPending \in Nat \ {0}
    /\ MaxOut \in Nat /\ MaxIn \in Nat /\ MaxAttempts \in Nat
    /\ None \notin Nat

VARIABLES
    link,      \* the websocket: "down", "connecting", "open"; the client's also
               \* "tunnel" after CONNECTED, "left" after PEER_DISCONNECTED and
               \* "closed" while its tunnel id outlives the closed websocket
    began,     \* for each attempt so far, how many frames had been queued and had
               \* arrived when it began
    queued,    \* how many frames were queued
    sendQueue, \* _send_queue
    pending,   \* _pending_queue
    hand,      \* the frame _send_loop has taken and not finished with
    written,   \* has it been written to the websocket?
    full,      \* history: frames dropped because a queue was full
    wire,      \* history: what was written, <<attempt, frame>>
    arrived,   \* how many frames have arrived
    recvQueue, \* _recv_queue
    handling,  \* the frame _recv_loop is handling
    handled    \* history: the frames it has taken

linkVars == <<link, began>>
outVars == <<queued, sendQueue, pending, hand, written, full, wire>>
inVars == <<arrived, recvQueue, handling, handled>>
vars == <<linkVars, outVars, inVars>>

TypeOK ==
    /\ link \in {"down", "connecting", "open", "tunnel", "left", "closed"}
    /\ began \in Seq([out : 0 .. MaxOut, in : 0 .. MaxIn]) /\ Len(began) <= MaxAttempts
    /\ queued \in 0 .. MaxOut /\ arrived \in 0 .. MaxIn
    /\ sendQueue \in Seq(1 .. queued) /\ Len(sendQueue) <= MaxQueue
    /\ pending \in Seq(1 .. queued) /\ Len(pending) <= MaxPending
    /\ hand \in (1 .. queued) \cup {None} /\ written \in BOOLEAN
    /\ full \in SUBSET (1 .. queued)
    /\ wire \in Seq((1 .. Len(began)) \X (1 .. queued))
    /\ recvQueue \in Seq(1 .. arrived) /\ Len(recvQueue) <= MaxQueue
    /\ handling \in (1 .. arrived) \cup {None}
    /\ handled \in Seq(1 .. arrived)

Init ==
    /\ link = "down" /\ began = <<>>
    /\ queued = 0 /\ sendQueue = <<>> /\ pending = <<>>
    /\ hand = None /\ written = FALSE
    /\ full = {} /\ wire = <<>>
    /\ arrived = 0 /\ recvQueue = <<>> /\ handling = None /\ handled = <<>>

-----------------------------------------------------------------------------
(* The connection *)

\* is_connected: the client has a tunnel id, the exit node an open websocket.
IsConnected == link \in IF IsClient THEN {"tunnel", "closed"} ELSE {"open"}

WsOpen == link \in {"open", "tunnel", "left"}

\* Mutant: the frames of the disconnected time stay.
ClearStaleQueues_KeepPending == sendQueue' = <<>> /\ recvQueue' = <<>> /\ UNCHANGED pending
ClearStaleQueues == sendQueue' = <<>> /\ pending' = <<>> /\ recvQueue' = <<>>

\* _notify_status("connecting"), the first thing of an attempt.  A send that was
\* suspended when the websocket closed has failed during the sleep before it.
BeginAttempt ==
    /\ link = "down" /\ Len(began) < MaxAttempts
    /\ hand = None
    /\ link' = "connecting"
    /\ began' = Append(began, [out |-> queued, in |-> arrived])
    /\ ClearStaleQueues
    /\ UNCHANGED <<queued, hand, written, full, wire, arrived, handling, handled>>

LinkBecomes(from, to) ==
    /\ link \in from
    /\ link' = to
    /\ UNCHANGED <<began, outVars, inVars>>

WebsocketOpens == LinkBecomes({"connecting"}, "open")

\* CONNECTED and PEER_DISCONNECTED; after the latter the client keeps its websocket
\* and is never paired on it again.
TunnelOpens == IsClient /\ LinkBecomes({"open"}, "tunnel")
PeerLeaves == IsClient /\ LinkBecomes({"tunnel"}, "left")

\* The websocket of a tunnel closes; the tunnel id goes only after the heartbeat
\* task has been awaited.
TunnelCloses == IsClient /\ LinkBecomes({"tunnel"}, "closed")

\* The attempt fails, or the websocket closes (or has closed).
Drop == LinkBecomes({"connecting", "open", "left", "closed"}, "down")

-----------------------------------------------------------------------------
(* Outwards *)

\* _queue_frame: a frame that finds the queue full is dropped.
QueueFrame ==
    /\ queued < MaxOut
    /\ queued' = queued + 1
    /\ IF Len(sendQueue) < MaxQueue
       THEN sendQueue' = Append(sendQueue, queued + 1) /\ UNCHANGED full
       ELSE full' = full \cup {queued + 1} /\ UNCHANGED sendQueue
    /\ UNCHANGED <<linkVars, pending, hand, written, wire, inVars>>

\* send_data drops the frame without a word when the websocket is closed.
SendData(frame) ==
    wire' = IF WsOpen THEN Append(wire, <<Len(began), frame>>) ELSE wire

\* Mutant: the frame in hand goes before the pending ones.
SendNext_FrameFirst(frame) ==
    /\ SendData(frame)
    /\ written' = TRUE
    /\ UNCHANGED pending

\* Mutant: the pending frame that was put in last leaves first.
SendNext_NewestFirst(frame) ==
    IF pending # <<>>
    THEN /\ SendData(Last(pending))
         /\ pending' = Front(pending)
         /\ written' = FALSE
    ELSE /\ SendData(frame)
         /\ written' = TRUE
         /\ UNCHANGED pending

\* The next send_data of the loop: the pending frames go before the one in hand.
SendNext(frame) ==
    IF pending # <<>>
    THEN /\ SendData(Head(pending))
         /\ pending' = Tail(pending)
         /\ written' = FALSE
    ELSE /\ SendData(frame)
         /\ written' = TRUE
         /\ UNCHANGED pending

TakeConnected ==
    /\ hand = None /\ sendQueue # <<>> /\ IsConnected
    /\ hand' = Head(sendQueue)
    /\ sendQueue' = Tail(sendQueue)
    /\ SendNext(Head(sendQueue))
    /\ UNCHANGED <<linkVars, queued, full, inVars>>

\* Mutant: a frame that cannot be sent goes back to the end of the queue.
TakeDisconnected_PutsBack ==
    /\ hand = None /\ sendQueue # <<>> /\ ~IsConnected
    /\ sendQueue' = Append(Tail(sendQueue), Head(sendQueue))
    /\ UNCHANGED <<linkVars, queued, pending, hand, written, full, wire, inVars>>

\* Graceful degradation: the frame waits for the connection.
TakeDisconnected ==
    /\ hand = None /\ sendQueue # <<>> /\ ~IsConnected
    /\ sendQueue' = Tail(sendQueue)
    /\ IF Len(pending) < MaxPending
       THEN pending' = Append(pending, Head(sendQueue)) /\ UNCHANGED full
       ELSE full' = full \cup {Head(sendQueue)} /\ UNCHANGED pending
    /\ UNCHANGED <<linkVars, queued, hand, written, wire, inVars>>

\* send_data returns: the next one, or the loop comes round.
SendReturns ==
    /\ hand # None
    /\ IF written
       THEN hand' = None /\ written' = FALSE /\ UNCHANGED <<pending, wire>>
       ELSE SendNext(hand) /\ UNCHANGED hand
    /\ UNCHANGED <<linkVars, queued, sendQueue, full, inVars>>

\* send_data raises, because the websocket has closed: the frame in hand is gone.
SendRaises ==
    /\ hand # None /\ ~WsOpen
    /\ hand' = None /\ written' = FALSE
    /\ UNCHANGED <<linkVars, queued, sendQueue, pending, full, wire, inVars>>

-----------------------------------------------------------------------------
(* Inwards *)

HandleDataReceived ==
    /\ WsOpen /\ arrived < MaxIn
    /\ arrived' = arrived + 1
    /\ recvQueue' = IF Len(recvQueue) < MaxQueue
                    THEN Append(recvQueue, arrived + 1) ELSE recvQueue
    /\ UNCHANGED <<linkVars, outVars, handling, handled>>

Handle ==
    /\ handling = None /\ recvQueue # <<>>
    /\ handling' = Head(recvQueue)
    /\ handled' = Append(handled, Head(recvQueue))
    /\ recvQueue' = Tail(recvQueue)
    /\ UNCHANGED <<linkVars, outVars, arrived>>

HandleReturns ==
    /\ handling # None
    /\ handling' = None
    /\ UNCHANGED <<linkVars, outVars, arrived, recvQueue, handled>>

-----------------------------------------------------------------------------
SendLoop == TakeConnected \/ TakeDisconnected \/ SendReturns \/ SendRaises
RecvLoop == Handle \/ HandleReturns
Link == BeginAttempt \/ WebsocketOpens \/ TunnelOpens \/ PeerLeaves \/ TunnelCloses \/ Drop

Next == SendLoop \/ RecvLoop \/ Link \/ QueueFrame \/ HandleDataReceived

Spec == Init /\ [][Next]_vars

\* Both loops go on: a send that is suspended ends, if only because the
\* websocket's heartbeat fails.
FairSpec == Spec /\ WF_vars(SendLoop) /\ WF_vars(RecvLoop)

-----------------------------------------------------------------------------
(* What the queues promise *)

WrittenOn(k) == {wire[n][2] : n \in {m \in DOMAIN wire : wire[m][1] = k}}

\* Frames leave in the order in which they were queued and at most once, though
\* they wait in two queues and connections come and go between two sends.
SentInOrder == \A m, n \in DOMAIN wire : m < n => wire[m][2] < wire[n][2]

\* A new connection carries no frame of the time before it
\* (client/client.py:513-514, "to ensure we don't send stale data").
NothingStaleIsSent ==
    \A k \in DOMAIN began : \A frame \in WrittenOn(k) : frame > began[k].out

\* What was queued since the attempt began goes out without a hole, but for
\* frames that found a queue full (client/client.py:239, 249).
NothingSkipped ==
    \A k \in DOMAIN began : \A frame \in WrittenOn(k) :
        began[k].out + 1 .. frame \subseteq WrittenOn(k) \cup full

\* Frames are handled in the order of their arrival, none twice, and none that
\* came on an earlier connection once a new attempt has begun.
HandledInOrder ==
    /\ \A m, n \in DOMAIN handled : m < n => handled[m] < handled[n]
    /\ recvQueue # <<>> => Head(recvQueue) > began[Len(began)].in

\* Both directions.
InOrder == SentInOrder /\ HandledInOrder

\* A frame does not stay in the send queue, connected or not.
SendQueueMoves == \A frame \in 1 .. MaxOut :
    (frame \in ToSet(sendQueue)) ~> (frame \notin ToSet(sendQueue))
=============================================================================
