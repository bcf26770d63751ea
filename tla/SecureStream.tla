---------------------------- MODULE SecureStream ----------------------------
(***************************************************************************)
(* One stream from socket to socket through the frames of                  *)
(* common/protocol.py and the encryption of common/crypto.py: what the     *)
(* read loops read, the send loops seal and encode, the two ends open      *)
(* again, and the receive loops hand on.                                   *)
(*                                                                         *)
(* The two ends, the client and the exit node, treat frames alike.  A      *)
(* frame is its type, its number among the frames of its sender, the size  *)
(* of its payload and the secret it was sealed with; sizes are the real    *)
(* ones.  The websockets are up and no queue is full: FramePump is about   *)
(* the rest, LocalProxy and ExitStreams about several streams.             *)
(***************************************************************************)
EXTENDS Integers, Sequences

CONSTANTS
    Secrets,     \* shared secrets
    NoSecret,    \* no secret is set: frames are not encrypted
    ReadSizes,   \* bound: how much one reader.read(65535) may return
    MaxFrames    \* bound: frames of one end

\* MAX_FRAME_PAYLOAD; what a read loop asks for; the nonce and the tag of AES-GCM;
\* the largest OPEN request, which is a type, a domain of 255 octets with its
\* length, and a port.
MaxPayload == 65535
MaxRead == 65535
Overhead == 28
OpenSize == 259

ASSUME StreamAssumption ==
    /\ NoSecret \notin Secrets
    /\ ReadSizes \subseteq 1 .. MaxRead
    /\ MaxFrames \in Nat /\ MaxFrames >= 2

Ends == {"client", "exit"}
Peer(e) == IF e = "client" THEN "exit" ELSE "client"
Keys == Secrets \cup {NoSecret}

VARIABLES
    key,      \* per end: _encryption_key
    stream,   \* per end: what it takes the stream to be
    sent,     \* per end: how many frames it has queued
    sendq,    \* per end: _send_queue
    wire,     \* per end: the frames it has sent, as its peer will receive them
    recvq,    \* per end: _recv_queue
    got,      \* per end: the DATA frames it has handed on, the exit node to its socket
              \* and the client to the connection's _write_queue
    written   \* how many of its own the client's write loop has taken to the socket

queues == <<sendq, wire, recvq>>
vars == <<key, stream, sent, queues, got, written>>

Frame == [kind : {"open", "ok", "fail", "data", "close"}, n : Nat, size : Nat]
Sealed == [kind : {"open", "ok", "fail", "data", "close"}, n : Nat, size : Nat, seal : Keys]

TypeOK ==
    /\ key \in [Ends -> Keys]
    /\ stream \in [Ends -> {"none", "asked", "up", "astray", "refused", "ended", "told"}]
    /\ sent \in [Ends -> 0 .. MaxFrames]
    /\ sendq \in [Ends -> Seq(Frame)]
    /\ wire \in [Ends -> Seq(Sealed)]
    /\ recvq \in [Ends -> Seq(Sealed)]
    /\ got \in [Ends -> Seq(Nat)]
    /\ written \in 0 .. Len(got["client"])

Init ==
    /\ key \in [Ends -> Keys]
    /\ stream = [e \in Ends |-> "none"]
    /\ sent = [e \in Ends |-> 0]
    /\ sendq = [e \in Ends |-> <<>>]
    /\ wire = [e \in Ends |-> <<>>]
    /\ recvq = [e \in Ends |-> <<>>]
    /\ got = [e \in Ends |-> <<>>]
    /\ written = 0

-----------------------------------------------------------------------------
(* Frames *)

Becomes(e, state) == stream' = [stream EXCEPT ![e] = state]

\* Mutant: CLOSE is put before the DATA that still waits to be sent.
Queue_CloseFirst(e, kind, size) ==
    LET frame == [kind |-> kind, n |-> sent[e], size |-> size]
    IN  /\ sendq' = [sendq EXCEPT ![e] = IF kind = "close" THEN <<frame>> \o @ ELSE Append(@, frame)]
        /\ sent' = [sent EXCEPT ![e] = @ + 1]

\* send_frame: put_nowait on the send queue.
Queue(e, kind, size) ==
    /\ sendq' = [sendq EXCEPT ![e] = Append(@, [kind |-> kind, n |-> sent[e], size |-> size])]
    /\ sent' = [sent EXCEPT ![e] = @ + 1]

\* Mutant: only DATA is encrypted.
Seal_DataOnly(e, f) ==
    LET k == IF f.kind = "data" THEN key[e] ELSE NoSecret
    IN  [kind |-> f.kind, n |-> f.n, seal |-> k,
         size |-> IF k = NoSecret THEN f.size ELSE f.size + Overhead]

\* encrypt, with the sender's secret if it has one.
Seal(e, f) ==
    [kind |-> f.kind, n |-> f.n, seal |-> key[e],
     size |-> IF key[e] = NoSecret THEN f.size ELSE f.size + Overhead]

\* Mutant: a payload of exactly MAX_FRAME_PAYLOAD is refused.
Encodes_Less(f) == f.size < MaxPayload

\* Frame.encode raises if the payload is too large.
Encodes(f) == f.size <= MaxPayload

\* Mutant: what cannot be decrypted is handed on as it is.
Decrypts_Anyway(e, f) == TRUE

\* decrypt raises unless the frame was sealed with the same secret; an end without
\* a secret does not try.
Decrypts(e, f) == key[e] \in {NoSecret, f.seal}

\* The payload is what its sender meant.
Readable(e, f) == key[e] = f.seal

-----------------------------------------------------------------------------
(* The send loops, the callbacks of the tunnels, the receive loops *)

\* A frame that cannot be encoded is logged and gone, and the loop goes on.
SendLoop(e) ==
    /\ sendq[e] # <<>>
    /\ sendq' = [sendq EXCEPT ![e] = Tail(@)]
    /\ LET f == Seal(e, Head(sendq[e]))
       IN  wire' = IF Encodes(f) THEN [wire EXCEPT ![e] = Append(@, f)] ELSE wire
    /\ UNCHANGED <<key, stream, sent, recvq, got, written>>

\* _handle_data_received: a frame that cannot be decrypted is logged and gone.
DataReceived(e) ==
    LET p == Peer(e)
        f == Head(wire[p])
    IN  /\ wire[p] # <<>>
        /\ wire' = [wire EXCEPT ![p] = Tail(@)]
        /\ recvq' = IF Decrypts(e, f) THEN [recvq EXCEPT ![e] = Append(@, f)] ELSE recvq
        /\ UNCHANGED <<key, stream, sent, sendq, got, written>>

Takes(e, kinds) ==
    /\ recvq[e] # <<>> /\ Head(recvq[e]).kind \in kinds
    /\ recvq' = [recvq EXCEPT ![e] = Tail(@)]

\* _handle_open at the exit node: the connection is made, or not.
HandleOpen ==
    /\ Takes("exit", {"open"}) /\ Readable("exit", Head(recvq["exit"]))
    /\ \/ Becomes("exit", "up") /\ Queue("exit", "ok", 1)
       \/ Becomes("exit", "refused") /\ Queue("exit", "fail", 1)
    /\ UNCHANGED <<key, wire, got, written>>

\* An exit node without a secret decodes ciphertext: mostly that raises, but the
\* first octet may happen to be a type of address.  The client, which has a secret,
\* cannot decrypt anything of what follows, so that is left out.
HandleOpenUnreadable ==
    /\ Takes("exit", {"open"}) /\ ~Readable("exit", Head(recvq["exit"]))
    /\ \/ Becomes("exit", "astray") /\ Queue("exit", "ok", 1)
       \/ Becomes("exit", "refused") /\ Queue("exit", "fail", 1)
    /\ UNCHANGED <<key, wire, got, written>>

\* handle_open_response at the client.
HandleOpenResponse ==
    /\ Takes("client", {"ok", "fail"})
    /\ Becomes("client", IF Head(recvq["client"]).kind = "ok" THEN "up" ELSE "refused")
    /\ UNCHANGED <<key, sent, sendq, wire, got, written>>

\* DATA goes to the socket at the exit node, to the write queue at the client, while
\* the stream is up.
HandleData(e) ==
    /\ Takes(e, {"data"})
    /\ got' = IF stream[e] = "up" THEN [got EXCEPT ![e] = Append(@, Head(recvq[e]).n)] ELSE got
    /\ UNCHANGED <<key, stream, sent, sendq, wire, written>>

\* _write_loop at the client.  The end of the stream, of either side, cancels it with
\* whatever is in the queue.
WriteLoop ==
    /\ stream["client"] = "up" /\ written < Len(got["client"])
    /\ written' = written + 1
    /\ UNCHANGED <<key, stream, sent, queues, got>>

\* CLOSE cancels the read loop, whose finally block answers with a CLOSE.
HandleClose(e) ==
    /\ Takes(e, {"close"}) /\ stream[e] = "up"
    /\ Becomes(e, "told")
    /\ Queue(e, "close", 0)
    /\ UNCHANGED <<key, wire, got, written>>

\* A CLOSE for a stream that is not in the table any more.
DropClose(e) ==
    /\ Takes(e, {"close"}) /\ stream[e] # "up"
    /\ UNCHANGED <<key, stream, sent, sendq, wire, got, written>>

-----------------------------------------------------------------------------
(* The sockets *)

\* The handshake of an application is through.
Ask ==
    /\ stream["client"] = "none"
    /\ Becomes("client", "asked")
    /\ Queue("client", "open", OpenSize)
    /\ UNCHANGED <<key, wire, recvq, got, written>>

\* _read_loop: reader.read(65535) returns some octets ...
Read(e) ==
    /\ stream[e] = "up" /\ sent[e] < MaxFrames - 1
    /\ \E size \in ReadSizes : Queue(e, "data", size)
    /\ UNCHANGED <<key, stream, wire, recvq, got, written>>

\* ... or nothing: the end of the stream.
ReadEnd(e) ==
    /\ stream[e] = "up"
    /\ Becomes(e, "ended")
    /\ Queue(e, "close", 0)
    /\ UNCHANGED <<key, wire, recvq, got, written>>

RecvLoop(e) ==
    \/ e = "exit" /\ (HandleOpen \/ HandleOpenUnreadable)
    \/ e = "client" /\ HandleOpenResponse
    \/ HandleData(e) \/ HandleClose(e) \/ DropClose(e)

Next ==
    \/ Ask \/ WriteLoop
    \/ \E e \in Ends :
        \/ SendLoop(e) \/ DataReceived(e) \/ RecvLoop(e)
        \/ Read(e) \/ ReadEnd(e)

Spec == Init /\ [][Next]_vars

\* The loops go on while there is a frame, and connecting has a timeout.
Fairness ==
    \A e \in Ends : WF_vars(SendLoop(e)) /\ WF_vars(DataReceived(e)) /\ WF_vars(RecvLoop(e))

FairSpec == Spec /\ Fairness

-----------------------------------------------------------------------------
(* What the stream promises *)

\* If every frame that is read can be encoded once it is sealed.
FramesFit == \A size \in ReadSizes : size + Overhead <= MaxPayload

\* An end hands on what the other one was given, in order and without a hole: a frame
\* that is lost is never followed by one that is not.
Intact == \A e \in Ends : \A i \in 1 .. Len(got[e]) : got[e][i] = i

\* An end that is told the stream has ended has handed on everything up to there, all
\* of its peer's frames but the OPEN and the CLOSE: the exit node to its socket, the
\* client to its write queue.
Whole == \A e \in Ends : stream[e] = "told" => Len(got[e]) + 2 = sent[Peer(e)]

\* With different secrets nothing of one end comes through to the other: no data, no
\* answer, and no connection that the client has asked for
\* (tests/test_crypto.py:33, "not silently return garbage").
NothingWithoutTheSecret ==
    key["client"] # key["exit"] =>
        /\ stream["client"] \in {"none", "asked"} /\ stream["exit"] # "up"
        /\ \A e \in Ends : got[e] = <<>>
        /\ key["exit"] # NoSecret => stream["exit"] = "none"

\* An application that asks for a destination is answered (README.md:165-166, "rather
\* than hanging"), if the two secrets are the same.
AnsweredWithTheSecret ==
    stream["client"] = "asked" /\ key["client"] = key["exit"] ~> stream["client"] # "asked"

(* What is not true *)

\* The application has everything once its connection is told of the end.
WholeAtTheClient == stream["client"] = "told" => written = Len(got["client"])

\* An application that asks for a destination is answered (README.md:165-166, "rather
\* than hanging"), whatever the secrets.
Answered == stream["client"] = "asked" ~> stream["client"] # "asked"
=============================================================================
