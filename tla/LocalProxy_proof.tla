------------------------- MODULE LocalProxy_proof -------------------------
(***************************************************************************)
(* What the local proxy promises the exit node and the applications, for   *)
(* any number of connections and frames and any size of a write queue.     *)
(*                                                                         *)
(* Each connection is handled by three coroutines that share its tasks,    *)
(* queue and socket; the receive loop, which serves all connections, is    *)
(* one of them.  The invariant says of each connection how far its         *)
(* coroutines can be, given what the exit node has sent for it.            *)
(***************************************************************************)
EXTENDS LocalProxy, TLAPS

At(where, c) == recv = <<where, c>>
Closing(c) == At("reader", c) \/ At("writer", c) \/ At("socket", c)

\* What the exit node has seen of a stream.
ToldInv(c) ==
    /\ \A n \in DOMAIN sent[c] :
        /\ n = 1 <=> sent[c][n] = "open"
        /\ sent[c][n] = "close" => n = Len(sent[c]) /\ reader[c] = "done"
    /\ exit[c] = "ok" /\ reader[c] = "done" /\ c \notin lost =>
        sent[c] # <<>> /\ sent[c][Len(sent[c])] = "close"

\* Before the exit node's answer there is nothing but the handler.
QuietInv(c) ==
    /\ handler[c] # "done" => sent[c] = <<>>
    /\ handler[c] = "handshake" => c \in table
    /\ sent[c] = <<>> => exit[c] = "silent"
    /\ exit[c] = "silent" =>
        /\ sent[c] # <<>> => c \in table
        /\ reader[c] = "none" /\ writer[c] = "none"
        /\ data[c] = 0 /\ queue[c] = <<>> /\ wrote[c] = <<>>
        /\ \A where \in {"answer", "refuse", "reader", "writer", "socket"} : ~At(where, c)

\* The loops, and who waits for them.
LoopInv(c) ==
    /\ writer[c] # "none" => reader[c] # "none"
    /\ writer[c] = "draining" => reader[c] # "created"
    /\ At("answer", c) => exit[c] = "ok"
    /\ At("refuse", c) => exit[c] = "fail"
    /\ At("answer", c) \/ At("refuse", c) => reader[c] = "none"
    /\ At("reader", c) => reader[c] \notin {"none", "created"}
    /\ At("writer", c) => reader[c] = "done"
    /\ exit[c] = "ok" /\ reader[c] = "none" /\ c \in table => At("answer", c) \/ c \in lost
    /\ exit[c] = "ok" /\ At("socket", c) => reader[c] = "done" \/ c \in lost
    /\ exit[c] = "ok" /\ c \notin table => reader[c] = "done" \/ c \in lost
    /\ c \in table /\ reader[c] = "done" => Closing(c)
    /\ exit[c] = "fail" => reader[c] = "none"

\* DATA goes through the queue in order, as long as the stream takes it.
DataInv(c) ==
    /\ \A n \in DOMAIN wrote[c] : wrote[c][n] = n
    /\ socket[c] # "closed" =>
        /\ \A n \in DOMAIN queue[c] : queue[c][n] = Len(wrote[c]) + n
        /\ exit[c] = "ok" /\ c \in table /\ connected[c] /\ ~Closing(c) =>
            Len(wrote[c]) + Len(queue[c]) = data[c]

ConnInv(c) == ToldInv(c) /\ QuietInv(c) /\ LoopInv(c) /\ DataInv(c)
LocalInv == TypeOK /\ \A c \in Conns : ConnInv(c)

(***************************************************************************)
(* A step concerns one connection                                          *)
(***************************************************************************)

Same(d) ==
    /\ handler'[d] = handler[d] /\ connected'[d] = connected[d]
    /\ reader'[d] = reader[d] /\ writer'[d] = writer[d] /\ queue'[d] = queue[d]
    /\ socket'[d] = socket[d] /\ wrote'[d] = wrote[d]
    /\ sent'[d] = sent[d] /\ exit'[d] = exit[d] /\ data'[d] = data[d]
    /\ d \in table' <=> d \in table
    /\ d \in lost' <=> d \in lost

\* A step of c leaves the other connections alone; the receive loop comes from
\* nothing or c, and goes to nothing or c, or does not move.
Concerns(c) ==
    /\ \A d \in Conns \ {c} : Same(d)
    /\ \/ recv' = recv
       \/ /\ recv = None \/ \E w \in {"answer", "refuse", "reader", "writer", "socket"} : At(w, c)
          /\ recv' = None
             \/ \E w \in {"answer", "refuse", "reader", "writer", "socket"} : At(w, c)'

LEMMA NotNone ==
    ASSUME NEW c \in Conns, NEW w \in {"answer", "refuse", "reader", "writer", "socket"}
    PROVE  <<w, c>> # None
BY LocalAssumption DEF Awaits

LEMMA OthersKeep ==
    ASSUME NEW c \in Conns, Concerns(c), NEW d \in Conns \ {c}, ConnInv(d)
    PROVE  ConnInv(d)'
<1>1. Same(d)
  BY DEF Concerns
<1>2. ASSUME NEW w \in {"answer", "refuse", "reader", "writer", "socket"}
      PROVE  At(w, d)' <=> At(w, d)
  <2>1. CASE recv' = recv
    BY <2>1 DEF At
  <2>2. CASE recv' # recv
    <3>1. ~At(w, d)
      BY <2>2, NotNone DEF Concerns, At
    <3>2. ~At(w, d)'
      BY <2>2, NotNone DEF Concerns, At
    <3> QED  BY <3>1, <3>2
  <2> QED  BY <2>1, <2>2
<1>3. /\ At("answer", d)' <=> At("answer", d)
      /\ At("refuse", d)' <=> At("refuse", d)
      /\ At("reader", d)' <=> At("reader", d)
      /\ At("writer", d)' <=> At("writer", d)
      /\ At("socket", d)' <=> At("socket", d)
  BY <1>2
<1>4. ToldInv(d)'
  BY <1>1 DEF ConnInv, ToldInv, Same
<1>5. QuietInv(d)'
  BY <1>1, <1>2 DEF ConnInv, QuietInv, Same
<1>6. LoopInv(d)'
  BY <1>1, <1>3 DEF ConnInv, LoopInv, Same, Closing
<1>7. DataInv(d)'
  BY <1>1, <1>3 DEF ConnInv, DataInv, Same, Closing
<1> QED  BY <1>4, <1>5, <1>6, <1>7 DEF ConnInv

LEMMA OneStep ==
    ASSUME LocalInv, NEW c \in Conns, TypeOK', Concerns(c), ConnInv(c)'
    PROVE  LocalInv'
BY OthersKeep DEF LocalInv

(***************************************************************************)
(* The handler and the socket                                              *)
(***************************************************************************)

LEMMA SocketClosesStep == ASSUME LocalInv, NEW c \in Conns, SocketCloses(c) PROVE LocalInv'
<1> USE DEF LocalInv, ConnInv, SocketCloses, connVars, peerVars
<1>1. TypeOK'
  BY DEF TypeOK
<1>2. Concerns(c)
  BY DEF Concerns, Same, TypeOK
<1>3. ConnInv(c)'
  BY DEF ToldInv, QuietInv, LoopInv, DataInv, At, Closing, TypeOK
<1> QED  BY <1>1, <1>2, <1>3, OneStep

LEMMA AcceptStep == ASSUME LocalInv, NEW c \in Conns, Accept(c) PROVE LocalInv'
<1> USE DEF LocalInv, ConnInv, Accept, loopVars, peerVars
<1>1. TypeOK'
  BY DEF TypeOK
<1>2. Concerns(c)
  BY DEF Concerns, Same, TypeOK
<1>3. ConnInv(c)'
  BY DEF ToldInv, QuietInv, LoopInv, DataInv, At, Closing, TypeOK
<1> QED  BY <1>1, <1>2, <1>3, OneStep

LEMMA HandshakeFailsStep == ASSUME LocalInv, NEW c \in Conns, HandshakeFails(c) PROVE LocalInv'
<1> USE DEF LocalInv, ConnInv, HandshakeFails, CloseSocket, peerVars
<1>1. TypeOK'
  BY DEF TypeOK
<1>2. Concerns(c)
  BY DEF Concerns, Same, TypeOK
<1>3. ConnInv(c)'
  BY DEF ToldInv, QuietInv, LoopInv, DataInv, At, Closing, TypeOK
<1> QED  BY <1>1, <1>2, <1>3, OneStep

LEMMA HandshakeClosedStep == ASSUME LocalInv, NEW c \in Conns, HandshakeClosed(c) PROVE LocalInv'
<1> USE DEF LocalInv, ConnInv, HandshakeClosed, loopVars, peerVars
<1>1. TypeOK'
  BY DEF TypeOK
<1>2. Concerns(c)
  BY DEF Concerns, Same, TypeOK
<1>3. ConnInv(c)'
  BY DEF ToldInv, QuietInv, LoopInv, DataInv, At, Closing, TypeOK
<1> QED  BY <1>1, <1>2, <1>3, OneStep

LEMMA AppendFacts ==
    ASSUME NEW S, NEW q \in Seq(S), NEW f \in S
    PROVE  /\ Append(q, f) \in Seq(S) /\ Append(q, f) # <<>>
           /\ Len(q) \in Nat /\ Len(Append(q, f)) = Len(q) + 1
           /\ DOMAIN q = 1 .. Len(q) /\ DOMAIN Append(q, f) = 1 .. Len(q) + 1
           /\ \A n \in 1 .. Len(q) : Append(q, f)[n] = q[n]
           /\ Append(q, f)[Len(q) + 1] = f
           /\ Len(q) = 0 <=> q = <<>>
OBVIOUS

LEMMA TailFacts ==
    ASSUME NEW S, NEW q \in Seq(S), q # <<>>
    PROVE  /\ Head(q) \in S /\ Head(q) = q[1] /\ Tail(q) \in Seq(S)
           /\ Len(q) \in Nat /\ Len(q) >= 1 /\ Len(Tail(q)) = Len(q) - 1
           /\ DOMAIN q = 1 .. Len(q) /\ DOMAIN Tail(q) = 1 .. Len(q) - 1
           /\ \A n \in 1 .. Len(q) - 1 : Tail(q)[n] = q[n + 1]
OBVIOUS

\* The facts about sent[c] that a step of c that sends one more frame needs.
LEMMA SendFacts ==
    ASSUME TypeOK, NEW c \in Conns, NEW what \in {"open", "data", "close"}, Send(c, what)
    PROVE  /\ sent' \in [Conns -> Seq({"open", "data", "close"})]
           /\ \A d \in Conns \ {c} : sent'[d] = sent[d]
           /\ sent'[c] # <<>> /\ Len(sent[c]) \in Nat /\ Len(sent'[c]) = Len(sent[c]) + 1
           /\ DOMAIN sent[c] = 1 .. Len(sent[c]) /\ DOMAIN sent'[c] = 1 .. Len(sent[c]) + 1
           /\ \A n \in 1 .. Len(sent[c]) : sent'[c][n] = sent[c][n]
           /\ sent'[c][Len(sent[c]) + 1] = what
           /\ Len(sent[c]) = 0 <=> sent[c] = <<>>
<1> DEFINE Q == sent[c]
           R == Append(Q, what)
<1>1. Q \in Seq({"open", "data", "close"})
  BY DEF TypeOK
<1>2. /\ R \in Seq({"open", "data", "close"}) /\ R # <<>>
      /\ Len(Q) \in Nat /\ Len(R) = Len(Q) + 1
      /\ DOMAIN Q = 1 .. Len(Q) /\ DOMAIN R = 1 .. Len(Q) + 1
      /\ \A n \in 1 .. Len(Q) : R[n] = Q[n]
      /\ R[Len(Q) + 1] = what
      /\ Len(Q) = 0 <=> Q = <<>>
  BY <1>1, AppendFacts
<1>3. sent' = [sent EXCEPT ![c] = R]
  BY DEF Send
<1> HIDE DEF R
<1>4. sent'[c] = R /\ \A d \in Conns \ {c} : sent'[d] = sent[d]
  BY <1>3 DEF TypeOK
<1>5. sent' \in [Conns -> Seq({"open", "data", "close"})]
  BY <1>2, <1>3 DEF TypeOK
<1> QED  BY <1>2, <1>4, <1>5

\* One more frame keeps the story of a stream in order: OPEN comes first and only
\* first, and CLOSE is the last word of a read loop that ends.
LEMMA SendTold ==
    ASSUME TypeOK, NEW c \in Conns, ToldInv(c), NEW what \in {"open", "data", "close"},
           Send(c, what), reader[c] # "done",
           what = "open" <=> sent[c] = <<>>,
           what = "close" <=> reader'[c] = "done"
    PROVE  ToldInv(c)'
<1> DEFINE Q == sent[c]
           R == sent'[c]
<1>1. /\ R # <<>> /\ Len(Q) \in Nat /\ Len(R) = Len(Q) + 1
      /\ DOMAIN Q = 1 .. Len(Q) /\ DOMAIN R = 1 .. Len(Q) + 1
      /\ \A n \in 1 .. Len(Q) : R[n] = Q[n]
      /\ R[Len(Q) + 1] = what
      /\ Len(Q) = 0 <=> Q = <<>>
  BY SendFacts
<1>2. \A n \in 1 .. Len(Q) : (n = 1 <=> Q[n] = "open") /\ Q[n] # "close"
  BY <1>1 DEF ToldInv
<1>3. what = "open" <=> Q = <<>>
  OBVIOUS
<1> HIDE DEF Q, R
<1>4. ASSUME NEW n \in 1 .. Len(Q) + 1
      PROVE  (n = 1 <=> R[n] = "open") /\ (R[n] = "close" => n = Len(Q) + 1 /\ what = "close")
  <2>1. CASE n = Len(Q) + 1
    <3>1. n = 1 <=> Len(Q) = 0
      BY ONLY <2>1, <1>1
    <3> QED  BY <3>1, <2>1, <1>1, <1>3
  <2>2. CASE n \in 1 .. Len(Q)
    BY <2>2, <1>1, <1>2
  <2>3. n = Len(Q) + 1 \/ n \in 1 .. Len(Q)
    BY ONLY n \in 1 .. Len(Q) + 1, <1>1
  <2> QED  BY <2>1, <2>2, <2>3
<1>5. Len(Q) + 1 = Len(R)
  BY <1>1
<1> USE DEF R
<1> QED  BY <1>1, <1>4, <1>5 DEF ToldInv

LEMMA HandshakeSucceedsStep ==
    ASSUME LocalInv, NEW c \in Conns, HandshakeSucceeds(c) PROVE LocalInv'
<1> USE DEF LocalInv, ConnInv
<1>1. /\ handler[c] = "handshake" /\ Send(c, "open")
      /\ handler' = [handler EXCEPT ![c] = "done"]
      /\ UNCHANGED <<table, connected, reader, writer, queue, socket, wrote, exit, data, recv, lost>>
  BY DEF HandshakeSucceeds, loopVars
<1>2. /\ sent' \in [Conns -> Seq({"open", "data", "close"})]
      /\ \A d \in Conns \ {c} : sent'[d] = sent[d]
      /\ sent'[c] # <<>>
  BY <1>1, SendFacts
<1>3. sent[c] = <<>> /\ exit[c] = "silent" /\ reader[c] = "none"
  BY <1>1 DEF QuietInv
<1>4. TypeOK'
  BY <1>1, <1>2 DEF TypeOK
<1>5. Concerns(c)
  BY <1>1, <1>2 DEF Concerns, Same, TypeOK
<1>6. ToldInv(c)'
  BY <1>1, <1>3, SendTold
<1>7. QuietInv(c)' /\ LoopInv(c)' /\ DataInv(c)'
  BY <1>1, <1>2, <1>3 DEF QuietInv, LoopInv, DataInv, At, Closing, TypeOK
<1> QED  BY <1>4, <1>5, <1>6, <1>7, OneStep

(***************************************************************************)
(* The receive loop                                                        *)
(***************************************************************************)

\* The members of Awaits, one by one.
LEMMA AwaitsOf ==
    ASSUME NEW c \in Conns, NEW w \in {"answer", "refuse", "reader", "writer", "socket"}
    PROVE  <<w, c>> \in Awaits
BY DEF Awaits

LEMMA OpenResponseStep ==
    ASSUME LocalInv, NEW c \in Conns, NEW reply \in {"ok", "fail"}, OpenResponse(c, reply)
    PROVE  LocalInv'
<1> USE DEF LocalInv, ConnInv
<1>1. /\ recv = None /\ Len(sent[c]) > 0 /\ exit[c] = "silent"
      /\ exit' = [exit EXCEPT ![c] = reply]
      /\ UNCHANGED <<handler, table, reader, writer, queue, socket, wrote, sent, data, lost>>
  BY DEF OpenResponse, MaySend, loopVars
<1>2. sent[c] # <<>> /\ c \in table
  BY <1>1 DEF QuietInv, TypeOK
<1>3. \/ /\ reply = "ok" /\ recv' = <<"answer", c>>
         /\ connected' = [connected EXCEPT ![c] = TRUE]
      \/ reply = "fail" /\ recv' = <<"refuse", c>> /\ connected' = connected
  BY <1>2 DEF OpenResponse
<1>4. TypeOK'
  BY <1>1, <1>3, AwaitsOf DEF TypeOK
<1>5. Concerns(c)
  BY <1>1, <1>3 DEF Concerns, Same, TypeOK, At
<1>6. reader[c] = "none" /\ writer[c] = "none" /\ data[c] = 0 /\ queue[c] = <<>> /\ wrote[c] = <<>>
  BY <1>1 DEF QuietInv
<1>7. ToldInv(c)' /\ QuietInv(c)' /\ LoopInv(c)'
  BY <1>1, <1>2, <1>3, <1>6 DEF ToldInv, QuietInv, LoopInv, At, Closing, TypeOK
<1>8. DataInv(c)'
  BY <1>1, <1>3, <1>6 DEF DataInv
<1> QED  BY <1>4, <1>5, <1>7, <1>8, OneStep

\* The receive loop stops waiting: nothing is awaited any more.
LEMMA Freed == ASSUME recv' = None, NEW c \in Conns PROVE
    \A w \in {"answer", "refuse", "reader", "writer", "socket"} : ~At(w, c)'
BY NotNone DEF At

LEMMA AnsweredStep == ASSUME LocalInv, NEW c \in Conns, Answered(c) PROVE LocalInv'
<1> USE DEF LocalInv, ConnInv, Answered, connVars, peerVars
<1>1. TypeOK'
  BY AwaitsOf DEF TypeOK
<1>2. Concerns(c)
  BY DEF Concerns, Same, TypeOK, At
<1>3. exit[c] # "silent" /\ sent[c] # <<>>
  BY DEF QuietInv, At
<1>4. ToldInv(c)' /\ QuietInv(c)'
  BY <1>3 DEF ToldInv, QuietInv, TypeOK, LoopInv, At
<1>5. LoopInv(c)'
  BY <1>3, Freed DEF LoopInv, At, Closing, TypeOK
<1>6. DataInv(c)'
  BY DEF DataInv, At, Closing, TypeOK
<1> QED  BY <1>1, <1>2, <1>4, <1>5, <1>6, OneStep

LEMMA RefusedStep == ASSUME LocalInv, NEW c \in Conns, Refused(c) PROVE LocalInv'
<1> USE DEF LocalInv, ConnInv, Refused, CloseSocket, connVars, peerVars
<1>1. TypeOK'
  BY AwaitsOf DEF TypeOK
<1>2. Concerns(c)
  BY DEF Concerns, Same, TypeOK, At
<1>3. exit[c] # "silent" /\ sent[c] # <<>>
  BY DEF QuietInv, At
<1>4. ToldInv(c)' /\ QuietInv(c)'
  BY <1>3 DEF ToldInv, QuietInv, TypeOK, LoopInv, At
<1>5. LoopInv(c)'
  BY <1>3 DEF LoopInv, At, Closing, TypeOK
<1>6. DataInv(c)'
  BY DEF DataInv, At, Closing, TypeOK
<1> QED  BY <1>1, <1>2, <1>4, <1>5, <1>6, OneStep

LEMMA AnswerRaisesStep == ASSUME LocalInv, NEW c \in Conns, AnswerRaises(c) PROVE LocalInv'
<1> USE DEF LocalInv, ConnInv, AnswerRaises, connVars, peerVars
<1>1. TypeOK'
  BY AwaitsOf DEF TypeOK
<1>2. Concerns(c)
  BY DEF Concerns, Same, TypeOK, At
<1>3. exit[c] # "silent" /\ sent[c] # <<>>
  BY DEF QuietInv, At
<1>4. ToldInv(c)' /\ QuietInv(c)'
  BY <1>3 DEF ToldInv, QuietInv, TypeOK, LoopInv, At
<1>5. LoopInv(c)'
  BY <1>3, Freed DEF LoopInv, At, Closing, TypeOK
<1>6. DataInv(c)'
  BY DEF DataInv, At, Closing, TypeOK
<1> QED  BY <1>1, <1>2, <1>4, <1>5, <1>6, OneStep

LEMMA ReaderAwaitedStep == ASSUME LocalInv, NEW c \in Conns, ReaderAwaited(c) PROVE LocalInv'
<1> USE DEF LocalInv, ConnInv, ReaderAwaited, Cancelled, connVars, peerVars
<1>1. TypeOK'
  BY AwaitsOf DEF TypeOK
<1>2. Concerns(c)
  BY DEF Concerns, Same, TypeOK, At
<1>3. exit[c] # "silent" /\ sent[c] # <<>>
  BY DEF QuietInv, At
<1>4. ToldInv(c)' /\ QuietInv(c)'
  BY <1>3 DEF ToldInv, QuietInv, TypeOK, LoopInv, At
<1>5. LoopInv(c)'
  BY <1>3 DEF LoopInv, At, Closing, TypeOK
<1>6. DataInv(c)'
  BY DEF DataInv, At, Closing, TypeOK
<1> QED  BY <1>1, <1>2, <1>4, <1>5, <1>6, OneStep

LEMMA WriterAwaitedStep == ASSUME LocalInv, NEW c \in Conns, WriterAwaited(c) PROVE LocalInv'
<1> USE DEF LocalInv, ConnInv, WriterAwaited, CloseSocket, connVars, peerVars
<1>1. TypeOK'
  BY AwaitsOf DEF TypeOK
<1>2. Concerns(c)
  BY DEF Concerns, Same, TypeOK, At
<1>3. exit[c] # "silent" /\ sent[c] # <<>>
  BY DEF QuietInv, At
<1>4. ToldInv(c)' /\ QuietInv(c)'
  BY <1>3 DEF ToldInv, QuietInv, TypeOK, LoopInv, At
<1>5. LoopInv(c)'
  BY <1>3 DEF LoopInv, At, Closing, TypeOK
<1>6. DataInv(c)'
  BY DEF DataInv, At, Closing, TypeOK
<1> QED  BY <1>1, <1>2, <1>4, <1>5, <1>6, OneStep

LEMMA SocketAwaitedStep == ASSUME LocalInv, NEW c \in Conns, SocketAwaited(c) PROVE LocalInv'
<1> USE DEF LocalInv, ConnInv, SocketAwaited, loopVars, peerVars
<1>1. TypeOK'
  BY AwaitsOf DEF TypeOK
<1>2. Concerns(c)
  BY DEF Concerns, Same, TypeOK, At
<1>3. exit[c] # "silent" /\ sent[c] # <<>>
  BY DEF QuietInv, At
<1>4. ToldInv(c)' /\ QuietInv(c)'
  BY <1>3 DEF ToldInv, QuietInv, TypeOK, LoopInv, At
<1>5. LoopInv(c)'
  BY <1>3, Freed DEF LoopInv, At, Closing, TypeOK
<1>6. DataInv(c)'
  BY DEF DataInv, At, Closing, TypeOK
<1> QED  BY <1>1, <1>2, <1>4, <1>5, <1>6, OneStep

\* close() begins: the read loop is cancelled, or there is none and the socket closes.
LEMMA BeginCloseFacts ==
    ASSUME TypeOK, NEW c \in Conns, BeginClose(c)
    PROVE  /\ reader[c] = "none" => At("socket", c)' /\ reader'[c] = "none"
           /\ reader[c] # "none" => At("reader", c)' /\ reader'[c] \in {"cancelled", "done"}
           /\ reader'[c] = "done" => reader[c] \in {"created", "cancelled", "done"}
           /\ reader[c] \in {"cancelled", "done"} => reader'[c] = reader[c]
           /\ reader' \in [Conns -> {"none", "created", "running", "cancelled", "done"}]
           /\ socket' \in [Conns -> {"open", "closing", "closed"}]
           /\ recv' \in Awaits
           /\ \A d \in Conns \ {c} : reader'[d] = reader[d] /\ socket'[d] = socket[d]
           /\ socket'[c] = "closed" <=> socket[c] = "closed"
<1>1. CASE reader[c] = "none"
  BY <1>1, AwaitsOf DEF BeginClose, CloseSocket, TypeOK, At
<1>2. CASE reader[c] # "none"
  <2>1. /\ recv' = <<"reader", c>> /\ socket' = socket
        /\ reader' = [reader EXCEPT ![c] = CASE reader[c] = "running" -> "cancelled"
                                             [] reader[c] = "created" -> "done"
                                             [] OTHER -> reader[c]]
    BY <1>2 DEF BeginClose, CancelReader
  <2>2. reader[c] \in {"created", "running", "cancelled", "done"}
    BY <1>2 DEF TypeOK
  <2>3. /\ reader' \in [Conns -> {"none", "created", "running", "cancelled", "done"}]
        /\ \A d \in Conns \ {c} : reader'[d] = reader[d]
    BY <2>1, <2>2 DEF TypeOK
  <2>4. /\ reader'[c] \in {"cancelled", "done"}
        /\ reader'[c] = "done" => reader[c] \in {"created", "cancelled", "done"}
        /\ reader[c] \in {"cancelled", "done"} => reader'[c] = reader[c]
    BY <2>1, <2>2 DEF TypeOK
  <2> QED  BY <1>2, <2>1, <2>3, <2>4, AwaitsOf DEF TypeOK, At
<1> QED  BY <1>1, <1>2

LEMMA DataStep == ASSUME LocalInv, NEW c \in Conns, Data(c) PROVE LocalInv'
<1> USE DEF LocalInv, ConnInv
<1>1. /\ recv = None /\ Len(sent[c]) > 0 /\ exit[c] = "ok" /\ data[c] < MaxData
      /\ data' = [data EXCEPT ![c] = data[c] + 1]
      /\ UNCHANGED <<handler, table, connected, writer, wrote, sent, exit>>
  BY DEF Data, MaySend, connVars
<1>2. sent[c] # <<>> /\ data[c] \in Nat /\ data[c] + 1 \in 1 .. MaxData /\ MaxData \in Nat
  BY <1>1, LocalAssumption DEF TypeOK
<1>3. data' \in [Conns -> 0 .. MaxData] /\ \A d \in Conns \ {c} : data'[d] = data[d]
  BY <1>1, <1>2 DEF TypeOK
<1>4. \A w \in {"answer", "refuse", "reader", "writer", "socket"} : ~At(w, c)
  BY <1>1, NotNone DEF At
<1>5. CASE (c \notin table \/ ~connected[c]) /\ UNCHANGED <<queue, reader, socket, recv, lost>>
  <2>1. TypeOK'
    BY <1>1, <1>3, <1>5 DEF TypeOK
  <2>2. Concerns(c)
    BY <1>1, <1>3, <1>5 DEF Concerns, Same
  <2>3. ConnInv(c)'
    BY <1>1, <1>5 DEF ToldInv, QuietInv, LoopInv, DataInv, At, Closing, TypeOK
  <2> QED  BY <2>1, <2>2, <2>3, OneStep
<1>6. CASE /\ c \in table /\ connected[c] /\ Len(queue[c]) < MaxWrite
           /\ queue' = [queue EXCEPT ![c] = Append(queue[c], data[c] + 1)]
           /\ UNCHANGED <<reader, socket, recv, lost>>
  <2> DEFINE Q == queue[c]
             R == Append(Q, data[c] + 1)
  <2>1. Q \in Seq(1 .. MaxData)
    BY DEF TypeOK
  <2>2. /\ R \in Seq(1 .. MaxData) /\ Len(Q) \in Nat /\ Len(R) = Len(Q) + 1
        /\ DOMAIN Q = 1 .. Len(Q) /\ DOMAIN R = 1 .. Len(Q) + 1
        /\ \A n \in 1 .. Len(Q) : R[n] = Q[n]
        /\ R[Len(Q) + 1] = data[c] + 1
    BY <1>2, <2>1, AppendFacts
  <2>3. queue' = [queue EXCEPT ![c] = R]
    BY <1>6
  <2> HIDE DEF R
  <2>4. /\ queue'[c] = R /\ \A d \in Conns \ {c} : queue'[d] = queue[d]
        /\ queue' \in [Conns -> Seq(1 .. MaxData)]
    BY <2>2, <2>3 DEF TypeOK
  <2>5. Len(R) <= MaxWrite
    BY <1>6, <2>2, LocalAssumption
  <2>6. TypeOK'
    BY <1>1, <1>3, <1>6, <2>4, <2>5 DEF TypeOK
  <2>7. Concerns(c)
    BY <1>1, <1>3, <1>6, <2>4 DEF Concerns, Same
  <2>8. ToldInv(c)' /\ QuietInv(c)' /\ LoopInv(c)'
    BY <1>1, <1>6, <2>4 DEF ToldInv, QuietInv, LoopInv, At, Closing, TypeOK
  <2>9. DataInv(c)'
    <3>1. CASE socket[c] = "closed"
      BY <3>1, <1>1, <1>6 DEF DataInv
    <3>2. CASE socket[c] # "closed"
      <4> DEFINE W == Len(wrote[c])
      <4>1. /\ \A n \in 1 .. Len(Q) : Q[n] = W + n
            /\ W + Len(Q) = data[c] /\ W \in Nat
        <5>1. W \in Nat
          BY AppendFacts DEF TypeOK
        <5>2. ~Closing(c)
          BY <1>4 DEF Closing
        <5> QED  BY <3>2, <5>1, <5>2, <1>1, <1>6, <2>2 DEF DataInv
      <4> HIDE DEF W, Q
      <4>2. data'[c] = data[c] + 1
        BY <1>1 DEF TypeOK
      <4>3. ASSUME NEW n \in 1 .. Len(Q) + 1 PROVE R[n] = W + n
        BY <4>1, <2>2
      <4>4. W + Len(R) = data'[c]
        BY ONLY <4>1, <4>2, <2>2
      <4> USE DEF W
      <4> QED  BY <4>3, <4>4, <1>1, <1>6, <2>2, <2>4 DEF DataInv
    <3> QED  BY <3>1, <3>2
  <2> QED  BY <2>6, <2>7, <2>8, <2>9, OneStep
<1>7. CASE /\ c \in table /\ connected[c] /\ Len(queue[c]) = MaxWrite
           /\ lost' = IF reader[c] = "created" THEN lost \cup {c} ELSE lost
           /\ BeginClose(c) /\ UNCHANGED queue
  <2>1. TypeOK'
    BY <1>1, <1>3, <1>7, BeginCloseFacts DEF TypeOK
  <2>2. Concerns(c)
    BY <1>1, <1>3, <1>7, BeginCloseFacts DEF Concerns, Same
  <2>3. ToldInv(c)' /\ QuietInv(c)'
    BY <1>1, <1>2, <1>7, BeginCloseFacts DEF ToldInv, QuietInv, TypeOK
  <2>4. LoopInv(c)'
    BY <1>1, <1>4, <1>7, BeginCloseFacts DEF LoopInv, At, Closing, TypeOK
  <2>5. DataInv(c)'
    <3>1. Closing(c)' /\ (socket'[c] = "closed" <=> socket[c] = "closed")
      BY <1>1, <1>7, BeginCloseFacts DEF Closing
    <3>2. wrote' = wrote /\ queue' = queue
      BY <1>1, <1>7
    <3> QED  BY <3>1, <3>2 DEF DataInv, Closing, At
  <2> QED  BY <2>1, <2>2, <2>3, <2>4, <2>5, OneStep
<1> QED  BY <1>5, <1>6, <1>7 DEF Data

LEMMA CloseStep == ASSUME LocalInv, NEW c \in Conns, Close(c) PROVE LocalInv'
<1> USE DEF LocalInv, ConnInv
<1>1. /\ recv = None /\ Len(sent[c]) > 0 /\ exit[c] = "ok"
      /\ exit' = [exit EXCEPT ![c] = "close"]
      /\ UNCHANGED <<handler, table, connected, writer, queue, wrote, sent, data, lost>>
  BY DEF Close, MaySend, connVars
<1>2. sent[c] # <<>>
  BY <1>1 DEF TypeOK
<1>4. \A w \in {"answer", "refuse", "reader", "writer", "socket"} : ~At(w, c)
  BY <1>1, NotNone DEF At
<1>5. CASE c \notin table /\ UNCHANGED <<recv, reader, socket>>
  <2>1. TypeOK'
    BY <1>1, <1>5 DEF TypeOK
  <2>2. Concerns(c)
    BY <1>1, <1>5 DEF Concerns, Same, TypeOK
  <2>3. ConnInv(c)'
    BY <1>1, <1>2, <1>4, <1>5 DEF ToldInv, QuietInv, LoopInv, DataInv, At, Closing, TypeOK
  <2> QED  BY <2>1, <2>2, <2>3, OneStep
<1>6. CASE c \in table /\ BeginClose(c)
  <2>1. TypeOK'
    BY <1>1, <1>6, BeginCloseFacts DEF TypeOK
  <2>2. Concerns(c)
    BY <1>1, <1>6, BeginCloseFacts DEF Concerns, Same, TypeOK
  <2>3. ToldInv(c)' /\ QuietInv(c)'
    BY <1>1, <1>2, <1>6, BeginCloseFacts DEF ToldInv, QuietInv, TypeOK
  <2>4. LoopInv(c)'
    BY <1>1, <1>4, <1>6, BeginCloseFacts DEF LoopInv, At, Closing, TypeOK
  <2>5. DataInv(c)'
    BY <1>1, <1>6, BeginCloseFacts DEF DataInv, At, Closing, TypeOK
  <2> QED  BY <2>1, <2>2, <2>3, <2>4, <2>5, OneStep
<1> QED  BY <1>5, <1>6 DEF Close

(***************************************************************************)
(* The read loop and the write loop                                        *)
(***************************************************************************)

LEMMA ReaderBeginsStep == ASSUME LocalInv, NEW c \in Conns, ReaderBegins(c) PROVE LocalInv'
<1> USE DEF LocalInv, ConnInv, ReaderBegins, connVars, peerVars
<1>1. TypeOK'
  BY DEF TypeOK
<1>2. Concerns(c)
  BY DEF Concerns, Same, TypeOK
<1>3. exit[c] # "silent" /\ sent[c] # <<>>
  BY DEF QuietInv, LoopInv
<1>4. ToldInv(c)' /\ QuietInv(c)'
  BY <1>3 DEF ToldInv, QuietInv, TypeOK, LoopInv, At
<1>5. LoopInv(c)'
  BY <1>3 DEF LoopInv, QuietInv, At, Closing, TypeOK
<1>6. DataInv(c)'
  BY DEF DataInv, At, Closing, TypeOK
<1> QED  BY <1>1, <1>2, <1>4, <1>5, <1>6, OneStep

LEMMA ReadDataStep == ASSUME LocalInv, NEW c \in Conns, ReadData(c) PROVE LocalInv'
<1> USE DEF LocalInv, ConnInv
<1>1. /\ reader[c] = "running" /\ Send(c, "data")
      /\ UNCHANGED <<handler, table, connected, reader, writer, queue, socket, wrote,
                     exit, data, recv, lost>>
  BY DEF ReadData, connVars, loopVars
<1>2. /\ sent' \in [Conns -> Seq({"open", "data", "close"})]
      /\ \A d \in Conns \ {c} : sent'[d] = sent[d]
      /\ sent'[c] # <<>>
  BY <1>1, SendFacts
<1>3. sent[c] # <<>> /\ exit[c] # "silent" /\ handler[c] = "done"
  BY <1>1 DEF QuietInv
<1>4. TypeOK'
  BY <1>1, <1>2 DEF TypeOK
<1>5. Concerns(c)
  BY <1>1, <1>2 DEF Concerns, Same
<1>6. ToldInv(c)'
  BY <1>1, <1>3, SendTold
<1>7. QuietInv(c)' /\ LoopInv(c)' /\ DataInv(c)'
  BY <1>1, <1>2, <1>3 DEF QuietInv, LoopInv, DataInv, At, Closing, TypeOK
<1> QED  BY <1>4, <1>5, <1>6, <1>7, OneStep

LEMMA ReadLoopEndsStep == ASSUME LocalInv, NEW c \in Conns, ReadLoopEnds(c) PROVE LocalInv'
<1> USE DEF LocalInv, ConnInv
<1>1. /\ reader[c] \in {"running", "cancelled"} /\ reader' = [reader EXCEPT ![c] = "done"]
      /\ connected' = [connected EXCEPT ![c] = FALSE]
      /\ writer' = [writer EXCEPT ![c] = Cancelled(writer[c])]
      /\ CloseSocket(c) /\ Send(c, "close") /\ table' = table \ {c}
      /\ UNCHANGED <<handler, queue, wrote, exit, data, recv, lost>>
  BY DEF ReadLoopEnds
<1>2. /\ sent' \in [Conns -> Seq({"open", "data", "close"})]
      /\ \A d \in Conns \ {c} : sent'[d] = sent[d]
      /\ sent'[c] # <<>>
  BY <1>1, SendFacts
<1>3. sent[c] # <<>> /\ exit[c] # "silent" /\ handler[c] = "done"
  BY <1>1 DEF QuietInv
<1>4. TypeOK'
  BY <1>1, <1>2 DEF TypeOK, CloseSocket, Cancelled
<1>5. Concerns(c)
  BY <1>1, <1>2 DEF Concerns, Same, CloseSocket, TypeOK
<1>6. ToldInv(c)'
  BY <1>1, <1>3, SendTold DEF TypeOK
<1>7. QuietInv(c)'
  BY <1>1, <1>2, <1>3 DEF QuietInv, TypeOK
<1>8. LoopInv(c)'
  BY <1>1, <1>3 DEF LoopInv, At, Closing, TypeOK, Cancelled
<1>9. DataInv(c)'
  BY <1>1 DEF DataInv, CloseSocket, At, Closing, TypeOK
<1> QED  BY <1>4, <1>5, <1>6, <1>7, <1>8, <1>9, OneStep

LEMMA WriteNextStep == ASSUME LocalInv, NEW c \in Conns, WriteNext(c) PROVE LocalInv'
<1> USE DEF LocalInv, ConnInv
<1> DEFINE Q == queue[c]
           T == Tail(Q)
           W == wrote[c]
           R == Append(W, Head(Q))
<1>1. /\ writer[c] = "waiting" /\ Q # <<>> /\ reader[c] # "created"
      /\ wrote' = IF socket[c] = "closed" THEN wrote ELSE [wrote EXCEPT ![c] = R]
      /\ queue' = [queue EXCEPT ![c] = T]
      /\ writer' = [writer EXCEPT ![c] = "draining"]
      /\ UNCHANGED <<handler, table, connected, reader, socket, sent, exit, data, recv, lost>>
  BY DEF WriteNext, connVars, peerVars
<1>2. Q \in Seq(1 .. MaxData) /\ W \in Seq(1 .. MaxData) /\ Len(Q) <= MaxWrite
  BY DEF TypeOK
<1>3. /\ Head(Q) \in 1 .. MaxData /\ Head(Q) = Q[1] /\ T \in Seq(1 .. MaxData)
      /\ Len(Q) \in Nat /\ Len(Q) >= 1 /\ Len(T) = Len(Q) - 1
      /\ DOMAIN Q = 1 .. Len(Q) /\ DOMAIN T = 1 .. Len(Q) - 1
      /\ \A n \in 1 .. Len(Q) - 1 : T[n] = Q[n + 1]
  BY <1>1, <1>2, TailFacts
<1>4. /\ R \in Seq(1 .. MaxData) /\ Len(W) \in Nat /\ Len(R) = Len(W) + 1
      /\ DOMAIN W = 1 .. Len(W) /\ DOMAIN R = 1 .. Len(W) + 1
      /\ \A n \in 1 .. Len(W) : R[n] = W[n]
      /\ R[Len(W) + 1] = Head(Q)
  BY <1>2, <1>3, AppendFacts
<1> HIDE DEF T, R
<1>5. /\ queue'[c] = T /\ \A d \in Conns \ {c} : queue'[d] = queue[d] /\ wrote'[d] = wrote[d]
      /\ wrote'[c] = IF socket[c] = "closed" THEN W ELSE R
      /\ queue' \in [Conns -> Seq(1 .. MaxData)] /\ wrote' \in [Conns -> Seq(1 .. MaxData)]
  BY <1>1, <1>3, <1>4 DEF TypeOK
<1>6. Len(T) <= MaxWrite
  BY <1>2, <1>3, LocalAssumption
<1>7. TypeOK'
  BY <1>1, <1>5, <1>6 DEF TypeOK
<1>8. Concerns(c)
  BY <1>1, <1>5 DEF Concerns, Same, TypeOK
<1>9. exit[c] # "silent" /\ sent[c] # <<>> /\ reader[c] # "none"
  BY <1>1 DEF QuietInv, LoopInv
<1>10. ToldInv(c)' /\ QuietInv(c)' /\ LoopInv(c)'
  BY <1>1, <1>9 DEF ToldInv, QuietInv, LoopInv, At, Closing, TypeOK
<1>11. DataInv(c)'
  <2>1. CASE socket[c] = "closed"
    BY <2>1, <1>1, <1>5 DEF DataInv
  <2>2. CASE socket[c] # "closed"
    <3>1. /\ \A n \in 1 .. Len(W) : W[n] = n
          /\ \A n \in 1 .. Len(Q) : Q[n] = Len(W) + n
      BY <2>2, <1>3, <1>4 DEF DataInv
    <3>2. wrote'[c] = R /\ queue'[c] = T /\ socket'[c] # "closed"
      BY <2>2, <1>1, <1>5
    <3> HIDE DEF Q, W
    <3>3. Q[1] = Len(W) + 1
      BY <3>1, <1>3
    <3>4. ASSUME NEW n \in 1 .. Len(W) + 1 PROVE R[n] = n
      BY <3>1, <3>3, <1>3, <1>4
    <3>5. ASSUME NEW n \in 1 .. Len(Q) - 1 PROVE T[n] = Len(R) + n
      <4>1. n + 1 \in 1 .. Len(Q)
        BY <1>3
      <4>2. T[n] = Len(W) + (n + 1)
        BY <4>1, <3>1, <1>3
      <4> QED  BY <4>2, <1>4
    <3>6. Len(R) + Len(T) = Len(W) + Len(Q)
      BY ONLY <1>3, <1>4
    <3> USE DEF Q, W
    <3> QED  BY <2>2, <3>2, <3>4, <3>5, <3>6, <1>1, <1>3, <1>4 DEF DataInv, At, Closing
  <2> QED  BY <2>1, <2>2
<1> QED  BY <1>7, <1>8, <1>10, <1>11, OneStep

LEMMA WriteDrainedStep == ASSUME LocalInv, NEW c \in Conns, WriteDrained(c) PROVE LocalInv'
<1> USE DEF LocalInv, ConnInv, WriteDrained, connVars, peerVars
<1>1. TypeOK'
  BY DEF TypeOK
<1>2. Concerns(c)
  BY DEF Concerns, Same, TypeOK
<1>3. exit[c] # "silent" /\ sent[c] # <<>>
  BY DEF QuietInv, LoopInv
<1>4. ToldInv(c)' /\ QuietInv(c)'
  BY <1>3 DEF ToldInv, QuietInv, TypeOK, LoopInv, At
<1>5. LoopInv(c)'
  BY <1>3 DEF LoopInv, QuietInv, At, Closing, TypeOK
<1>6. DataInv(c)'
  BY DEF DataInv, At, Closing, TypeOK
<1> QED  BY <1>1, <1>2, <1>4, <1>5, <1>6, OneStep

LEMMA WriteRaisesStep == ASSUME LocalInv, NEW c \in Conns, WriteRaises(c) PROVE LocalInv'
<1> USE DEF LocalInv, ConnInv, WriteRaises, CancelReader, connVars, peerVars
<1>1. TypeOK'
  BY DEF TypeOK
<1>2. Concerns(c)
  BY DEF Concerns, Same, TypeOK
<1>3. exit[c] # "silent" /\ sent[c] # <<>>
  BY DEF QuietInv, LoopInv
<1>4. ToldInv(c)' /\ QuietInv(c)'
  BY <1>3 DEF ToldInv, QuietInv, TypeOK, LoopInv, At
<1>5. LoopInv(c)'
  BY <1>3 DEF LoopInv, QuietInv, At, Closing, TypeOK
<1>6. DataInv(c)'
  BY DEF DataInv, At, Closing, TypeOK
<1> QED  BY <1>1, <1>2, <1>4, <1>5, <1>6, OneStep

LEMMA WriteLoopEndsStep == ASSUME LocalInv, NEW c \in Conns, WriteLoopEnds(c) PROVE LocalInv'
<1> USE DEF LocalInv, ConnInv, WriteLoopEnds, connVars, peerVars
<1>1. TypeOK'
  BY DEF TypeOK
<1>2. Concerns(c)
  BY DEF Concerns, Same, TypeOK
<1>3. exit[c] # "silent" /\ sent[c] # <<>>
  BY DEF QuietInv, LoopInv
<1>4. ToldInv(c)' /\ QuietInv(c)'
  BY <1>3 DEF ToldInv, QuietInv, TypeOK, LoopInv, At
<1>5. LoopInv(c)'
  BY <1>3 DEF LoopInv, QuietInv, At, Closing, TypeOK
<1>6. DataInv(c)'
  BY DEF DataInv, At, Closing, TypeOK
<1> QED  BY <1>1, <1>2, <1>4, <1>5, <1>6, OneStep

(***************************************************************************)
(* Every step                                                              *)
(***************************************************************************)

LEMMA LocalInit == Init => LocalInv
<1> SUFFICES ASSUME Init PROVE LocalInv
  OBVIOUS
<1>1. TypeOK
  BY LocalAssumption DEF Init, TypeOK
<1>2. ASSUME NEW c \in Conns PROVE ConnInv(c)
  <2>1. DOMAIN <<>> = {}
    OBVIOUS
  <2>2. \A w \in {"answer", "refuse", "reader", "writer", "socket"} : ~At(w, c)
    BY NotNone DEF Init, At
  <2>3. ToldInv(c)
    BY <2>1 DEF Init, ToldInv
  <2>4. QuietInv(c)
    BY <2>2 DEF Init, QuietInv
  <2>5. LoopInv(c)
    BY <2>2 DEF Init, LoopInv
  <2>6. DataInv(c)
    BY <2>1 DEF Init, DataInv
  <2> QED  BY <2>3, <2>4, <2>5, <2>6 DEF ConnInv
<1> QED  BY <1>1, <1>2 DEF LocalInv

LEMMA LocalStep == LocalInv /\ [Next]_vars => LocalInv'
<1> SUFFICES ASSUME LocalInv, [Next]_vars PROVE LocalInv'
  OBVIOUS
<1>1. CASE RecvLoop
  BY <1>1, AnsweredStep, RefusedStep, AnswerRaisesStep, ReaderAwaitedStep, WriterAwaitedStep,
     SocketAwaitedStep DEF RecvLoop
<1>2. ASSUME NEW c \in Conns, Frame(c) PROVE LocalInv'
  BY <1>2, OpenResponseStep, DataStep, CloseStep DEF Frame
<1>3. ASSUME NEW c \in Conns, WriteLoop(c) PROVE LocalInv'
  BY <1>3, WriteNextStep, WriteDrainedStep, WriteRaisesStep, WriteLoopEndsStep DEF WriteLoop
<1>4. CASE UNCHANGED vars
  <2>1. TypeOK'
    BY <1>4 DEF vars, connVars, loopVars, peerVars, LocalInv, TypeOK
  <2>2. ASSUME NEW c \in Conns PROVE ConnInv(c)'
    <3>1. /\ UNCHANGED <<handler, table, connected, reader, writer, queue, socket, wrote>>
          /\ UNCHANGED <<sent, exit, data, recv, lost>>
      BY <1>4 DEF vars, connVars, loopVars, peerVars
    <3>3. \A w : At(w, c)' <=> At(w, c)
      BY <3>1 DEF At
    <3>4. ToldInv(c)' /\ QuietInv(c)'
      BY <3>1, <3>3 DEF LocalInv, ConnInv, ToldInv, QuietInv
    <3>5. LoopInv(c)' /\ DataInv(c)'
      BY <3>1, <3>3 DEF LocalInv, ConnInv, LoopInv, DataInv, Closing
    <3> QED  BY <3>4, <3>5 DEF ConnInv
  <2> QED  BY <2>1, <2>2 DEF LocalInv
<1> QED  BY <1>1, <1>2, <1>3, <1>4, AcceptStep, HandshakeSucceedsStep, HandshakeFailsStep,
            HandshakeClosedStep, ReaderBeginsStep, ReadDataStep, ReadLoopEndsStep,
            SocketClosesStep DEF Next

LEMMA AlwaysLocalInv == Spec => []LocalInv
BY LocalInit, LocalStep, PTL DEF Spec

(***************************************************************************)
(* What the local proxy promises                                           *)
(***************************************************************************)

\* Every variable has the values its comment gives, and no write queue outgrows its limit.
THEOREM LocalTypes == Spec => []TypeOK
<1>1. LocalInv => TypeOK
  BY DEF LocalInv
<1> QED  BY <1>1, AlwaysLocalInv, PTL

\* Whichever of its three coroutines closes a connection, the exit node sees OPEN, DATA
\* and at most one CLOSE; and a stream that it holds open is forgotten without a CLOSE
\* only if it is closed while it is being answered or before its read loop begins
\* (client/local_proxy.py:145-159, 286-302).
THEOREM ExitHearsOneClose == Spec => []ExitIsToldOnce
<1>1. LocalInv => ExitIsToldOnce
  BY DEF LocalInv, ConnInv, ToldInv, LoopInv, ExitIsToldOnce, ToldOnce, ExitIsTold
<1> QED  BY <1>1, AlwaysLocalInv, PTL

\* An application reads a prefix of what the exit node sent it, also when its queue
\* overflows (client/local_proxy.py:114-129).
THEOREM ApplicationReadsInOrder == Spec => []InOrder
<1>1. LocalInv => InOrder
  BY DEF LocalInv, ConnInv, DataInv, InOrder
<1> QED  BY <1>1, AlwaysLocalInv, PTL

\* A connection whose read loop is over is in the table only while the receive loop is
\* closing it.
THEOREM NoConnectionLeaks == Spec => []NoLeak
<1>1. LocalInv => NoLeak
  <2> SUFFICES ASSUME LocalInv, NEW c \in table, reader[c] = "done"
               PROVE  recv # None /\ recv[2] = c
    BY DEF NoLeak
  <2>1. c \in Conns /\ Closing(c)
    BY DEF LocalInv, TypeOK, ConnInv, LoopInv
  <2> QED  BY <2>1, NotNone DEF Closing, At
<1> QED  BY <1>1, AlwaysLocalInv, PTL
=============================================================================
