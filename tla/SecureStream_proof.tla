------------------------- MODULE SecureStream_proof -------------------------
(***************************************************************************)
(* Each end hands on what the other one was given, in order, without a     *)
(* hole and up to the end, for all secrets, read sizes and numbers of      *)
(* frames, if a sealed read fits into a frame; and with different secrets  *)
(* it gets nothing.                                                        *)
(*                                                                         *)
(* The frames of one end travel through its send queue, the tunnel and the *)
(* receive queue of its peer.  The invariant is that these three, one      *)
(* after the other, hold consecutive numbers, of which the last is that of *)
(* the latest frame; so what the peer takes next is the successor of what  *)
(* it took last.                                                           *)
(***************************************************************************)
EXTENDS SecureStream, TLAPS

Openings == {"open", "ok", "fail"}

\* What an end puts into its send queue: its first frame opens, none later does.
Sendable(e) ==
    {f \in Frame : /\ f.n = 0 <=> f.kind \in Openings
                   /\ f.kind = "open" => e = "client"
                   /\ f.kind \in {"ok", "fail"} => e = "exit"
                   /\ f.size + Overhead <= MaxPayload}

\* What arrives of it.
Arriving(e, k) ==
    {f \in Sealed : /\ f.n = 0 <=> f.kind \in Openings
                    /\ f.kind = "open" => e = "client"
                    /\ f.kind \in {"ok", "fail"} => e = "exit"
                    /\ f.seal = k}

\* The frames of q are numbered on from first.
Numbered(q, first) == \A i \in 1 .. Len(q) : q[i].n = first + i - 1

\* A CLOSE is the last frame of an end that is over.
IsOver(state) == state \in {"ended", "told"}
CloseLast(q, s, state) ==
    \A i \in 1 .. Len(q) : q[i].kind = "close" => IsOver(state) /\ q[i].n = s - 1

\* The frames of one end, of which it has sent s: sq in its send queue, w on the
\* wire, rq in the receive queue of its peer.
Pipe(e, k, sq, w, rq, s, state) ==
    /\ s \in Nat
    /\ sq \in Seq(Sendable(e)) /\ w \in Seq(Arriving(e, k)) /\ rq \in Seq(Arriving(e, k))
    /\ Numbered(sq, s - Len(sq))
    /\ Numbered(w, s - Len(sq) - Len(w))
    /\ Numbered(rq, s - Len(sq) - Len(w) - Len(rq))
    /\ s - Len(sq) - Len(w) - Len(rq) >= 0
    /\ CloseLast(sq, s, state) /\ CloseLast(w, s, state) /\ CloseLast(rq, s, state)

\* How many frames of e its peer has taken.
Taken(e) == sent[e] - Len(sendq[e]) - Len(wire[e]) - Len(recvq[Peer(e)])

\* What an end knows agrees with how many frames of its peer it has taken.
EndOK(e) ==
    /\ stream[e] # "astray"
    /\ stream[e] \in {"none", "asked"} <=> Taken(Peer(e)) = 0
    /\ stream[e] = "none" <=> sent[e] = 0
    /\ stream[e] = "asked" => e = "client" /\ sent[e] = 1
    /\ stream[e] \in {"none", "asked"} => got[e] = <<>>
    /\ stream[e] = "up" => Len(got[e]) + 1 = Taken(Peer(e)) /\ sent[e] < MaxFrames
    /\ stream[e] = "told" => Len(got[e]) + 2 = sent[Peer(e)] /\ IsOver(stream[Peer(e)])

PipeOK(e) == Pipe(e, key[e], sendq[e], wire[e], recvq[Peer(e)], sent[e], stream[e])

Agreed == \A e \in Ends : PipeOK(e) /\ EndOK(e)

\* With different secrets only the OPEN can arrive anywhere.
Apart ==
    /\ recvq["client"] = <<>>
    /\ stream["client"] \in {"none", "asked"} /\ stream["exit"] # "up"
    /\ \A e \in Ends : got[e] = <<>> /\ stream[e] \notin {"ended", "told"}
    /\ stream["client"] = "none" => sent["client"] = 0
    /\ sent["client"] <= 1
    /\ Len(sendq["client"]) + Len(wire["client"]) + Len(recvq["exit"]) + sent["exit"] <= sent["client"]
    /\ Len(sendq["exit"]) + Len(wire["exit"]) <= sent["exit"]
    /\ \A e \in Ends : \A i \in 1 .. Len(wire[e]) : wire[e][i].seal = key[e]
    /\ \A i \in 1 .. Len(recvq["exit"]) :
        recvq["exit"][i].seal = key["client"] /\ key["exit"] = NoSecret
    /\ key["exit"] # NoSecret => stream["exit"] = "none" /\ sent["exit"] = 0

\* The inductive invariant.
StreamInv ==
    /\ TypeOK /\ Intact
    /\ key["client"] = key["exit"] => Agreed
    /\ key["client"] # key["exit"] => Apart

-----------------------------------------------------------------------------
(* Facts about sequences of frames *)

LEMMA TailFacts ==
    ASSUME NEW S, NEW q \in Seq(S), q # <<>>
    PROVE  /\ Head(q) \in S /\ Head(q) = q[1] /\ Tail(q) \in Seq(S)
           /\ Len(q) \in Nat /\ Len(q) >= 1 /\ Len(Tail(q)) = Len(q) - 1
           /\ \A i \in 1 .. Len(q) - 1 : Tail(q)[i] = q[i + 1]
  OBVIOUS

LEMMA AppendFacts ==
    ASSUME NEW S, NEW q \in Seq(S), NEW f \in S
    PROVE  /\ Append(q, f) \in Seq(S)
           /\ Len(q) \in Nat /\ Len(Append(q, f)) = Len(q) + 1
           /\ \A i \in 1 .. Len(q) : Append(q, f)[i] = q[i]
           /\ Append(q, f)[Len(q) + 1] = f
  OBVIOUS

LEMMA NumberedTail ==
    ASSUME NEW S, NEW q \in Seq(S), q # <<>>, NEW a \in Int, Numbered(q, a),
           NEW s, NEW state, CloseLast(q, s, state)
    PROVE  /\ Head(q).n = a /\ Numbered(Tail(q), a + 1) /\ CloseLast(Tail(q), s, state)
           /\ Head(q).kind = "close" => IsOver(state) /\ Head(q).n = s - 1
<1>1. /\ Head(q) = q[1] /\ Len(q) \in Nat /\ Len(q) >= 1 /\ Len(Tail(q)) = Len(q) - 1
      /\ \A i \in 1 .. Len(q) - 1 : Tail(q)[i] = q[i + 1]
  BY TailFacts
<1>2. Head(q).n = a /\ (Head(q).kind = "close" => IsOver(state) /\ Head(q).n = s - 1)
  BY <1>1 DEF Numbered, CloseLast
<1>3. Numbered(Tail(q), a + 1)
  <2> SUFFICES ASSUME NEW i \in 1 .. Len(q) - 1
               PROVE  Tail(q)[i].n = (a + 1) + i - 1
    BY <1>1 DEF Numbered
  <2>1. Tail(q)[i] = q[i + 1] /\ i + 1 \in 1 .. Len(q)
    BY <1>1
  <2>2. q[i + 1].n = a + (i + 1) - 1
    BY <2>1 DEF Numbered
  <2>3. a + (i + 1) - 1 = (a + 1) + i - 1
    <3>1. i \in Int
      OBVIOUS
    <3> QED BY ONLY <3>1, a \in Int
  <2> QED BY <2>1, <2>2, <2>3
<1>4. CloseLast(Tail(q), s, state)
  <2> SUFFICES ASSUME NEW i \in 1 .. Len(q) - 1, Tail(q)[i].kind = "close"
               PROVE  IsOver(state) /\ Tail(q)[i].n = s - 1
    BY <1>1 DEF CloseLast
  <2>1. Tail(q)[i] = q[i + 1] /\ i + 1 \in 1 .. Len(q)
    BY <1>1
  <2> QED BY <2>1 DEF CloseLast
<1> QED BY <1>2, <1>3, <1>4

LEMMA NumberedAppend ==
    ASSUME NEW S, NEW q \in Seq(S), NEW f \in S, NEW a \in Int, Numbered(q, a),
           f.n = a + Len(q), NEW s, NEW state, CloseLast(q, s, state),
           f.kind = "close" => IsOver(state) /\ f.n = s - 1
    PROVE  Numbered(Append(q, f), a) /\ CloseLast(Append(q, f), s, state)
<1>1. /\ Len(q) \in Nat /\ Len(Append(q, f)) = Len(q) + 1
      /\ \A i \in 1 .. Len(q) : Append(q, f)[i] = q[i]
      /\ Append(q, f)[Len(q) + 1] = f
  BY AppendFacts
<1>2. ASSUME NEW i \in 1 .. Len(q) + 1
      PROVE  /\ Append(q, f)[i].n = a + i - 1
             /\ Append(q, f)[i].kind = "close" => IsOver(state) /\ Append(q, f)[i].n = s - 1
  <2>1. CASE i = Len(q) + 1
    <3>1. a + Len(q) = a + i - 1
      BY ONLY <2>1, <1>1, a \in Int
    <3> QED BY <2>1, <3>1, <1>1
  <2>2. CASE i \in 1 .. Len(q)
    BY <2>2, <1>1 DEF Numbered, CloseLast
  <2> QED BY <2>1, <2>2, <1>1
<1> QED BY <1>1, <1>2 DEF Numbered, CloseLast

LEMMA PeerFacts ==
    ASSUME NEW e \in Ends
    PROVE  Peer(e) \in Ends /\ Peer(Peer(e)) = e /\ Peer(e) # e /\ Ends = {e, Peer(e)}
  BY DEF Ends, Peer
-----------------------------------------------------------------------------
(* The four things that happen to a pipe *)

\* An end that is not over queues its next frame.
LEMMA PipeQueues ==
    ASSUME NEW e \in Ends, NEW k \in Keys, NEW sq, NEW w, NEW rq, NEW s,
           NEW state, NEW next, ~IsOver(state), Pipe(e, k, sq, w, rq, s, state),
           NEW f \in Sendable(e), f.n = s, f.kind = "close" => IsOver(next)
    PROVE  /\ Pipe(e, k, Append(sq, f), w, rq, s + 1, next)
           /\ Len(Append(sq, f)) = Len(sq) + 1
<1>1. /\ s \in Nat /\ sq \in Seq(Sendable(e)) /\ w \in Seq(Arriving(e, k)) /\ rq \in Seq(Arriving(e, k))
      /\ Numbered(sq, s - Len(sq)) /\ Numbered(w, s - Len(sq) - Len(w))
      /\ Numbered(rq, s - Len(sq) - Len(w) - Len(rq)) /\ s - Len(sq) - Len(w) - Len(rq) >= 0
      /\ CloseLast(sq, s, state) /\ CloseLast(w, s, state) /\ CloseLast(rq, s, state)
  BY DEF Pipe
<1>2. Append(sq, f) \in Seq(Sendable(e)) /\ Len(Append(sq, f)) = Len(sq) + 1
  BY <1>1, AppendFacts
<1>3. Len(sq) \in Nat /\ Len(w) \in Nat /\ Len(rq) \in Nat
  BY <1>1
<1>4. \A q : CloseLast(q, s, state) => CloseLast(q, s + 1, next)
  BY DEF CloseLast
<1>5. Numbered(Append(sq, f), s - Len(sq)) /\ CloseLast(Append(sq, f), s + 1, next)
  <2>1. s - Len(sq) \in Int /\ f.n = (s - Len(sq)) + Len(sq) /\ f.n = (s + 1) - 1
    BY <1>1, <1>3
  <2> QED BY <1>1, <1>4, <2>1, NumberedAppend
<1>6. /\ (s + 1) - (Len(sq) + 1) = s - Len(sq)
      /\ s + 1 \in Nat
  BY <1>1, <1>3
<1> QED BY <1>1, <1>2, <1>4, <1>5, <1>6 DEF Pipe

\* The send loop seals a frame and puts it on the wire.
LEMMA PipeSends ==
    ASSUME NEW e \in Ends, NEW k \in Keys, NEW sq, NEW w, NEW rq, NEW s, NEW state,
           Pipe(e, k, sq, w, rq, s, state), sq # <<>>,
           NEW f \in Arriving(e, k), f.n = Head(sq).n, f.kind = Head(sq).kind
    PROVE  /\ Pipe(e, k, Tail(sq), Append(w, f), rq, s, state)
           /\ Len(Tail(sq)) = Len(sq) - 1 /\ Len(Append(w, f)) = Len(w) + 1
<1>1. /\ s \in Nat /\ sq \in Seq(Sendable(e)) /\ w \in Seq(Arriving(e, k)) /\ rq \in Seq(Arriving(e, k))
      /\ Numbered(sq, s - Len(sq)) /\ Numbered(w, s - Len(sq) - Len(w))
      /\ Numbered(rq, s - Len(sq) - Len(w) - Len(rq)) /\ s - Len(sq) - Len(w) - Len(rq) >= 0
      /\ CloseLast(sq, s, state) /\ CloseLast(w, s, state) /\ CloseLast(rq, s, state)
  BY DEF Pipe
<1>2. /\ Tail(sq) \in Seq(Sendable(e)) /\ Len(Tail(sq)) = Len(sq) - 1 /\ Len(sq) \in Nat
  BY <1>1, TailFacts
<1>3. /\ Append(w, f) \in Seq(Arriving(e, k)) /\ Len(Append(w, f)) = Len(w) + 1
      /\ Len(w) \in Nat /\ Len(rq) \in Nat
  BY <1>1, AppendFacts
<1>4. s - Len(sq) \in Int /\ s - Len(sq) - Len(w) \in Int
  BY <1>1, <1>2, <1>3
<1>5. /\ Head(sq).n = s - Len(sq) /\ Numbered(Tail(sq), (s - Len(sq)) + 1)
      /\ CloseLast(Tail(sq), s, state) /\ (Head(sq).kind = "close" => IsOver(state) /\ Head(sq).n = s - 1)
  BY <1>1, <1>4, NumberedTail
<1>6. Numbered(Append(w, f), s - Len(sq) - Len(w)) /\ CloseLast(Append(w, f), s, state)
  <2>1. f.n = (s - Len(sq) - Len(w)) + Len(w)
    BY <1>5, <1>1, <1>2, <1>3
  <2> QED BY <1>1, <1>4, <1>5, <2>1, NumberedAppend
<1>7. /\ s - (Len(sq) - 1) = (s - Len(sq)) + 1
      /\ s - (Len(sq) - 1) - (Len(w) + 1) = s - Len(sq) - Len(w)
  BY <1>1, <1>2, <1>3
<1> QED BY <1>1, <1>2, <1>3, <1>5, <1>6, <1>7 DEF Pipe

\* The tunnel's callback puts a frame into the receive queue.
LEMMA PipeReceives ==
    ASSUME NEW e \in Ends, NEW k \in Keys, NEW sq, NEW w, NEW rq, NEW s, NEW state,
           Pipe(e, k, sq, w, rq, s, state), w # <<>>
    PROVE  /\ Pipe(e, k, sq, Tail(w), Append(rq, Head(w)), s, state)
           /\ Len(Tail(w)) = Len(w) - 1 /\ Len(Append(rq, Head(w))) = Len(rq) + 1
<1>1. /\ s \in Nat /\ sq \in Seq(Sendable(e)) /\ w \in Seq(Arriving(e, k)) /\ rq \in Seq(Arriving(e, k))
      /\ Numbered(sq, s - Len(sq)) /\ Numbered(w, s - Len(sq) - Len(w))
      /\ Numbered(rq, s - Len(sq) - Len(w) - Len(rq)) /\ s - Len(sq) - Len(w) - Len(rq) >= 0
      /\ CloseLast(sq, s, state) /\ CloseLast(w, s, state) /\ CloseLast(rq, s, state)
  BY DEF Pipe
<1>2. /\ Tail(w) \in Seq(Arriving(e, k)) /\ Len(Tail(w)) = Len(w) - 1 /\ Len(w) \in Nat
      /\ Head(w) \in Arriving(e, k)
  BY <1>1, TailFacts
<1>3. /\ Append(rq, Head(w)) \in Seq(Arriving(e, k)) /\ Len(Append(rq, Head(w))) = Len(rq) + 1
      /\ Len(sq) \in Nat /\ Len(rq) \in Nat
  BY <1>1, <1>2, AppendFacts
<1>4. s - Len(sq) - Len(w) \in Int /\ s - Len(sq) - Len(w) - Len(rq) \in Int
  BY <1>1, <1>2, <1>3
<1>5. /\ Head(w).n = s - Len(sq) - Len(w) /\ Numbered(Tail(w), (s - Len(sq) - Len(w)) + 1)
      /\ CloseLast(Tail(w), s, state) /\ (Head(w).kind = "close" => IsOver(state) /\ Head(w).n = s - 1)
  BY <1>1, <1>4, NumberedTail
<1>6. /\ Numbered(Append(rq, Head(w)), s - Len(sq) - Len(w) - Len(rq))
      /\ CloseLast(Append(rq, Head(w)), s, state)
  <2>1. Head(w).n = (s - Len(sq) - Len(w) - Len(rq)) + Len(rq)
    BY <1>5, <1>1, <1>2, <1>3
  <2> QED BY <1>1, <1>2, <1>4, <1>5, <2>1, NumberedAppend
<1>7. /\ s - Len(sq) - (Len(w) - 1) = (s - Len(sq) - Len(w)) + 1
      /\ s - Len(sq) - (Len(w) - 1) - (Len(rq) + 1) = s - Len(sq) - Len(w) - Len(rq)
  BY <1>1, <1>2, <1>3
<1> QED BY <1>1, <1>2, <1>3, <1>5, <1>6, <1>7 DEF Pipe

\* The receive loop takes a frame: the one after those it has taken before.
LEMMA PipeTakes ==
    ASSUME NEW e \in Ends, NEW k \in Keys, NEW sq, NEW w, NEW rq, NEW s, NEW state,
           Pipe(e, k, sq, w, rq, s, state), rq # <<>>
    PROVE  Pipe(e, k, sq, w, Tail(rq), s, state)
<1>1. /\ s \in Nat /\ sq \in Seq(Sendable(e)) /\ w \in Seq(Arriving(e, k)) /\ rq \in Seq(Arriving(e, k))
      /\ Numbered(sq, s - Len(sq)) /\ Numbered(w, s - Len(sq) - Len(w))
      /\ Numbered(rq, s - Len(sq) - Len(w) - Len(rq)) /\ s - Len(sq) - Len(w) - Len(rq) >= 0
      /\ CloseLast(sq, s, state) /\ CloseLast(w, s, state) /\ CloseLast(rq, s, state)
  BY DEF Pipe
<1>2. /\ Tail(rq) \in Seq(Arriving(e, k)) /\ Len(Tail(rq)) = Len(rq) - 1 /\ Len(rq) \in Nat
      /\ Head(rq) \in Arriving(e, k)
  BY <1>1, TailFacts
<1>3. Len(sq) \in Nat /\ Len(w) \in Nat
  BY <1>1
<1>4. s - Len(sq) - Len(w) - Len(rq) \in Int
  BY <1>1, <1>2, <1>3
<1>5. /\ Head(rq).n = s - Len(sq) - Len(w) - Len(rq)
      /\ Numbered(Tail(rq), (s - Len(sq) - Len(w) - Len(rq)) + 1)
      /\ CloseLast(Tail(rq), s, state) /\ (Head(rq).kind = "close" => IsOver(state) /\ Head(rq).n = s - 1)
  BY <1>1, <1>4, NumberedTail
<1>6. /\ s - Len(sq) - Len(w) - (Len(rq) - 1) = (s - Len(sq) - Len(w) - Len(rq)) + 1
      /\ (s - Len(sq) - Len(w) - Len(rq)) + 1 >= 0
  BY <1>1, <1>2, <1>3
<1> QED BY <1>1, <1>2, <1>3, <1>5, <1>6 DEF Pipe

LEMMA PipeHead ==
    ASSUME NEW e \in Ends, NEW k \in Keys, NEW sq, NEW w, NEW rq, NEW s, NEW state,
           Pipe(e, k, sq, w, rq, s, state), rq # <<>>,
           NEW taken, taken = s - Len(sq) - Len(w) - Len(rq)
    PROVE  /\ Len(Tail(rq)) = Len(rq) - 1 /\ Head(rq) \in Arriving(e, k) /\ Head(rq).n = taken
           /\ Head(rq).kind = "close" => IsOver(state) /\ taken = s - 1
<1>1. /\ s \in Nat /\ sq \in Seq(Sendable(e)) /\ w \in Seq(Arriving(e, k)) /\ rq \in Seq(Arriving(e, k))
      /\ Numbered(rq, taken) /\ CloseLast(rq, s, state)
  BY DEF Pipe
<1>2. taken \in Int
  <2>1. Len(sq) \in Nat /\ Len(w) \in Nat /\ Len(rq) \in Nat
    BY <1>1
  <2> QED BY <1>1, <2>1
<1> QED BY <1>1, <1>2, TailFacts, NumberedTail

-----------------------------------------------------------------------------
(* The same secret at both ends *)

LEMMA ReadSizesAreNat == ReadSizes \subseteq Nat
<1>1. ReadSizes \subseteq 1 .. MaxRead
  BY StreamAssumption
<1>2. 1 .. MaxRead \subseteq Nat
  BY DEF MaxRead
<1> QED BY <1>1, <1>2

LEMMA MaxFramesIsNat == MaxFrames \in Nat /\ MaxFrames >= 2
  BY StreamAssumption

\* What TypeOK says of one end.
LEMMA Typed ==
    ASSUME TypeOK, NEW e \in Ends
    PROVE  /\ key[e] \in Keys /\ stream[e] \in {"none", "asked", "up", "astray", "refused", "ended", "told"}
           /\ sent[e] \in 0 .. MaxFrames /\ sent[e] \in Nat /\ got[e] \in Seq(Nat)
           /\ sendq[e] \in Seq(Frame) /\ wire[e] \in Seq(Sealed) /\ recvq[e] \in Seq(Sealed)
           /\ Len(sendq[e]) \in Nat /\ Len(wire[e]) \in Nat /\ Len(recvq[e]) \in Nat /\ Len(got[e]) \in Nat
<1>1. sent[e] \in 0 .. MaxFrames
  BY DEF TypeOK
<1>2. MaxFrames \in Nat
  BY MaxFramesIsNat
<1>3. sent[e] \in Nat
  BY ONLY <1>1, <1>2
<1> QED BY <1>1, <1>3 DEF TypeOK

\* What becomes of the number of frames taken when one frame of e moves on.
LEMMA Counts ==
    ASSUME TypeOK, NEW e \in Ends
    PROVE  /\ Taken(e) \in Int
           /\ sent[e] - (Len(sendq[e]) - 1) - (Len(wire[e]) + 1) - Len(recvq[Peer(e)]) = Taken(e)
           /\ sent[e] - Len(sendq[e]) - (Len(wire[e]) - 1) - (Len(recvq[Peer(e)]) + 1) = Taken(e)
           /\ sent[e] - Len(sendq[e]) - Len(wire[e]) - (Len(recvq[Peer(e)]) - 1) = Taken(e) + 1
           /\ (sent[e] + 1) - (Len(sendq[e]) + 1) - Len(wire[e]) - Len(recvq[Peer(e)]) = Taken(e)
<1> DEFINE s == sent[e]
           a == Len(sendq[e])
           b == Len(wire[e])
           c == Len(recvq[Peer(e)])
<1>1. s \in Nat /\ a \in Nat /\ b \in Nat /\ c \in Nat
  BY Typed, PeerFacts
<1> HIDE DEF s, a, b, c
<1>2. /\ s - a - b - c \in Int
      /\ s - (a - 1) - (b + 1) - c = s - a - b - c
      /\ s - a - (b - 1) - (c + 1) = s - a - b - c
      /\ s - a - b - (c - 1) = (s - a - b - c) + 1
      /\ (s + 1) - (a + 1) - b - c = s - a - b - c
  BY <1>1
<1>3. Taken(e) = s - a - b - c
  BY DEF Taken, s, a, b, c
<1> QED BY <1>2, <1>3 DEF s, a, b, c

\* What the invariant says of end e and of its peer.
LEMMA BothEnds ==
    ASSUME StreamInv, key["client"] = key["exit"], NEW e \in Ends
    PROVE  /\ TypeOK /\ key[e] = key[Peer(e)]
           /\ EndOK(e) /\ EndOK(Peer(e)) /\ PipeOK(e) /\ PipeOK(Peer(e))
           /\ Pipe(e, key[e], sendq[e], wire[e], recvq[Peer(e)], sent[e], stream[e])
           /\ Pipe(Peer(e), key[e], sendq[Peer(e)], wire[Peer(e)], recvq[e], sent[Peer(e)], stream[Peer(e)])
<1>1. /\ Peer(e) \in Ends /\ Peer(Peer(e)) = e
      /\ TypeOK /\ PipeOK(e) /\ PipeOK(Peer(e)) /\ EndOK(e) /\ EndOK(Peer(e))
  BY PeerFacts DEF StreamInv, Agreed
<1>2. key[e] = key[Peer(e)]
  BY DEF Ends, Peer
<1> QED BY <1>1, <1>2 DEF PipeOK

LEMMA SendLoopAgreed ==
    ASSUME StreamInv, key["client"] = key["exit"], NEW e \in Ends, SendLoop(e)
    PROVE  TypeOK' /\ Agreed'
<1> DEFINE p == Peer(e)
           f == Seal(e, Head(sendq[e]))
<1>1. p \in Ends /\ p # e /\ Peer(p) = e /\ Ends = {e, p}
  BY PeerFacts
<1>2. /\ TypeOK /\ EndOK(e) /\ EndOK(p) /\ PipeOK(p)
      /\ Pipe(e, key[e], sendq[e], wire[e], recvq[p], sent[e], stream[e])
  BY BothEnds
<1>3. /\ sendq[e] # <<>> /\ sendq' = [sendq EXCEPT ![e] = Tail(@)]
      /\ UNCHANGED <<key, stream, sent, recvq, got, written>>
  BY DEF SendLoop
<1>4. Head(sendq[e]) \in Sendable(e)
  BY <1>2, <1>3, TailFacts DEF Pipe
<1>5. key[e] \in Keys
  BY <1>2, Typed
<1>6. f \in Arriving(e, key[e]) /\ f.n = Head(sendq[e]).n /\ f.kind = Head(sendq[e]).kind /\ Encodes(f)
  BY <1>4, <1>5 DEF Seal, Sendable, Arriving, Frame, Sealed, Encodes, Overhead, MaxPayload
<1>7. wire' = [wire EXCEPT ![e] = Append(@, f)]
  BY <1>6 DEF SendLoop
<1> HIDE DEF f
<1>8. /\ sendq'[e] = Tail(sendq[e]) /\ wire'[e] = Append(wire[e], f)
      /\ sendq'[p] = sendq[p] /\ wire'[p] = wire[p]
  BY <1>1, <1>2, <1>3, <1>7 DEF TypeOK
<1>9. /\ Pipe(e, key[e], Tail(sendq[e]), Append(wire[e], f), recvq[p], sent[e], stream[e])
      /\ Len(Tail(sendq[e])) = Len(sendq[e]) - 1 /\ Len(Append(wire[e], f)) = Len(wire[e]) + 1
  BY <1>2, <1>3, <1>5, <1>6, PipeSends
<1>10. TypeOK'
  <2>1. Tail(sendq[e]) \in Seq(Frame) /\ Append(wire[e], f) \in Seq(Sealed)
    <3>1. f \in Sealed
      BY <1>6 DEF Arriving
    <3> QED BY <3>1, <1>2, <1>3, Typed, TailFacts, AppendFacts
  <2> QED BY <2>1, <1>2, <1>3, <1>7 DEF TypeOK
<1>11. Taken(e)' = Taken(e) /\ Taken(p)' = Taken(p)
  <2>1. Taken(e)' = sent[e] - (Len(sendq[e]) - 1) - (Len(wire[e]) + 1) - Len(recvq[p])
    BY <1>3, <1>8, <1>9 DEF Taken
  <2>2. Taken(e)' = Taken(e)
    BY <1>1, <1>2, <2>1, Counts
  <2> QED BY <2>2, <1>1, <1>3, <1>8 DEF Taken
<1>12. PipeOK(e)' /\ PipeOK(p)'
  BY <1>1, <1>2, <1>3, <1>8, <1>9 DEF PipeOK
<1>13. EndOK(e)' /\ EndOK(p)'
  BY <1>1, <1>2, <1>3, <1>11 DEF EndOK
<1> QED BY <1>1, <1>10, <1>12, <1>13 DEF Agreed

LEMMA DataReceivedAgreed ==
    ASSUME StreamInv, key["client"] = key["exit"], NEW p \in Ends, DataReceived(p)
    PROVE  TypeOK' /\ Agreed'
<1> DEFINE e == Peer(p)
           f == Head(wire[e])
<1>1. e \in Ends /\ p # e /\ Peer(e) = p /\ Ends = {e, p}
  BY PeerFacts
<1>2. /\ TypeOK /\ EndOK(e) /\ EndOK(p) /\ PipeOK(p) /\ key[e] = key[p]
      /\ Pipe(e, key[e], sendq[e], wire[e], recvq[p], sent[e], stream[e])
  BY <1>1, BothEnds
<1>3. /\ wire[e] # <<>> /\ wire' = [wire EXCEPT ![e] = Tail(@)]
      /\ UNCHANGED <<key, stream, sent, sendq, got, written>>
  BY DEF DataReceived
<1>4. f \in Arriving(e, key[e]) /\ f \in Sealed
  BY <1>2, <1>3, TailFacts DEF Pipe, Arriving
<1>5. recvq' = [recvq EXCEPT ![p] = Append(@, f)]
  BY <1>2, <1>4 DEF DataReceived, Decrypts, Arriving
<1>6. /\ wire'[e] = Tail(wire[e]) /\ recvq'[p] = Append(recvq[p], Head(wire[e]))
      /\ wire'[p] = wire[p] /\ recvq'[e] = recvq[e]
  BY <1>1, <1>2, <1>3, <1>5 DEF TypeOK
<1>7. /\ Pipe(e, key[e], sendq[e], Tail(wire[e]), Append(recvq[p], Head(wire[e])), sent[e], stream[e])
      /\ Len(Tail(wire[e])) = Len(wire[e]) - 1 /\ Len(Append(recvq[p], Head(wire[e]))) = Len(recvq[p]) + 1
  <2>1. key[e] \in Keys
    BY <1>1, <1>2, Typed
  <2> QED BY <2>1, <1>1, <1>2, <1>3, PipeReceives
<1>8. TypeOK'
  <2>1. Tail(wire[e]) \in Seq(Sealed) /\ Append(recvq[p], f) \in Seq(Sealed)
    BY <1>1, <1>2, <1>3, <1>4, Typed, TailFacts, AppendFacts
  <2> QED BY <2>1, <1>1, <1>2, <1>3, <1>5 DEF TypeOK
<1>9. Taken(e)' = Taken(e) /\ Taken(p)' = Taken(p)
  <2>1. Taken(e)' = sent[e] - Len(sendq[e]) - (Len(wire[e]) - 1) - (Len(recvq[p]) + 1)
    BY <1>1, <1>3, <1>6, <1>7 DEF Taken
  <2>2. Taken(e)' = Taken(e)
    BY <1>1, <1>2, <2>1, Counts
  <2> QED BY <2>2, <1>1, <1>3, <1>6 DEF Taken
<1>10. PipeOK(e)' /\ PipeOK(p)'
  BY <1>1, <1>2, <1>3, <1>6, <1>7 DEF PipeOK
<1>11. EndOK(e)' /\ EndOK(p)'
  BY <1>1, <1>2, <1>3, <1>9 DEF EndOK
<1> QED BY <1>1, <1>8, <1>10, <1>11 DEF Agreed

\* What queueing the next frame does.
LEMMA QueueFacts ==
    ASSUME StreamInv, key["client"] = key["exit"], NEW e \in Ends, NEW kind, NEW size, NEW next,
           Queue(e, kind, size), ~IsOver(stream[e]), kind = "close" => IsOver(next),
           [kind |-> kind, n |-> sent[e], size |-> size] \in Sendable(e)
    PROVE  /\ Pipe(e, key[e], sendq'[e], wire[e], recvq[Peer(e)], sent[e] + 1, next)
           /\ sendq' \in [Ends -> Seq(Frame)] /\ Len(sendq'[e]) = Len(sendq[e]) + 1
           /\ sendq'[Peer(e)] = sendq[Peer(e)]
           /\ sent'[e] = sent[e] + 1 /\ sent'[Peer(e)] = sent[Peer(e)]
           /\ sent[e] < MaxFrames => sent' \in [Ends -> 0 .. MaxFrames]
<1> DEFINE f == [kind |-> kind, n |-> sent[e], size |-> size]
<1>1. /\ sendq' = [sendq EXCEPT ![e] = Append(@, f)]
      /\ sent' = [sent EXCEPT ![e] = @ + 1]
  BY DEF Queue
<1>2. f \in Sendable(e) /\ f.n = sent[e] /\ f.kind = kind
  OBVIOUS
<1> HIDE DEF f
<1>3. /\ TypeOK /\ key[e] \in Keys /\ Peer(e) \in Ends /\ Peer(e) # e
      /\ Pipe(e, key[e], sendq[e], wire[e], recvq[Peer(e)], sent[e], stream[e])
  BY BothEnds, Typed, PeerFacts
<1>4. /\ Pipe(e, key[e], Append(sendq[e], f), wire[e], recvq[Peer(e)], sent[e] + 1, next)
      /\ Len(Append(sendq[e], f)) = Len(sendq[e]) + 1
  BY <1>2, <1>3, PipeQueues
<1>5. sendq' \in [Ends -> Seq(Frame)]
  <2>1. f \in Frame /\ sendq[e] \in Seq(Frame)
    BY <1>2, <1>3, Typed DEF Sendable
  <2>2. Append(sendq[e], f) \in Seq(Frame)
    BY <2>1, AppendFacts
  <2> QED BY <1>1, <1>3, <2>2 DEF TypeOK
<1>6. /\ sendq'[e] = Append(sendq[e], f) /\ sendq'[Peer(e)] = sendq[Peer(e)]
      /\ sent'[e] = sent[e] + 1 /\ sent'[Peer(e)] = sent[Peer(e)]
  BY <1>1, <1>3 DEF TypeOK
<1>7. ASSUME sent[e] < MaxFrames
      PROVE  sent' \in [Ends -> 0 .. MaxFrames]
  <2>1. sent[e] \in Nat /\ MaxFrames \in Nat
    BY <1>3, Typed, MaxFramesIsNat
  <2>2. sent[e] + 1 \in 0 .. MaxFrames
    BY ONLY <1>7, <2>1
  <2>3. sent \in [Ends -> 0 .. MaxFrames]
    BY <1>3 DEF TypeOK
  <2>4. sent' = [sent EXCEPT ![e] = sent[e] + 1]
    BY <1>1
  <2> QED BY ONLY <2>2, <2>3, <2>4
<1> QED BY <1>4, <1>5, <1>6, <1>7

\* What taking a frame of the peer does, and which frame it is.
LEMMA TakeFacts ==
    ASSUME StreamInv, key["client"] = key["exit"], NEW e \in Ends, NEW kinds, Takes(e, kinds)
    PROVE  /\ Pipe(Peer(e), key[e], sendq[Peer(e)], wire[Peer(e)], recvq'[e], sent[Peer(e)], stream[Peer(e)])
           /\ recvq' \in [Ends -> Seq(Sealed)] /\ Len(recvq'[e]) = Len(recvq[e]) - 1
           /\ recvq'[Peer(e)] = recvq[Peer(e)]
           /\ Head(recvq[e]) \in Arriving(Peer(e), key[e]) /\ Head(recvq[e]).kind \in kinds
           /\ Head(recvq[e]).n = Taken(Peer(e))
           /\ Head(recvq[e]).kind = "close" =>
                IsOver(stream[Peer(e)]) /\ Taken(Peer(e)) = sent[Peer(e)] - 1
           /\ Taken(Peer(e)) \in Nat /\ sent[Peer(e)] # 0
<1> DEFINE p == Peer(e)
<1>1. /\ recvq[e] # <<>> /\ Head(recvq[e]).kind \in kinds
      /\ recvq' = [recvq EXCEPT ![e] = Tail(@)]
  BY DEF Takes
<1>2. /\ TypeOK /\ key[e] \in Keys /\ p \in Ends /\ p # e /\ Peer(p) = e
      /\ Pipe(p, key[e], sendq[p], wire[p], recvq[e], sent[p], stream[p])
  BY BothEnds, Typed, PeerFacts
<1>3. Pipe(p, key[e], sendq[p], wire[p], Tail(recvq[e]), sent[p], stream[p])
  BY <1>1, <1>2, PipeTakes
<1>4. /\ Len(Tail(recvq[e])) = Len(recvq[e]) - 1 /\ Head(recvq[e]) \in Arriving(p, key[e])
      /\ Head(recvq[e]).n = Taken(p)
      /\ Head(recvq[e]).kind = "close" => IsOver(stream[p]) /\ Taken(p) = sent[p] - 1
  <2>1. Taken(p) = sent[p] - Len(sendq[p]) - Len(wire[p]) - Len(recvq[e])
    BY <1>2 DEF Taken
  <2> HIDE DEF p
  <2> QED BY ONLY <2>1, <1>1, <1>2, PipeHead
<1>5. recvq'[e] = Tail(recvq[e]) /\ recvq'[p] = recvq[p] /\ recvq' \in [Ends -> Seq(Sealed)]
  <2>1. recvq \in [Ends -> Seq(Sealed)] /\ recvq[e] \in Seq(Sealed)
    BY <1>2 DEF TypeOK
  <2>2. Tail(recvq[e]) \in Seq(Sealed)
    BY <2>1, <1>1, TailFacts
  <2> QED BY <2>1, <2>2, <1>1, <1>2
<1>6. Taken(p) \in Nat /\ sent[p] # 0
  <2> DEFINE s == sent[p]
             a == Len(sendq[p])
             b == Len(wire[p])
             c == Len(recvq[e])
  <2>1. s \in Nat /\ a \in Nat /\ b \in Nat /\ c \in Nat /\ c # 0
    BY <1>1, <1>2, Typed, TailFacts
  <2>2. s - a - b - c >= 0 /\ Taken(p) = s - a - b - c
    BY <1>2 DEF Taken, Pipe
  <2> HIDE DEF s, a, b, c
  <2>3. s - a - b - c \in Nat /\ s # 0
    BY ONLY <2>1, <2>2
  <2> QED BY <2>2, <2>3 DEF s
<1> QED BY <1>1, <1>3, <1>4, <1>5, <1>6

\* The count of the frames taken, when e takes one and its peer sends none ...
LEMMA TakenOneMore ==
    ASSUME StreamInv, key["client"] = key["exit"], NEW e \in Ends, NEW kinds, Takes(e, kinds),
           sendq'[Peer(e)] = sendq[Peer(e)], wire' = wire, sent'[Peer(e)] = sent[Peer(e)]
    PROVE  Taken(Peer(e))' = Taken(Peer(e)) + 1
<1>1. TypeOK /\ Peer(e) \in Ends /\ Peer(Peer(e)) = e /\ Len(recvq'[e]) = Len(recvq[e]) - 1
  BY BothEnds, PeerFacts, TakeFacts
<1>2. Taken(Peer(e))' = sent[Peer(e)] - Len(sendq[Peer(e)]) - Len(wire[Peer(e)]) - (Len(recvq[e]) - 1)
  BY <1>1 DEF Taken
<1> QED BY <1>1, <1>2, Counts

\* ... and when e queues one that its peer has not seen.
LEMMA TakenAsBefore ==
    ASSUME TypeOK, NEW e \in Ends, Len(sendq'[e]) = Len(sendq[e]) + 1, sent'[e] = sent[e] + 1,
           wire' = wire, recvq'[Peer(e)] = recvq[Peer(e)]
    PROVE  Taken(e)' = Taken(e)
<1>1. Taken(e)' = (sent[e] + 1) - (Len(sendq[e]) + 1) - Len(wire[e]) - Len(recvq[Peer(e)])
  BY DEF Taken
<1> QED BY <1>1, Counts

LEMMA AskAgreed ==
    ASSUME StreamInv, key["client"] = key["exit"], Ask
    PROVE  TypeOK' /\ Agreed'
<1> DEFINE e == "client"
           p == "exit"
<1>1. e \in Ends /\ p \in Ends /\ Peer(e) = p /\ Peer(p) = e /\ e # p /\ Ends = {e, p}
  BY DEF Ends, Peer
<1>2. /\ TypeOK /\ EndOK(e) /\ EndOK(p) /\ PipeOK(p) /\ key[e] = key[p]
  BY <1>1, BothEnds
<1>3. /\ stream[e] = "none" /\ stream' = [stream EXCEPT ![e] = "asked"] /\ Queue(e, "open", OpenSize)
      /\ UNCHANGED <<key, wire, recvq, got, written>>
  BY DEF Ask, Becomes
<1>4. /\ stream'[e] = "asked" /\ stream'[p] = stream[p]
      /\ stream' \in [Ends -> {"none", "asked", "up", "astray", "refused", "ended", "told"}]
  BY <1>1, <1>2, <1>3 DEF TypeOK
<1>5. sent[e] = 0 /\ sent[e] < MaxFrames /\ ~IsOver(stream[e]) /\ stream[p] # "told" /\ Taken(p) = 0
  BY <1>1, <1>2, <1>3, MaxFramesIsNat DEF EndOK, IsOver
<1>6. [kind |-> "open", n |-> sent[e], size |-> OpenSize] \in Sendable(e)
  BY <1>5 DEF Sendable, Frame, Openings, OpenSize, Overhead, MaxPayload
<1>7. /\ Pipe(e, key[e], sendq'[e], wire[e], recvq[p], sent[e] + 1, "asked")
      /\ sendq' \in [Ends -> Seq(Frame)] /\ Len(sendq'[e]) = Len(sendq[e]) + 1 /\ sendq'[p] = sendq[p]
      /\ sent'[e] = sent[e] + 1 /\ sent'[p] = sent[p] /\ sent' \in [Ends -> 0 .. MaxFrames]
  BY <1>1, <1>3, <1>5, <1>6, QueueFacts
<1> HIDE DEF e, p
<1>8. Taken(e)' = Taken(e) /\ Taken(p)' = Taken(p)
  <2>1. Taken(e)' = Taken(e)
    BY <1>1, <1>2, <1>3, <1>7, TakenAsBefore
  <2> QED BY <2>1, <1>1, <1>3, <1>7 DEF Taken
<1>9. TypeOK'
  BY <1>2, <1>3, <1>4, <1>7 DEF TypeOK
<1>10. PipeOK(e)' /\ PipeOK(p)'
  BY <1>1, <1>2, <1>3, <1>4, <1>7 DEF PipeOK
<1>11. EndOK(e)'
  BY <1>1, <1>2, <1>3, <1>4, <1>5, <1>7, <1>8 DEF EndOK, e
<1>12. EndOK(p)'
  BY <1>1, <1>2, <1>3, <1>4, <1>5, <1>7, <1>8 DEF EndOK
<1> QED BY <1>1, <1>9, <1>10, <1>11, <1>12 DEF Agreed

LEMMA ReadAgreed ==
    ASSUME StreamInv, key["client"] = key["exit"], FramesFit, NEW e \in Ends, Read(e)
    PROVE  TypeOK' /\ Agreed'
<1> DEFINE p == Peer(e)
<1>1. p \in Ends /\ Peer(p) = e /\ e # p /\ Ends = {e, p}
  BY PeerFacts
<1>2. TypeOK /\ EndOK(e) /\ EndOK(p) /\ PipeOK(p) /\ sent[e] \in Nat
  BY <1>1, BothEnds, Typed
<1>3. PICK size \in ReadSizes : Queue(e, "data", size)
  BY DEF Read
<1>4. stream[e] = "up" /\ sent[e] < MaxFrames - 1 /\ UNCHANGED <<key, stream, wire, recvq, got, written>>
  BY DEF Read
<1>5. /\ sent[e] # 0 /\ sent[e] < MaxFrames /\ sent[e] + 1 < MaxFrames /\ sent[e] + 1 # 0
      /\ ~IsOver(stream[e]) /\ stream[p] # "told"
  <2>1. sent[e] # 0 /\ ~IsOver(stream[e]) /\ stream[p] # "told"
    BY <1>1, <1>2, <1>4 DEF EndOK, IsOver
  <2> QED BY <2>1, <1>2, <1>4, MaxFramesIsNat
<1>6. [kind |-> "data", n |-> sent[e], size |-> size] \in Sendable(e)
  <2>1. size \in Nat /\ size + Overhead <= MaxPayload
    <3>1. size \in Nat
      BY <1>3, ReadSizesAreNat
    <3> QED BY <1>3, <3>1 DEF FramesFit
  <2> QED BY <2>1, <1>2, <1>5 DEF Sendable, Frame, Openings
<1>7. /\ Pipe(e, key[e], sendq'[e], wire[e], recvq[p], sent[e] + 1, "up")
      /\ sendq' \in [Ends -> Seq(Frame)] /\ Len(sendq'[e]) = Len(sendq[e]) + 1 /\ sendq'[p] = sendq[p]
      /\ sent'[e] = sent[e] + 1 /\ sent'[p] = sent[p] /\ sent' \in [Ends -> 0 .. MaxFrames]
  BY <1>3, <1>5, <1>6, QueueFacts
<1>8. Taken(e)' = Taken(e) /\ Taken(p)' = Taken(p)
  <2>1. Taken(e)' = Taken(e)
    BY <1>1, <1>2, <1>4, <1>7, TakenAsBefore
  <2> QED BY <2>1, <1>1, <1>4, <1>7 DEF Taken
<1>9. TypeOK'
  BY <1>2, <1>4, <1>7 DEF TypeOK
<1>10. PipeOK(e)' /\ PipeOK(p)'
  BY <1>1, <1>2, <1>4, <1>7 DEF PipeOK
<1> HIDE DEF p
<1>11. EndOK(e)'
  BY <1>1, <1>2, <1>4, <1>5, <1>7, <1>8 DEF EndOK, p
<1>12. EndOK(p)'
  BY <1>1, <1>2, <1>4, <1>5, <1>7, <1>8 DEF EndOK
<1> QED BY <1>1, <1>9, <1>10, <1>11, <1>12 DEF Agreed

LEMMA ReadEndAgreed ==
    ASSUME StreamInv, key["client"] = key["exit"], NEW e \in Ends, ReadEnd(e)
    PROVE  TypeOK' /\ Agreed'
<1> DEFINE p == Peer(e)
<1>1. p \in Ends /\ Peer(p) = e /\ e # p /\ Ends = {e, p}
  BY PeerFacts
<1>2. TypeOK /\ EndOK(e) /\ EndOK(p) /\ PipeOK(p) /\ sent[e] \in Nat
  BY <1>1, BothEnds, Typed
<1>3. /\ stream[e] = "up" /\ stream' = [stream EXCEPT ![e] = "ended"] /\ Queue(e, "close", 0)
      /\ UNCHANGED <<key, wire, recvq, got, written>>
  BY DEF ReadEnd, Becomes
<1>4. /\ stream'[e] = "ended" /\ stream'[p] = stream[p]
      /\ stream' \in [Ends -> {"none", "asked", "up", "astray", "refused", "ended", "told"}]
  BY <1>1, <1>2, <1>3 DEF TypeOK
<1>5. /\ sent[e] # 0 /\ sent[e] < MaxFrames /\ ~IsOver(stream[e]) /\ stream[p] # "told"
      /\ Taken(p) # 0 /\ sent[e] + 1 # 0 /\ IsOver("ended")
  <2>1. sent[e] # 0 /\ sent[e] < MaxFrames /\ ~IsOver(stream[e]) /\ stream[p] # "told" /\ Taken(p) # 0
    BY <1>1, <1>2, <1>3 DEF EndOK, IsOver
  <2> QED BY <2>1, <1>2 DEF IsOver
<1>6. [kind |-> "close", n |-> sent[e], size |-> 0] \in Sendable(e)
  BY <1>2, <1>5 DEF Sendable, Frame, Openings, Overhead, MaxPayload
<1>7. /\ Pipe(e, key[e], sendq'[e], wire[e], recvq[p], sent[e] + 1, "ended")
      /\ sendq' \in [Ends -> Seq(Frame)] /\ Len(sendq'[e]) = Len(sendq[e]) + 1 /\ sendq'[p] = sendq[p]
      /\ sent'[e] = sent[e] + 1 /\ sent'[p] = sent[p] /\ sent' \in [Ends -> 0 .. MaxFrames]
  BY <1>3, <1>5, <1>6, QueueFacts
<1>8. Taken(e)' = Taken(e) /\ Taken(p)' = Taken(p)
  <2>1. Taken(e)' = Taken(e)
    BY <1>1, <1>2, <1>3, <1>7, TakenAsBefore
  <2> QED BY <2>1, <1>1, <1>3, <1>7 DEF Taken
<1>9. TypeOK'
  BY <1>2, <1>3, <1>4, <1>7 DEF TypeOK
<1>10. PipeOK(e)' /\ PipeOK(p)'
  BY <1>1, <1>2, <1>3, <1>4, <1>7 DEF PipeOK
<1> HIDE DEF p
<1>11. EndOK(e)'
  BY <1>1, <1>2, <1>3, <1>4, <1>5, <1>7, <1>8 DEF EndOK, p
<1>12. EndOK(p)'
  BY <1>1, <1>2, <1>3, <1>4, <1>5, <1>7, <1>8 DEF EndOK
<1> QED BY <1>1, <1>9, <1>10, <1>11, <1>12 DEF Agreed

LEMMA HandleOpenResponseAgreed ==
    ASSUME StreamInv, key["client"] = key["exit"], HandleOpenResponse
    PROVE  TypeOK' /\ Agreed'
<1> DEFINE e == "client"
           p == "exit"
<1>1. e \in Ends /\ p \in Ends /\ Peer(e) = p /\ Peer(p) = e /\ e # p /\ Ends = {e, p}
  BY DEF Ends, Peer
<1>2. TypeOK /\ EndOK(e) /\ EndOK(p) /\ PipeOK(e) /\ sent[e] \in Nat /\ stream[e] \in {"none", "asked", "up", "astray", "refused", "ended", "told"}
  BY <1>1, BothEnds, Typed
<1>3. PICK next \in {"up", "refused"} : stream' = [stream EXCEPT ![e] = next]
  BY DEF HandleOpenResponse, Becomes
<1>4. Takes(e, {"ok", "fail"}) /\ UNCHANGED <<key, sent, sendq, wire, got, written>>
  BY DEF HandleOpenResponse
<1>5. /\ Pipe(p, key[e], sendq[p], wire[p], recvq'[e], sent[p], stream[p])
      /\ recvq' \in [Ends -> Seq(Sealed)] /\ recvq'[p] = recvq[p]
      /\ Head(recvq[e]) \in Arriving(p, key[e]) /\ Head(recvq[e]).kind \in {"ok", "fail"}
      /\ Head(recvq[e]).n = Taken(p) /\ Taken(p) \in Nat /\ sent[p] # 0
  BY <1>1, <1>4, TakeFacts
<1>6. Taken(p) = 0
  BY <1>5 DEF Arriving, Openings
<1>7. Taken(p)' = 1 /\ Taken(e)' = Taken(e)
  <2>1. Taken(p)' = Taken(p) + 1
    BY <1>1, <1>4, TakenOneMore
  <2> QED BY <2>1, <1>1, <1>4, <1>5, <1>6 DEF Taken
<1>8. stream[p] # "none" /\ stream[p] # "asked"
  BY <1>1, <1>2, <1>5 DEF EndOK
<1>9. stream[e] = "asked" /\ sent[e] = 1 /\ got[e] = <<>>
  <2>1. stream[e] \in {"none", "asked"} /\ got[e] = <<>>
    BY <1>1, <1>2, <1>6 DEF EndOK
  <2>2. Taken(e) # 0
    BY <1>1, <1>2, <1>8 DEF EndOK
  <2>3. stream[e] # "none"
    <3>1. Pipe(e, key[e], sendq[e], wire[e], recvq[p], sent[e], stream[e])
      BY <1>1, <1>2 DEF PipeOK
    <3>2. sent[e] # 0
      <4> DEFINE s == sent[e]
                 a == Len(sendq[e])
                 b == Len(wire[e])
                 c == Len(recvq[p])
      <4>1. s \in Nat /\ a \in Nat /\ b \in Nat /\ c \in Nat
        BY <1>1, <1>2, Typed
      <4>2. s - a - b - c >= 0 /\ s - a - b - c # 0
        BY <1>1, <2>2, <3>1 DEF Pipe, Taken
      <4> HIDE DEF s, a, b, c
      <4>3. s # 0
        BY ONLY <4>1, <4>2
      <4> QED BY <4>3 DEF s
    <3> QED BY <3>2, <1>2 DEF EndOK
  <2> QED BY <2>1, <2>3, <1>2 DEF EndOK
<1>10. /\ stream'[e] = next /\ stream'[p] = stream[p]
       /\ stream' \in [Ends -> {"none", "asked", "up", "astray", "refused", "ended", "told"}]
  BY <1>1, <1>2, <1>3 DEF TypeOK
<1>11. ~IsOver(stream[e]) /\ ~IsOver(next) /\ stream[p] # "told" /\ 1 < MaxFrames
  <2>1. ~IsOver(stream[e]) /\ ~IsOver(next)
    BY <1>3, <1>9 DEF IsOver
  <2> QED BY <2>1, <1>1, <1>2, MaxFramesIsNat DEF EndOK
<1>12. TypeOK'
  BY <1>2, <1>4, <1>5, <1>10 DEF TypeOK
<1> HIDE DEF e, p
<1>13. PipeOK(e)'
  <2>1. Pipe(e, key[e], sendq[e], wire[e], recvq[p], sent[e], next)
    BY <1>1, <1>2, <1>11 DEF PipeOK, Pipe, CloseLast
  <2> QED BY <2>1, <1>1, <1>4, <1>5, <1>10 DEF PipeOK
<1>14. PipeOK(p)'
  <2>1. key[p] = key[e]
    BY <1>1, BothEnds
  <2> QED BY <2>1, <1>1, <1>4, <1>5, <1>10 DEF PipeOK
<1>15. EndOK(e)'
  <2>1. Len(got[e]) = 0
    BY <1>9
  <2> QED BY <2>1, <1>1, <1>3, <1>4, <1>7, <1>9, <1>10, <1>11 DEF EndOK
<1>16. EndOK(p)'
  BY <1>1, <1>2, <1>4, <1>7, <1>10, <1>11 DEF EndOK
<1> QED BY <1>1, <1>12, <1>13, <1>14, <1>15, <1>16 DEF Agreed

LEMMA HandleOpenAgreed ==
    ASSUME StreamInv, key["client"] = key["exit"], HandleOpen
    PROVE  TypeOK' /\ Agreed'
<1> DEFINE e == "exit"
           p == "client"
<1>1. e \in Ends /\ p \in Ends /\ Peer(e) = p /\ Peer(p) = e /\ e # p /\ Ends = {e, p}
  BY DEF Ends, Peer
<1>2. TypeOK /\ EndOK(e) /\ EndOK(p) /\ PipeOK(p) /\ key[p] = key[e]
  BY <1>1, BothEnds
<1>3. PICK next \in {"up", "refused"}, kind \in {"ok", "fail"} :
        stream' = [stream EXCEPT ![e] = next] /\ Queue(e, kind, 1)
  BY DEF HandleOpen, Becomes
<1>4. Takes(e, {"open"}) /\ UNCHANGED <<key, wire, got, written>>
  BY DEF HandleOpen
<1>5. /\ Pipe(p, key[e], sendq[p], wire[p], recvq'[e], sent[p], stream[p])
      /\ recvq' \in [Ends -> Seq(Sealed)] /\ recvq'[p] = recvq[p]
      /\ Head(recvq[e]) \in Arriving(p, key[e]) /\ Head(recvq[e]).kind = "open"
      /\ Head(recvq[e]).n = Taken(p) /\ sent[p] # 0
  <2>1. Head(recvq[e]).kind \in {"open"}
    BY <1>1, <1>4, TakeFacts
  <2> QED BY <2>1, <1>1, <1>4, TakeFacts
<1>6. Taken(p) = 0
  BY <1>5 DEF Arriving, Openings
<1>7. stream[e] = "none" /\ sent[e] = 0 /\ got[e] = <<>> /\ ~IsOver(stream[e])
  BY <1>1, <1>2, <1>6 DEF EndOK, IsOver
<1>8. /\ stream'[e] = next /\ stream'[p] = stream[p]
      /\ stream' \in [Ends -> {"none", "asked", "up", "astray", "refused", "ended", "told"}]
  BY <1>1, <1>2, <1>3 DEF TypeOK
<1>9. [kind |-> kind, n |-> sent[e], size |-> 1] \in Sendable(e)
  <2>1. kind \in {"ok", "fail"} /\ kind \in Openings /\ kind # "open"
    BY <1>3 DEF Openings
  <2> QED BY <2>1, <1>7 DEF Sendable, Frame, Overhead, MaxPayload
<1>10. 0 < MaxFrames /\ 1 < MaxFrames
  BY MaxFramesIsNat
<1>11. /\ Pipe(e, key[e], sendq'[e], wire[e], recvq[p], sent[e] + 1, next)
       /\ sendq' \in [Ends -> Seq(Frame)] /\ Len(sendq'[e]) = Len(sendq[e]) + 1 /\ sendq'[p] = sendq[p]
       /\ sent'[e] = 1 /\ sent'[p] = sent[p] /\ sent' \in [Ends -> 0 .. MaxFrames]
  <2>1. kind = "close" => IsOver(next)
    BY <1>3
  <2> QED BY <2>1, <1>1, <1>3, <1>7, <1>9, <1>10, QueueFacts
<1> HIDE DEF e, p
<1>12. Taken(p)' = 1 /\ Taken(e)' = Taken(e)
  <2>1. Taken(p)' = Taken(p) + 1
    BY <1>1, <1>4, <1>11, TakenOneMore
  <2>2. sent'[e] = sent[e] + 1
    BY <1>7, <1>11
  <2>3. Taken(e)' = Taken(e)
    BY <2>2, <1>1, <1>2, <1>4, <1>5, <1>11, TakenAsBefore
  <2> QED BY <2>1, <2>3, <1>6
<1>13. TypeOK'
  BY <1>2, <1>4, <1>5, <1>8, <1>11 DEF TypeOK
<1>14. PipeOK(e)' /\ PipeOK(p)'
  <2>1. sent[e] + 1 = sent'[e]
    BY <1>7, <1>11
  <2> QED BY <2>1, <1>1, <1>2, <1>4, <1>5, <1>8, <1>11 DEF PipeOK
<1>15. EndOK(e)'
  <2>1. Len(got[e]) = 0
    BY <1>7
  <2> QED BY <2>1, <1>1, <1>3, <1>4, <1>8, <1>10, <1>11, <1>12 DEF EndOK
<1>16. EndOK(p)'
  <2>1. stream[p] # "told"
    BY <1>1, <1>2, <1>7 DEF EndOK
  <2> QED BY <2>1, <1>1, <1>2, <1>4, <1>8, <1>11, <1>12 DEF EndOK
<1> QED BY <1>1, <1>13, <1>14, <1>15, <1>16 DEF Agreed

LEMMA HandleOpenUnreadableAgreed ==
    ASSUME StreamInv, key["client"] = key["exit"], HandleOpenUnreadable
    PROVE  FALSE
<1>1. Takes("exit", {"open"}) /\ "exit" \in Ends /\ key["exit"] # Head(recvq["exit"]).seal
  BY DEF HandleOpenUnreadable, Readable, Ends
<1>2. Head(recvq["exit"]) \in Arriving(Peer("exit"), key["exit"])
  BY <1>1, TakeFacts
<1> QED BY <1>1, <1>2 DEF Arriving

LEMMA HandleDataAgreed ==
    ASSUME StreamInv, key["client"] = key["exit"], NEW e \in Ends, HandleData(e)
    PROVE  TypeOK' /\ Agreed' /\ Intact'
<1> DEFINE p == Peer(e)
<1>1. p \in Ends /\ Peer(p) = e /\ e # p /\ Ends = {e, p}
  BY PeerFacts
<1>2. TypeOK /\ EndOK(e) /\ EndOK(p) /\ PipeOK(e) /\ key[p] = key[e] /\ got[e] \in Seq(Nat) /\ Len(got[e]) \in Nat
  BY <1>1, BothEnds, Typed
<1>3. /\ Takes(e, {"data"}) /\ UNCHANGED <<key, stream, sent, sendq, wire>>
      /\ got' = IF stream[e] = "up" THEN [got EXCEPT ![e] = Append(@, Head(recvq[e]).n)] ELSE got
  BY DEF HandleData
<1>4. /\ Pipe(p, key[e], sendq[p], wire[p], recvq'[e], sent[p], stream[p])
      /\ recvq' \in [Ends -> Seq(Sealed)] /\ recvq'[p] = recvq[p]
      /\ Head(recvq[e]) \in Arriving(p, key[e]) /\ Head(recvq[e]).kind \in {"data"}
      /\ Head(recvq[e]).n = Taken(p) /\ Taken(p) \in Nat
  BY <1>3, TakeFacts
<1>5. Taken(p) # 0
  BY <1>4 DEF Arriving, Openings
<1>6. Taken(p)' = Taken(p) + 1 /\ Taken(e)' = Taken(e)
  <2>1. Taken(p)' = Taken(p) + 1
    BY <1>3, TakenOneMore
  <2> QED BY <2>1, <1>1, <1>3, <1>4 DEF Taken
<1>7. PipeOK(e)' /\ PipeOK(p)'
  BY <1>1, <1>2, <1>3, <1>4 DEF PipeOK
<1> DEFINE gots == Append(got[e], Taken(p))
<1>8. stream[e] = "up" => /\ got' = [got EXCEPT ![e] = gots] /\ got'[e] = gots /\ got'[p] = got[p]
  BY <1>1, <1>2, <1>3, <1>4 DEF TypeOK
<1>9. stream[e] # "up" => got' = got
  BY <1>3
<1>10. /\ gots \in Seq(Nat) /\ Len(gots) = Len(got[e]) + 1
       /\ \A i \in 1 .. Len(got[e]) : gots[i] = got[e][i]
       /\ gots[Len(got[e]) + 1] = Taken(p)
  BY <1>2, <1>4, AppendFacts
<1> HIDE DEF p, gots
<1>11. TypeOK'
  <2>1. got' \in [Ends -> Seq(Nat)]
    BY <1>2, <1>8, <1>9, <1>10 DEF TypeOK
  <2>2. /\ "client" \in Ends /\ written' = written
        /\ written \in 0 .. Len(got["client"]) /\ Len(got["client"]) \in Nat
    BY <1>2, <1>3 DEF TypeOK, Ends, HandleData
  <2>3. Len(got'["client"]) \in {Len(got["client"]), Len(got["client"]) + 1}
    <3>1. CASE stream[e] = "up" /\ e = "client"
      BY <3>1, <1>8, <1>10
    <3>2. CASE stream[e] = "up" /\ p = "client"
      BY <3>2, <1>8
    <3>3. CASE stream[e] # "up"
      BY <3>3, <1>9
    <3> QED BY <2>2, <1>1, <3>1, <3>2, <3>3
  <2>4. written' \in 0 .. Len(got'["client"])
    BY <2>2, <2>3
  <2> QED BY <2>1, <2>4, <1>2, <1>3, <1>4 DEF TypeOK
<1>12. EndOK(e)'
  <2>1. /\ stream[e] \notin {"none", "asked"} /\ Taken(p)' # 0
    BY <1>2, <1>4, <1>5, <1>6 DEF EndOK, p
  <2>2. CASE stream[e] = "up"
    <3>1. Len(got[e]) + 1 = Taken(p) /\ sent[e] < MaxFrames
      BY <2>2, <1>2 DEF EndOK, p
    <3>2. Len(got'[e]) + 1 = Taken(p)'
      BY <2>2, <3>1, <1>6, <1>8, <1>10
    <3> QED BY <2>1, <2>2, <3>1, <3>2, <1>2, <1>3 DEF EndOK, p
  <2>3. CASE stream[e] # "up"
    BY <2>1, <2>3, <1>2, <1>3, <1>9 DEF EndOK, p
  <2> QED BY <2>2, <2>3
<1>13. EndOK(p)'
  <2>1. got'[p] = got[p]
    BY <1>8, <1>9
  <2> QED BY <2>1, <1>1, <1>2, <1>3, <1>6 DEF EndOK
<1>14. Intact'
  <2>1. \A d \in Ends : \A i \in 1 .. Len(got[d]) : got[d][i] = i
    BY DEF StreamInv, Intact
  <2>2. CASE stream[e] = "up"
    <3>1. Len(got[e]) + 1 = Taken(p)
      BY <2>2, <1>2 DEF EndOK, p
    <3>2. ASSUME NEW i \in 1 .. Len(gots)
          PROVE  gots[i] = i
      <4>1. CASE i \in 1 .. Len(got[e])
        BY <4>1, <2>1, <1>10
      <4>2. CASE i = Len(got[e]) + 1
        BY <4>2, <3>1, <1>10
      <4>3. i \in 1 .. Len(got[e]) \/ i = Len(got[e]) + 1
        BY <1>2, <1>10
      <4> QED BY <4>1, <4>2, <4>3
    <3> QED BY <1>1, <1>8, <2>1, <2>2, <3>2 DEF Intact
  <2>3. CASE stream[e] # "up"
    BY <2>1, <2>3, <1>9 DEF Intact
  <2> QED BY <2>2, <2>3
<1> QED BY <1>1, <1>7, <1>11, <1>12, <1>13, <1>14 DEF Agreed

LEMMA HandleCloseAgreed ==
    ASSUME StreamInv, key["client"] = key["exit"], NEW e \in Ends, HandleClose(e)
    PROVE  TypeOK' /\ Agreed'
<1> DEFINE p == Peer(e)
<1>1. p \in Ends /\ Peer(p) = e /\ e # p /\ Ends = {e, p}
  BY PeerFacts
<1>2. TypeOK /\ EndOK(e) /\ EndOK(p) /\ key[p] = key[e] /\ sent[e] \in Nat /\ Len(got[e]) \in Nat
  BY <1>1, BothEnds, Typed
<1>3. /\ Takes(e, {"close"}) /\ stream[e] = "up" /\ stream' = [stream EXCEPT ![e] = "told"]
      /\ Queue(e, "close", 0) /\ UNCHANGED <<key, wire, got, written>>
  BY DEF HandleClose, Becomes
<1>4. /\ Pipe(p, key[e], sendq[p], wire[p], recvq'[e], sent[p], stream[p])
      /\ recvq' \in [Ends -> Seq(Sealed)] /\ recvq'[p] = recvq[p]
      /\ IsOver(stream[p]) /\ Taken(p) = sent[p] - 1 /\ Taken(p) \in Nat /\ sent[p] \in Nat
  <2>1. Head(recvq[e]).kind \in {"close"}
    BY <1>3, TakeFacts
  <2> QED BY <2>1, <1>1, <1>2, <1>3, TakeFacts, Typed
<1>5. /\ stream'[e] = "told" /\ stream'[p] = stream[p]
      /\ stream' \in [Ends -> {"none", "asked", "up", "astray", "refused", "ended", "told"}]
  BY <1>1, <1>2, <1>3 DEF TypeOK
<1>6. /\ sent[e] # 0 /\ sent[e] < MaxFrames /\ ~IsOver(stream[e]) /\ stream[p] # "told"
      /\ IsOver("told") /\ sent[e] + 1 # 0 /\ Len(got[e]) + 1 = Taken(p)
  <2>1. /\ sent[e] # 0 /\ sent[e] < MaxFrames /\ ~IsOver(stream[e]) /\ stream[p] # "told"
        /\ Len(got[e]) + 1 = Taken(p)
    BY <1>1, <1>2, <1>3 DEF EndOK, IsOver
  <2> QED BY <2>1, <1>2 DEF IsOver
<1>7. [kind |-> "close", n |-> sent[e], size |-> 0] \in Sendable(e)
  BY <1>2, <1>6 DEF Sendable, Frame, Openings, Overhead, MaxPayload
<1>8. /\ Pipe(e, key[e], sendq'[e], wire[e], recvq[p], sent[e] + 1, "told")
      /\ sendq' \in [Ends -> Seq(Frame)] /\ Len(sendq'[e]) = Len(sendq[e]) + 1 /\ sendq'[p] = sendq[p]
      /\ sent'[e] = sent[e] + 1 /\ sent'[p] = sent[p] /\ sent' \in [Ends -> 0 .. MaxFrames]
  BY <1>3, <1>6, <1>7, QueueFacts
<1>9. Taken(p)' = Taken(p) + 1 /\ Taken(e)' = Taken(e)
  <2>1. Taken(p)' = Taken(p) + 1
    BY <1>3, <1>8, TakenOneMore
  <2> QED BY <2>1, <1>1, <1>2, <1>3, <1>4, <1>8, TakenAsBefore
<1>10. TypeOK'
  BY <1>2, <1>3, <1>4, <1>5, <1>8 DEF TypeOK
<1>11. PipeOK(e)' /\ PipeOK(p)'
  BY <1>1, <1>2, <1>3, <1>4, <1>5, <1>8 DEF PipeOK
<1> HIDE DEF p
<1>12. Taken(p)' # 0 /\ Len(got[e]) + 2 = sent[p]
  BY <1>2, <1>4, <1>6, <1>9
<1>13. EndOK(e)'
  BY <1>1, <1>3, <1>4, <1>5, <1>6, <1>8, <1>12 DEF EndOK, p
<1>14. EndOK(p)'
  BY <1>1, <1>2, <1>3, <1>5, <1>6, <1>8, <1>9 DEF EndOK
<1> QED BY <1>1, <1>10, <1>11, <1>13, <1>14 DEF Agreed

LEMMA DropCloseAgreed ==
    ASSUME StreamInv, key["client"] = key["exit"], NEW e \in Ends, DropClose(e)
    PROVE  TypeOK' /\ Agreed'
<1> DEFINE p == Peer(e)
<1>1. p \in Ends /\ Peer(p) = e /\ e # p /\ Ends = {e, p}
  BY PeerFacts
<1>2. TypeOK /\ EndOK(e) /\ EndOK(p) /\ PipeOK(e) /\ key[p] = key[e]
  BY <1>1, BothEnds
<1>3. Takes(e, {"close"}) /\ stream[e] # "up" /\ UNCHANGED <<key, stream, sent, sendq, wire, got, written>>
  BY DEF DropClose
<1>4. /\ Pipe(p, key[e], sendq[p], wire[p], recvq'[e], sent[p], stream[p])
      /\ recvq' \in [Ends -> Seq(Sealed)] /\ recvq'[p] = recvq[p]
      /\ Head(recvq[e]) \in Arriving(p, key[e]) /\ Head(recvq[e]).kind \in {"close"}
      /\ Head(recvq[e]).n = Taken(p) /\ Taken(p) \in Nat
  BY <1>3, TakeFacts
<1>5. Taken(p) # 0
  BY <1>4 DEF Arriving, Openings
<1>6. Taken(p)' = Taken(p) + 1 /\ Taken(e)' = Taken(e)
  <2>1. Taken(p)' = Taken(p) + 1
    BY <1>3, TakenOneMore
  <2> QED BY <2>1, <1>1, <1>3, <1>4 DEF Taken
<1>7. TypeOK' /\ PipeOK(e)' /\ PipeOK(p)'
  BY <1>1, <1>2, <1>3, <1>4 DEF PipeOK, TypeOK
<1> HIDE DEF p
<1>8. stream[e] \notin {"none", "asked"} /\ Taken(p)' # 0
  BY <1>2, <1>4, <1>5, <1>6 DEF EndOK, p
<1>9. EndOK(e)'
  BY <1>2, <1>3, <1>8 DEF EndOK, p
<1>10. EndOK(p)'
  BY <1>1, <1>2, <1>3, <1>6 DEF EndOK
<1> QED BY <1>1, <1>7, <1>9, <1>10 DEF Agreed

-----------------------------------------------------------------------------
(* With different secrets *)

\* What Apart says, with the types of the counts.
LEMMA ApartFacts ==
    ASSUME StreamInv, key["client"] # key["exit"]
    PROVE  /\ TypeOK /\ Apart /\ Ends = {"client", "exit"}
           /\ "client" \in Ends /\ "exit" \in Ends
           /\ Peer("client") = "exit" /\ Peer("exit") = "client"
           /\ Len(sendq["client"]) \in Nat /\ Len(wire["client"]) \in Nat /\ Len(recvq["exit"]) \in Nat
           /\ Len(sendq["exit"]) \in Nat /\ Len(wire["exit"]) \in Nat
           /\ sent["client"] \in Nat /\ sent["exit"] \in Nat
           /\ sent["exit"] <= 1
<1>1. TypeOK /\ Apart
  BY DEF StreamInv
<1>2. "client" \in Ends /\ "exit" \in Ends /\ Ends = {"client", "exit"}
  BY DEF Ends
<1>3. Peer("client") = "exit" /\ Peer("exit") = "client"
  BY DEF Peer
<1>4. /\ Len(sendq["client"]) \in Nat /\ Len(wire["client"]) \in Nat /\ Len(recvq["exit"]) \in Nat
      /\ Len(sendq["exit"]) \in Nat /\ Len(wire["exit"]) \in Nat
      /\ sent["client"] \in Nat /\ sent["exit"] \in Nat
  BY <1>1, <1>2, Typed
<1>5. sent["exit"] <= 1
  <2> DEFINE a == Len(sendq["client"])
             b == Len(wire["client"])
             c == Len(recvq["exit"])
             d == sent["exit"]
             s == sent["client"]
  <2>1. a \in Nat /\ b \in Nat /\ c \in Nat /\ d \in Nat /\ s \in Nat
    BY <1>4
  <2>2. a + b + c + d <= s /\ s <= 1
    BY <1>1 DEF Apart
  <2> HIDE DEF a, b, c, d, s
  <2>3. d <= 1
    BY ONLY <2>1, <2>2
  <2> QED BY <2>3 DEF d
<1> QED BY <1>1, <1>2, <1>3, <1>4, <1>5

LEMMA AskApart ==
    ASSUME StreamInv, key["client"] # key["exit"], Ask
    PROVE  TypeOK' /\ Apart'
<1> DEFINE f == [kind |-> "open", n |-> sent["client"], size |-> OpenSize]
<1>0. TypeOK /\ "client" \in Ends /\ "exit" \in Ends
  BY ApartFacts
<1>1. /\ Apart /\ sent["client"] = 0 /\ sent["client"] \in Nat /\ Len(sendq["client"]) \in Nat /\ Len(wire["client"]) \in Nat
      /\ Len(recvq["exit"]) \in Nat /\ sent["exit"] \in Nat
  BY ApartFacts DEF Apart, Ask
<1>2. /\ stream' = [stream EXCEPT !["client"] = "asked"]
      /\ sendq' = [sendq EXCEPT !["client"] = Append(@, f)]
      /\ sent' = [sent EXCEPT !["client"] = @ + 1]
      /\ UNCHANGED <<key, wire, recvq, got, written>>
  BY DEF Ask, Becomes, Queue
<1>3. f \in Frame /\ sendq["client"] \in Seq(Frame)
  BY <1>0, <1>1 DEF Frame, OpenSize, TypeOK
<1> HIDE DEF f
<1>4. Append(sendq["client"], f) \in Seq(Frame) /\ Len(Append(sendq["client"], f)) = Len(sendq["client"]) + 1
  BY <1>3, AppendFacts
<1>5. /\ sendq'["client"] = Append(sendq["client"], f) /\ sendq'["exit"] = sendq["exit"]
      /\ sent'["client"] = 1 /\ sent'["exit"] = sent["exit"]
      /\ stream'["client"] = "asked" /\ stream'["exit"] = stream["exit"]
  BY <1>0, <1>1, <1>2 DEF TypeOK
<1>6. TypeOK'
  <2>1. 1 \in 0 .. MaxFrames
    BY MaxFramesIsNat
  <2>2. sent' = [sent EXCEPT !["client"] = 1]
    BY <1>1, <1>2
  <2>3. sent' \in [Ends -> 0 .. MaxFrames]
    BY <1>0, <2>1, <2>2 DEF TypeOK
  <2> QED BY <2>3, <1>0, <1>2, <1>4 DEF TypeOK
<1>7. Len(sendq'["client"]) + Len(wire["client"]) + Len(recvq["exit"]) + sent["exit"] <= 1
  <2> DEFINE a == Len(sendq["client"])
             b == Len(wire["client"])
             c == Len(recvq["exit"])
             d == sent["exit"]
  <2>1. a \in Nat /\ b \in Nat /\ c \in Nat /\ d \in Nat
    BY <1>1
  <2>2. a + b + c + d <= 0
    BY <1>1 DEF Apart
  <2>3. Len(sendq'["client"]) = a + 1
    BY <1>4, <1>5
  <2> HIDE DEF a, b, c, d
  <2>4. (a + 1) + b + c + d <= 1
    BY ONLY <2>1, <2>2
  <2> QED BY <2>3, <2>4 DEF b, c, d
<1>8. Ends = {"client", "exit"} /\ sent'["client"] <= 1
  BY <1>5 DEF Ends
<1> QED BY <1>1, <1>2, <1>5, <1>6, <1>7, <1>8 DEF Apart

LEMMA SendLoopApart ==
    ASSUME StreamInv, key["client"] # key["exit"], NEW e \in Ends, SendLoop(e)
    PROVE  TypeOK' /\ Apart'
<1> DEFINE f == Seal(e, Head(sendq[e]))
<1>0. TypeOK /\ Apart
  BY ApartFacts
<1>1. /\ key[e] \in Keys /\ sendq[e] \in Seq(Frame) /\ wire[e] \in Seq(Sealed)
      /\ Len(sendq[e]) \in Nat /\ Len(wire[e]) \in Nat
  BY <1>0, Typed
<1>10. /\ "client" \in Ends /\ "exit" \in Ends
      /\ Len(sendq["client"]) \in Nat /\ Len(wire["client"]) \in Nat /\ Len(recvq["exit"]) \in Nat
      /\ Len(sendq["exit"]) \in Nat /\ Len(wire["exit"]) \in Nat
      /\ sent["client"] \in Nat /\ sent["exit"] \in Nat
  BY ApartFacts
<1>2. /\ sendq[e] # <<>> /\ sendq' = [sendq EXCEPT ![e] = Tail(@)]
      /\ wire' = [wire EXCEPT ![e] = Append(@, f)] \/ wire' = wire
      /\ UNCHANGED <<key, stream, sent, recvq, got, written>>
  BY DEF SendLoop
<1>3. f \in Sealed /\ f.seal = key[e]
  <2>1. Head(sendq[e]) \in Frame
    BY <1>1, <1>2, TailFacts
  <2> QED BY <2>1, <1>1 DEF Seal, Frame, Sealed, Overhead
<1> HIDE DEF f
<1>4. /\ Tail(sendq[e]) \in Seq(Frame) /\ Len(Tail(sendq[e])) = Len(sendq[e]) - 1
      /\ Append(wire[e], f) \in Seq(Sealed) /\ Len(Append(wire[e], f)) = Len(wire[e]) + 1
      /\ \A i \in 1 .. Len(wire[e]) : Append(wire[e], f)[i] = wire[e][i]
      /\ Append(wire[e], f)[Len(wire[e]) + 1] = f
  BY <1>1, <1>2, <1>3, TailFacts, AppendFacts
<1>5. TypeOK'
  BY <1>0, <1>2, <1>4 DEF TypeOK
<1>6. /\ sendq'[e] = Tail(sendq[e]) /\ \A d \in Ends \ {e} : sendq'[d] = sendq[d] /\ wire'[d] = wire[d]
      /\ wire'[e] = Append(wire[e], f) \/ wire'[e] = wire[e]
  BY <1>0, <1>2 DEF TypeOK
<1>7. ASSUME NEW d \in Ends
      PROVE  /\ Len(sendq'[d]) \in Nat /\ Len(wire'[d]) \in Nat
             /\ Len(sendq'[d]) + Len(wire'[d]) <= Len(sendq[d]) + Len(wire[d])
  <2>1. CASE d = e
    <3> DEFINE a == Len(sendq[e])
               b == Len(wire[e])
    <3>1. a \in Nat /\ b \in Nat /\ a >= 1
      BY <1>1, <1>2, TailFacts
    <3>2. Len(sendq'[d]) = a - 1 /\ (Len(wire'[d]) = b + 1 \/ Len(wire'[d]) = b)
      BY <2>1, <1>4, <1>6
    <3> HIDE DEF a, b
    <3>3. a - 1 \in Nat /\ b + 1 \in Nat /\ (a - 1) + (b + 1) <= a + b /\ (a - 1) + b <= a + b
      BY ONLY <3>1
    <3> QED BY <2>1, <3>1, <3>2, <3>3 DEF a, b
  <2>2. CASE d # e
    <3>1. sendq'[d] = sendq[d] /\ wire'[d] = wire[d]
      BY <2>2, <1>6
    <3>2. Len(sendq[d]) \in Nat /\ Len(wire[d]) \in Nat
      BY <1>0, Typed
    <3> QED BY <3>1, <3>2
  <2> QED BY <2>1, <2>2
<1>8. /\ Len(sendq'["client"]) + Len(wire'["client"]) + Len(recvq["exit"]) + sent["exit"] <= sent["client"]
      /\ Len(sendq'["exit"]) + Len(wire'["exit"]) <= sent["exit"]
  <2> DEFINE a == Len(sendq["client"]) + Len(wire["client"])
             b == Len(sendq'["client"]) + Len(wire'["client"])
             c == Len(sendq["exit"]) + Len(wire["exit"])
             d == Len(sendq'["exit"]) + Len(wire'["exit"])
             r == Len(recvq["exit"])
             s == sent["client"]
             t == sent["exit"]
  <2>1. a \in Nat /\ b \in Nat /\ c \in Nat /\ d \in Nat /\ r \in Nat /\ s \in Nat /\ t \in Nat
    <3>1. \A m, n \in Nat : m + n \in Nat
      OBVIOUS
    <3>2. /\ Len(sendq'["client"]) \in Nat /\ Len(wire'["client"]) \in Nat
          /\ Len(sendq'["exit"]) \in Nat /\ Len(wire'["exit"]) \in Nat
      BY <1>7, <1>10
    <3> QED BY Zenon, <3>1, <3>2, <1>10
  <2>2. a + r + t <= s /\ c <= t
    BY <1>0, <1>10 DEF Apart
  <2>4. b <= a /\ d <= c
    BY <1>7, <1>10
  <2> HIDE DEF a, b, c, d, r, s, t
  <2>3. b + r + t <= s /\ d <= t
    BY ONLY <2>1, <2>2, <2>4
  <2> QED BY <2>3 DEF b, d, r, s, t
<1>9. \A d \in Ends : \A i \in 1 .. Len(wire'[d]) : wire'[d][i].seal = key[d]
  <2>1. \A d \in Ends : \A i \in 1 .. Len(wire[d]) : wire[d][i].seal = key[d]
    BY <1>0 DEF Apart
  <2>2. ASSUME wire'[e] = Append(wire[e], f), NEW i \in 1 .. Len(wire'[e])
        PROVE  wire'[e][i].seal = key[e]
    <3>1. Len(wire[e]) \in Nat /\ (i \in 1 .. Len(wire[e]) \/ i = Len(wire[e]) + 1)
      BY <2>2, <1>1, <1>4
    <3> QED BY <3>1, <2>1, <2>2, <1>3, <1>4
  <2> QED BY <2>1, <2>2, <1>6
<1> QED BY <1>0, <1>2, <1>5, <1>8, <1>9 DEF Apart

\* The client does not receive anything it can decrypt; the exit node, if it does not
\* try, what the client has sent.
LEMMA DataReceivedApart ==
    ASSUME StreamInv, key["client"] # key["exit"], NEW e \in Ends, DataReceived(e)
    PROVE  TypeOK' /\ Apart'
<1>1. TypeOK /\ Apart /\ "client" \in Ends /\ "exit" \in Ends /\ (e = "client" \/ e = "exit")
  BY ApartFacts
<1>2. /\ Len(sendq["client"]) \in Nat /\ Len(wire["client"]) \in Nat /\ Len(recvq["exit"]) \in Nat
      /\ Len(sendq["exit"]) \in Nat /\ Len(wire["exit"]) \in Nat
      /\ sent["client"] \in Nat /\ sent["exit"] \in Nat
  BY ApartFacts
<1>3. /\ \A d \in Ends : wire[d] \in Seq(Sealed) /\ \A i \in 1 .. Len(wire[d]) : wire[d][i].seal = key[d]
      /\ recvq["exit"] \in Seq(Sealed)
  BY <1>1, Typed DEF Apart
<1>4. /\ key["exit"] # NoSecret => sent["exit"] = 0
      /\ Len(sendq["client"]) + Len(wire["client"]) + Len(recvq["exit"]) + sent["exit"] <= sent["client"]
      /\ Len(sendq["exit"]) + Len(wire["exit"]) <= sent["exit"]
  BY <1>1 DEF Apart
<1>5. UNCHANGED <<key, stream, sent, sendq, got, written>>
  BY DEF DataReceived
<1>6. CASE e = "client"
  <2> DEFINE f == Head(wire["exit"])
  <2>1. /\ wire["exit"] # <<>> /\ wire' = [wire EXCEPT !["exit"] = Tail(@)]
        /\ recvq' = IF Decrypts("client", f) THEN [recvq EXCEPT !["client"] = Append(@, f)] ELSE recvq
    BY <1>6 DEF DataReceived, Peer
  <2>2. /\ f \in Sealed /\ f = wire["exit"][1] /\ Tail(wire["exit"]) \in Seq(Sealed)
        /\ Len(wire["exit"]) >= 1 /\ Len(Tail(wire["exit"])) = Len(wire["exit"]) - 1
        /\ \A i \in 1 .. Len(wire["exit"]) - 1 : Tail(wire["exit"])[i] = wire["exit"][i + 1]
    BY <1>1, <1>3, <2>1, TailFacts
  <2> DEFINE a == Len(sendq["exit"])
             b == Len(wire["exit"])
             s == sent["exit"]
  <2>10. a \in Nat /\ b \in Nat /\ s \in Nat /\ b >= 1 /\ a + b <= s
    BY <1>2, <1>4, <2>2
  <2> HIDE DEF a, b, s
  <2>11. s # 0 /\ a + (b - 1) <= s
    BY ONLY <2>10
  <2>3. sent["exit"] # 0
    BY <2>11 DEF s
  <2>4. f.seal = key["exit"]
    BY <1>1, <1>2, <1>3, <2>2
  <2>5. ~Decrypts("client", f)
    BY <1>4, <2>3, <2>4 DEF Decrypts
  <2> HIDE DEF f
  <2>6. recvq' = recvq /\ wire'["exit"] = Tail(wire["exit"]) /\ wire'["client"] = wire["client"]
    BY <1>1, <2>1, <2>5 DEF TypeOK
  <2>7. TypeOK'
    BY <1>1, <1>5, <2>1, <2>2, <2>6 DEF TypeOK
  <2>8. Len(sendq["exit"]) + Len(wire'["exit"]) <= sent["exit"]
    <3>1. Len(wire'["exit"]) = b - 1
      BY <2>2, <2>6 DEF b
    <3> QED BY <2>11, <3>1 DEF a, s
  <2>9. \A d \in Ends : \A i \in 1 .. Len(wire'[d]) : wire'[d][i].seal = key[d]
    <3>1. ASSUME NEW i \in 1 .. Len(wire'["exit"])
          PROVE  wire'["exit"][i].seal = key["exit"]
      <4>1. i + 1 \in 1 .. Len(wire["exit"]) /\ wire'["exit"][i] = wire["exit"][i + 1]
        BY <1>2, <2>2, <2>6
      <4> QED BY <1>1, <1>3, <4>1
    <3> QED BY <1>3, <2>6, <3>1 DEF Ends
  <2> QED BY <1>1, <1>5, <2>6, <2>7, <2>8, <2>9 DEF Apart
<1>7. CASE e = "exit"
  <2> DEFINE f == Head(wire["client"])
  <2>1. /\ wire["client"] # <<>> /\ wire' = [wire EXCEPT !["client"] = Tail(@)]
        /\ recvq' = IF Decrypts("exit", f) THEN [recvq EXCEPT !["exit"] = Append(@, f)] ELSE recvq
    BY <1>7 DEF DataReceived, Peer
  <2>2. /\ f \in Sealed /\ f = wire["client"][1] /\ Tail(wire["client"]) \in Seq(Sealed)
        /\ Len(wire["client"]) >= 1 /\ Len(Tail(wire["client"])) = Len(wire["client"]) - 1
        /\ \A i \in 1 .. Len(wire["client"]) - 1 : Tail(wire["client"])[i] = wire["client"][i + 1]
    BY <1>1, <1>3, <2>1, TailFacts
  <2>3. f.seal = key["client"]
    BY <1>1, <1>2, <1>3, <2>2
  <2> HIDE DEF f
  <2>4. /\ Append(recvq["exit"], f) \in Seq(Sealed) /\ Len(Append(recvq["exit"], f)) = Len(recvq["exit"]) + 1
        /\ \A i \in 1 .. Len(recvq["exit"]) : Append(recvq["exit"], f)[i] = recvq["exit"][i]
        /\ Append(recvq["exit"], f)[Len(recvq["exit"]) + 1] = f
    BY <1>3, <2>2, AppendFacts
  <2>5. /\ wire'["client"] = Tail(wire["client"]) /\ wire'["exit"] = wire["exit"]
        /\ recvq'["client"] = recvq["client"]
        /\ \/ recvq'["exit"] = recvq["exit"]
           \/ recvq'["exit"] = Append(recvq["exit"], f) /\ key["exit"] = NoSecret
    <3>1. CASE Decrypts("exit", f)
      BY <1>1, <2>1, <2>3, <3>1 DEF TypeOK, Decrypts
    <3>2. CASE ~Decrypts("exit", f)
      BY <1>1, <2>1, <3>2 DEF TypeOK
    <3> QED BY <3>1, <3>2
  <2>6. TypeOK'
    <3>1. recvq' \in [Ends -> Seq(Sealed)] /\ wire' \in [Ends -> Seq(Sealed)]
      BY <1>1, <2>1, <2>2, <2>4 DEF TypeOK
    <3> QED BY <3>1, <1>1, <1>5 DEF TypeOK
  <2>7. Len(sendq["client"]) + Len(wire'["client"]) + Len(recvq'["exit"]) + sent["exit"] <= sent["client"]
    <3> DEFINE a == Len(sendq["client"])
               b == Len(wire["client"])
               c == Len(recvq["exit"])
               d == sent["exit"]
               s == sent["client"]
    <3>1. a \in Nat /\ b \in Nat /\ c \in Nat /\ d \in Nat /\ s \in Nat /\ a + b + c + d <= s
      BY <1>2, <1>4
    <3>2. Len(wire'["client"]) = b - 1 /\ (Len(recvq'["exit"]) = c + 1 \/ Len(recvq'["exit"]) = c)
      BY <2>2, <2>4, <2>5
    <3> HIDE DEF a, b, c, d, s
    <3>3. a + (b - 1) + (c + 1) + d <= s /\ a + (b - 1) + c + d <= s
      BY ONLY <3>1
    <3> QED BY <3>2, <3>3 DEF a, d, s
  <2>8. \A d \in Ends : \A i \in 1 .. Len(wire'[d]) : wire'[d][i].seal = key[d]
    <3>1. ASSUME NEW i \in 1 .. Len(wire'["client"])
          PROVE  wire'["client"][i].seal = key["client"]
      <4>1. i + 1 \in 1 .. Len(wire["client"]) /\ wire'["client"][i] = wire["client"][i + 1]
        <5>1. wire'["client"] = Tail(wire["client"])
          BY <2>5
        <5>2. i \in 1 .. Len(Tail(wire["client"]))
          BY <5>1
        <5> QED BY ONLY <2>2, <5>1, <5>2
      <4> QED BY <1>1, <1>3, <4>1
    <3> QED BY <1>3, <2>5, <3>1 DEF Ends
  <2>9. \A i \in 1 .. Len(recvq'["exit"]) :
          recvq'["exit"][i].seal = key["client"] /\ key["exit"] = NoSecret
    <3>1. \A i \in 1 .. Len(recvq["exit"]) :
            recvq["exit"][i].seal = key["client"] /\ key["exit"] = NoSecret
      BY <1>1 DEF Apart
    <3>2. ASSUME recvq'["exit"] = Append(recvq["exit"], f), key["exit"] = NoSecret,
                 NEW i \in 1 .. Len(recvq'["exit"])
          PROVE  recvq'["exit"][i].seal = key["client"]
      <4>1. i \in 1 .. Len(recvq["exit"]) \/ i = Len(recvq["exit"]) + 1
        BY <1>2, <2>4, <3>2
      <4> QED BY <4>1, <2>3, <2>4, <3>1, <3>2
    <3> QED BY <2>5, <3>1, <3>2
  <2> QED BY <1>1, <1>5, <2>5, <2>6, <2>7, <2>8, <2>9 DEF Apart
<1> QED BY <1>1, <1>6, <1>7

\* Only the exit node takes frames, and only its answer to an OPEN does anything.
LEMMA RecvLoopApart ==
    ASSUME StreamInv, key["client"] # key["exit"], NEW e \in Ends, RecvLoop(e)
    PROVE  TypeOK' /\ Apart' /\ UNCHANGED <<key, got, written>>
<1>1. /\ TypeOK /\ Apart /\ "client" \in Ends /\ "exit" \in Ends /\ (e = "client" \/ e = "exit")
      /\ stream["exit"] # "up" /\ stream["client"] # "up"
  BY ApartFacts DEF Apart
<1>2. /\ Len(sendq["client"]) \in Nat /\ Len(wire["client"]) \in Nat /\ Len(recvq["exit"]) \in Nat
      /\ Len(sendq["exit"]) \in Nat /\ Len(wire["exit"]) \in Nat
      /\ sent["client"] \in Nat /\ sent["exit"] \in Nat /\ sent["exit"] <= 1
  BY ApartFacts
<1>3. /\ Len(sendq["client"]) + Len(wire["client"]) + Len(recvq["exit"]) + sent["exit"] <= sent["client"]
      /\ Len(sendq["exit"]) + Len(wire["exit"]) <= sent["exit"] /\ sent["client"] <= 1
      /\ \A i \in 1 .. Len(recvq["exit"]) :
            recvq["exit"][i].seal = key["client"] /\ key["exit"] = NoSecret
  BY <1>1 DEF Apart
<1>4. /\ e = "exit" /\ recvq["exit"] # <<>> /\ recvq' = [recvq EXCEPT !["exit"] = Tail(@)]
      /\ UNCHANGED <<key, wire, got, written>>
      /\ HandleOpenUnreadable \/ UNCHANGED <<stream, sent, sendq>>
  <2>1. recvq[e] # <<>> /\ recvq' = [recvq EXCEPT ![e] = Tail(@)]
    BY <1>1 DEF RecvLoop, HandleOpen, HandleOpenUnreadable, HandleOpenResponse, HandleData,
                HandleClose, DropClose, Takes
  <2>2. e = "exit"
    BY <2>1, <1>1 DEF Apart
  <2>3. Head(recvq["exit"]) = recvq["exit"][1] /\ Len(recvq["exit"]) >= 1
    BY <1>1, <2>1, <2>2, Typed, TailFacts
  <2>4. Head(recvq["exit"]).seal = key["client"]
    BY <1>2, <1>3, <2>3
  <2>5. ~HandleOpen
    BY <2>4 DEF HandleOpen, Readable
  <2>6. UNCHANGED <<key, wire, got, written>> /\ (HandleOpenUnreadable \/ UNCHANGED <<stream, sent, sendq>>)
    BY <1>1, <2>2, <2>5 DEF RecvLoop, HandleOpenUnreadable, HandleData, HandleClose, DropClose
  <2> QED BY <2>1, <2>2, <2>6
<1>5. /\ Tail(recvq["exit"]) \in Seq(Sealed) /\ Len(recvq["exit"]) >= 1
      /\ Len(Tail(recvq["exit"])) = Len(recvq["exit"]) - 1
      /\ \A i \in 1 .. Len(recvq["exit"]) - 1 : Tail(recvq["exit"])[i] = recvq["exit"][i + 1]
  BY <1>1, <1>4, Typed, TailFacts
<1>6. /\ recvq'["exit"] = Tail(recvq["exit"]) /\ recvq'["client"] = recvq["client"]
      /\ recvq' \in [Ends -> Seq(Sealed)]
  BY <1>1, <1>4, <1>5 DEF TypeOK
<1>7. /\ key["exit"] = NoSecret
      /\ \A i \in 1 .. Len(recvq'["exit"]) :
            recvq'["exit"][i].seal = key["client"] /\ key["exit"] = NoSecret
  <2>1. key["exit"] = NoSecret
    BY <1>2, <1>3, <1>5
  <2>2. ASSUME NEW i \in 1 .. Len(recvq'["exit"])
        PROVE  recvq'["exit"][i].seal = key["client"]
    <3>0. Len(recvq["exit"]) \in Nat /\ i \in 1 .. Len(recvq["exit"]) - 1
      BY <1>2, <1>5, <1>6
    <3>1. i + 1 \in 1 .. Len(recvq["exit"]) /\ recvq'["exit"][i] = recvq["exit"][i + 1]
      BY <3>0, <1>5, <1>6
    <3> QED BY <3>1, <1>3
  <2> QED BY <2>1, <2>2
<1> DEFINE a == Len(sendq["client"])
           b == Len(wire["client"])
           c == Len(recvq["exit"])
           d == sent["exit"]
           s == sent["client"]
           q == Len(sendq["exit"])
           w == Len(wire["exit"])
<1>8. /\ a \in Nat /\ b \in Nat /\ c \in Nat /\ d \in Nat /\ s \in Nat /\ q \in Nat /\ w \in Nat
      /\ a + b + c + d <= s /\ s <= 1 /\ c >= 1 /\ q + w <= d
  BY <1>2, <1>3, <1>5
<1>9. Len(recvq'["exit"]) = c - 1
  BY <1>5, <1>6
<1> HIDE DEF a, b, c, d, s, q, w
<1>10. /\ d = 0 /\ a + b + (c - 1) + (d + 1) <= s /\ a + b + (c - 1) + d <= s
       /\ (q + 1) + w <= d + 1
  BY ONLY <1>8
<1>11. CASE HandleOpenUnreadable
  <2>1. PICK next \in {"astray", "refused"}, kind \in {"ok", "fail"} :
          /\ stream' = [stream EXCEPT !["exit"] = next]
          /\ sendq' = [sendq EXCEPT !["exit"] = Append(@, [kind |-> kind, n |-> sent["exit"], size |-> 1])]
          /\ sent' = [sent EXCEPT !["exit"] = @ + 1]
    BY <1>11 DEF HandleOpenUnreadable, Becomes, Queue
  <2> DEFINE f == [kind |-> kind, n |-> sent["exit"], size |-> 1]
  <2>2. f \in Frame
    <3>1. kind \in {"open", "ok", "fail", "data", "close"}
      OBVIOUS
    <3> QED BY <3>1, <1>2 DEF Frame
  <2>3. sendq' = [sendq EXCEPT !["exit"] = Append(@, f)]
    BY <2>1
  <2> HIDE DEF f
  <2>4. Append(sendq["exit"], f) \in Seq(Frame) /\ Len(Append(sendq["exit"], f)) = Len(sendq["exit"]) + 1
    BY <1>1, <2>2, Typed, AppendFacts
  <2>5. /\ stream'["exit"] = next /\ stream'["client"] = stream["client"]
        /\ sendq'["exit"] = Append(sendq["exit"], f) /\ sendq'["client"] = sendq["client"]
        /\ sent'["exit"] = d + 1 /\ sent'["client"] = sent["client"]
    BY <1>1, <2>1, <2>3 DEF TypeOK, d
  <2>6. TypeOK'
    <3>1. d + 1 \in 0 .. MaxFrames
      BY <1>10, MaxFramesIsNat
    <3>2. sent' = [sent EXCEPT !["exit"] = d + 1]
      BY <2>1 DEF d
    <3>3. sent' \in [Ends -> 0 .. MaxFrames]
      BY <1>1, <3>1, <3>2 DEF TypeOK
    <3>4. stream' \in [Ends -> {"none", "asked", "up", "astray", "refused", "ended", "told"}]
      BY <1>1, <2>1 DEF TypeOK
    <3> QED BY <3>3, <3>4, <2>3, <2>4, <1>1, <1>4, <1>6 DEF TypeOK
  <2>7. /\ Len(sendq'["client"]) + Len(wire'["client"]) + Len(recvq'["exit"]) + sent'["exit"] <= sent'["client"]
        /\ Len(sendq'["exit"]) + Len(wire'["exit"]) <= sent'["exit"]
    <3>1. /\ Len(sendq'["client"]) = a /\ Len(wire'["client"]) = b /\ sent'["client"] = s
          /\ Len(sendq'["exit"]) = q + 1 /\ Len(wire'["exit"]) = w
      BY <1>4, <2>4, <2>5 DEF a, b, s, q, w
    <3> QED BY <3>1, <1>9, <1>10, <2>5
  <2>8. stream'["exit"] \notin {"up", "ended", "told"}
    BY <2>5
  <2>9. \A x \in Ends : got[x] = <<>> /\ stream'[x] \notin {"ended", "told"}
    BY <1>1, <2>5 DEF Apart, Ends
  <2> QED BY <1>1, <1>4, <1>6, <1>7, <2>5, <2>6, <2>7, <2>8, <2>9 DEF Apart
<1>12. CASE UNCHANGED <<stream, sent, sendq>>
  <2>1. TypeOK'
    BY <1>1, <1>4, <1>6, <1>12 DEF TypeOK
  <2>2. Len(sendq["client"]) + Len(wire["client"]) + Len(recvq'["exit"]) + sent["exit"] <= sent["client"]
    BY <1>9, <1>10 DEF a, b, d, s
  <2> QED BY <1>1, <1>4, <1>6, <1>7, <1>12, <2>1, <2>2 DEF Apart
<1> QED BY <1>4, <1>11, <1>12

LEMMA ReadApart ==
    ASSUME StreamInv, key["client"] # key["exit"], NEW e \in Ends, Read(e) \/ ReadEnd(e)
    PROVE  FALSE
<1>1. stream["client"] # "up" /\ stream["exit"] # "up" /\ (e = "client" \/ e = "exit")
  BY ApartFacts DEF Apart
<1> QED BY <1>1 DEF Read, ReadEnd

-----------------------------------------------------------------------------
(* The invariant *)

\* Initially nothing has been sent and nothing has arrived.
LEMMA InitHolds == Init => StreamInv
<1> SUFFICES ASSUME Init PROVE StreamInv
  OBVIOUS
<1>1. TypeOK
  <2>1. written \in 0 .. Len(got["client"])
    BY DEF Init, Ends
  <2> QED BY <2>1, MaxFramesIsNat DEF Init, TypeOK
<1>2. \A e \in Ends : /\ stream[e] = "none" /\ sent[e] = 0 /\ sendq[e] = <<>> /\ wire[e] = <<>>
                      /\ recvq[e] = <<>> /\ got[e] = <<>> /\ key[e] \in Keys
  BY DEF Init
<1>3. Intact
  BY <1>2 DEF Intact
<1>4. Agreed
  <2> SUFFICES ASSUME NEW e \in Ends PROVE PipeOK(e) /\ EndOK(e)
    BY DEF Agreed
  <2>1. Peer(e) \in Ends /\ Peer(Peer(e)) = e
    BY PeerFacts
  <2>2. \A d \in Ends : Taken(d) = 0
    BY <1>2, PeerFacts DEF Taken
  <2>3. PipeOK(e)
    <3>1. \A S : <<>> \in Seq(S)
      OBVIOUS
    <3>2. /\ Len(<<>>) = 0 /\ \A x : Numbered(<<>>, x)
          /\ \A x, state : CloseLast(<<>>, x, state)
      BY DEF Numbered, CloseLast
    <3>3. 0 \in Nat /\ 0 - 0 = 0 /\ 0 - 0 - 0 = 0 /\ 0 - 0 - 0 - 0 >= 0
      OBVIOUS
    <3>4. Pipe(e, key[e], <<>>, <<>>, <<>>, 0, "none")
      BY <3>1, <3>2, <3>3 DEF Pipe
    <3> QED BY <1>2, <2>1, <3>4 DEF PipeOK
  <2>4. EndOK(e)
    BY <1>2, <2>1, <2>2 DEF EndOK
  <2> QED BY <2>3, <2>4
<1>5. Apart
  <2>1. "client" \in Ends /\ "exit" \in Ends
    BY DEF Ends
  <2>2. Len(<<>>) = 0 /\ \A i \in 1 .. 0 : FALSE
    OBVIOUS
  <2>3. /\ \A e \in Ends : \A i \in 1 .. Len(wire[e]) : wire[e][i].seal = key[e]
        /\ \A i \in 1 .. Len(recvq["exit"]) :
            recvq["exit"][i].seal = key["client"] /\ key["exit"] = NoSecret
    BY <1>2, <2>1, <2>2
  <2>4. /\ Len(sendq["client"]) + Len(wire["client"]) + Len(recvq["exit"]) + sent["exit"] <= sent["client"]
        /\ Len(sendq["exit"]) + Len(wire["exit"]) <= sent["exit"] /\ sent["client"] <= 1
    <3>1. 0 + 0 + 0 + 0 <= 0 /\ 0 + 0 <= 0 /\ 0 <= 1
      OBVIOUS
    <3> QED BY <1>2, <2>1, <2>2, <3>1
  <2> QED BY <1>2, <2>1, <2>3, <2>4 DEF Apart
<1> QED BY <1>1, <1>3, <1>4, <1>5 DEF StreamInv

\* The write loop moves nothing but its own index.
LEMMA WriteLoopKeeps ==
    ASSUME StreamInv, WriteLoop
    PROVE  TypeOK' /\ Agreed' = Agreed /\ Apart' = Apart
<1>1. UNCHANGED <<key, stream, sent, queues, got>> /\ written' = written + 1
      /\ written < Len(got["client"])
  BY DEF WriteLoop
<1>2. got["client"] \in Seq(Nat) /\ written \in 0 .. Len(got["client"]) /\ TypeOK
  BY DEF StreamInv, TypeOK, Ends
<1>3. written' \in 0 .. Len(got["client"])
  BY <1>1, <1>2
<1>4. TypeOK'
  BY <1>1, <1>2, <1>3 DEF TypeOK, queues
<1>5. Agreed' = Agreed /\ Apart' = Apart
  BY <1>1 DEF queues, Agreed, PipeOK, EndOK, Taken, Apart
<1> QED BY <1>4, <1>5

LEMMA NextPreserves == ASSUME FramesFit, StreamInv, [Next]_vars PROVE StreamInv'
<1>1. CASE UNCHANGED vars
  <2>1. TypeOK' /\ Intact'
    BY <1>1 DEF StreamInv, vars, queues, TypeOK, Intact
  <2>2. Agreed' = Agreed /\ Apart' = Apart
    BY <1>1 DEF vars, queues, Agreed, PipeOK, EndOK, Taken, Apart
  <2> QED BY <1>1, <2>1, <2>2 DEF StreamInv, vars
<1>2. CASE Next
  <2>1. key' = key
    BY <1>2 DEF Next, Ask, WriteLoop, SendLoop, DataReceived, RecvLoop, Read, ReadEnd, HandleOpen,
                HandleOpenUnreadable, HandleOpenResponse, HandleData, HandleClose, DropClose
  <2>2. ASSUME got' = got
        PROVE  Intact'
    BY <2>2 DEF StreamInv, Intact
  <2>3. CASE key["client"] = key["exit"]
    <3>1. TypeOK' /\ Agreed' /\ Intact'
      <4>1. CASE Ask
        BY <4>1, <2>2, <2>3, AskAgreed DEF Ask
      <4>2. ASSUME NEW e \in Ends, SendLoop(e)
            PROVE  TypeOK' /\ Agreed' /\ Intact'
        BY <4>2, <2>2, <2>3, SendLoopAgreed DEF SendLoop
      <4>3. ASSUME NEW e \in Ends, DataReceived(e)
            PROVE  TypeOK' /\ Agreed' /\ Intact'
        BY <4>3, <2>2, <2>3, DataReceivedAgreed DEF DataReceived
      <4>4. ASSUME NEW e \in Ends, RecvLoop(e)
            PROVE  TypeOK' /\ Agreed' /\ Intact'
        <5>1. CASE HandleOpen
          BY <5>1, <2>2, <2>3, HandleOpenAgreed DEF HandleOpen
        <5>2. CASE HandleOpenUnreadable
          BY <5>2, <2>3, HandleOpenUnreadableAgreed
        <5>3. CASE HandleOpenResponse
          BY <5>3, <2>2, <2>3, HandleOpenResponseAgreed DEF HandleOpenResponse
        <5>4. CASE HandleData(e)
          BY <5>4, <2>3, HandleDataAgreed
        <5>5. CASE HandleClose(e)
          BY <5>5, <2>2, <2>3, HandleCloseAgreed DEF HandleClose
        <5>6. CASE DropClose(e)
          BY <5>6, <2>2, <2>3, DropCloseAgreed DEF DropClose
        <5> QED BY <4>4, <5>1, <5>2, <5>3, <5>4, <5>5, <5>6 DEF RecvLoop
      <4>5. ASSUME NEW e \in Ends, Read(e)
            PROVE  TypeOK' /\ Agreed' /\ Intact'
        BY <4>5, <2>2, <2>3, ReadAgreed DEF Read
      <4>6. ASSUME NEW e \in Ends, ReadEnd(e)
            PROVE  TypeOK' /\ Agreed' /\ Intact'
        BY <4>6, <2>2, <2>3, ReadEndAgreed DEF ReadEnd
      <4>7. CASE WriteLoop
        BY <4>7, <2>2, <2>3, WriteLoopKeeps DEF WriteLoop, StreamInv
      <4> QED BY <1>2, <4>1, <4>2, <4>3, <4>4, <4>5, <4>6, <4>7 DEF Next
    <3> QED BY <2>1, <2>3, <3>1 DEF StreamInv
  <2>4. CASE key["client"] # key["exit"]
    <3>1. TypeOK' /\ Apart' /\ got' = got
      <4>1. CASE Ask
        BY <4>1, <2>4, AskApart DEF Ask
      <4>2. ASSUME NEW e \in Ends, SendLoop(e)
            PROVE  TypeOK' /\ Apart' /\ got' = got
        BY <4>2, <2>4, SendLoopApart DEF SendLoop
      <4>3. ASSUME NEW e \in Ends, DataReceived(e)
            PROVE  TypeOK' /\ Apart' /\ got' = got
        BY <4>3, <2>4, DataReceivedApart DEF DataReceived
      <4>4. ASSUME NEW e \in Ends, RecvLoop(e)
            PROVE  TypeOK' /\ Apart' /\ got' = got
        BY <4>4, <2>4, RecvLoopApart
      <4>5. ASSUME NEW e \in Ends, Read(e) \/ ReadEnd(e)
            PROVE  FALSE
        BY <4>5, <2>4, ReadApart
      <4>6. CASE WriteLoop
        BY <4>6, <2>4, WriteLoopKeeps DEF WriteLoop, StreamInv
      <4> QED BY <1>2, <4>1, <4>2, <4>3, <4>4, <4>5, <4>6 DEF Next
    <3> QED BY <2>1, <2>2, <2>4, <3>1 DEF StreamInv
  <2> QED BY <2>3, <2>4
<1> QED BY <1>1, <1>2

\* What the invariant means for the ends.
LEMMA InvImplies == StreamInv => TypeOK /\ Intact /\ Whole /\ NothingWithoutTheSecret
<1> SUFFICES ASSUME StreamInv PROVE Whole /\ NothingWithoutTheSecret
  BY DEF StreamInv
<1>1. CASE key["client"] = key["exit"]
  BY <1>1 DEF StreamInv, Agreed, EndOK, Whole, NothingWithoutTheSecret
<1>2. CASE key["client"] # key["exit"]
  BY <1>2 DEF StreamInv, Apart, Whole, NothingWithoutTheSecret
<1> QED BY <1>1, <1>2

\* The invariant holds in every state of the program, if a read fits into a frame
\* once it is sealed.
LEMMA AlwaysStreamInv == ASSUME FramesFit PROVE Spec => []StreamInv
<1>1. StreamInv /\ [Next]_vars => StreamInv'
  BY NextPreserves
<1> QED BY <1>1, InitHolds, PTL DEF Spec

-----------------------------------------------------------------------------
(* The theorems *)

\* If a read fits into a frame once it is sealed, each end hands on the DATA of the
\* other one in order and without a hole, whatever the secrets.
THEOREM StreamIsIntact == ASSUME FramesFit PROVE Spec => []Intact
  BY AlwaysStreamInv, InvImplies, PTL

\* ... and an end that is told the stream has ended has handed all of it on, the exit
\* node to its socket, the client to the write queue of the connection: up to there no
\* queue and no loop lets a CLOSE overtake DATA.
THEOREM StreamIsWhole == ASSUME FramesFit PROVE Spec => []Whole
  BY AlwaysStreamInv, InvImplies, PTL

\* With different secrets, or with a secret at one end only, no DATA and no answer
\* of one end comes through to the other.
THEOREM NothingComesThrough == ASSUME FramesFit PROVE Spec => []NothingWithoutTheSecret
  BY AlwaysStreamInv, InvImplies, PTL

\* The frames, the queues and the states of the ends keep their types.
THEOREM StreamTypes == ASSUME FramesFit PROVE Spec => []TypeOK
  BY AlwaysStreamInv, InvImplies, PTL

=============================================================================
