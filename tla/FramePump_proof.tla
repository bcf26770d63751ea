-------------------------- MODULE FramePump_proof --------------------------
(***************************************************************************)
(* What the frame queues promise, for both programs, all sizes of the      *)
(* queues and any number of frames and attempts.                           *)
(*                                                                         *)
(* A frame that is on its way waits in _send_queue, in _pending_queue or   *)
(* in the hand of the send loop.  The invariant orders these: what is      *)
(* pending was taken before what is in hand, and that before what is still *)
(* in the send queue; so what is written next is the least of all that     *)
(* wait, and greater than all that was written.                            *)
(***************************************************************************)
EXTENDS FramePump, TLAPS

Rising(q) == \A m, n \in DOMAIN q : m < n => q[m] < q[n]
Before(A, B) == \A a \in A, b \in B : a < b

InHand == {hand} \ {None}
InHandStill == IF written THEN {} ELSE InHand
Waiting == ToSet(sendQueue) \cup ToSet(pending) \cup InHandStill
Frames == {wire[n][2] : n \in DOMAIN wire}

PumpTyped ==
    /\ link \in {"down", "connecting", "open", "tunnel", "left", "closed"}
    /\ began \in Seq([out : Nat, in : Nat])
    /\ queued \in Nat /\ arrived \in Nat
    /\ sendQueue \in Seq(Nat) /\ pending \in Seq(Nat) /\ recvQueue \in Seq(Nat)
    /\ hand \in Nat \cup {None} /\ written \in BOOLEAN
    /\ wire \in Seq(Nat \X Nat)
    /\ handled \in Seq(Nat)

\* The connection: nothing is in hand when an attempt begins, nor before it succeeds.
LinkInv ==
    /\ link # "down" => began # <<>>
    /\ link = "connecting" => hand = None
    /\ \A k \in DOMAIN began : began[k].out <= queued

\* What waits does so in the order in which it was queued.
WaitInv ==
    /\ Rising(pending) /\ Rising(sendQueue)
    /\ Before(ToSet(pending), ToSet(sendQueue))
    /\ Before(InHand, ToSet(sendQueue))
    /\ Before(ToSet(pending), InHand)
    /\ \A f \in ToSet(sendQueue) \cup ToSet(pending) \cup InHand :
        f <= queued /\ (began # <<>> => f > began[Len(began)].out)
    /\ written => hand # None /\ pending = <<>>

\* What was written comes before what waits.
WireInv ==
    /\ SentInOrder
    /\ \A n \in DOMAIN wire : wire[n][1] \in 1 .. Len(began)
    /\ \A f \in Frames : f <= queued
    /\ Before(Frames, Waiting)
    /\ NothingStaleIsSent

\* As long as the connection of an attempt may still be written to, every frame
\* queued since the attempt began waits, was written or found a queue full.
HoleInv ==
    /\ link \in {"connecting", "open", "tunnel", "left"} =>
        \A f \in began[Len(began)].out + 1 .. queued :
            f \in full \cup Waiting \cup WrittenOn(Len(began))
    /\ NothingSkipped

\* The way in.
RecvInv ==
    /\ Rising(recvQueue) /\ Rising(handled)
    /\ Before(ToSet(handled), ToSet(recvQueue))
    /\ \A f \in ToSet(recvQueue) :
        f <= arrived /\ began # <<>> /\ f > began[Len(began)].in
    /\ \A f \in ToSet(handled) : f <= arrived
    /\ \A k \in DOMAIN began : began[k].in <= arrived

PumpInv == PumpTyped /\ LinkInv /\ WaitInv /\ WireInv /\ HoleInv /\ RecvInv

(***************************************************************************)
(* Facts about sequences of frames                                         *)
(***************************************************************************)

\* The head of a rising sequence is its least element.
LEMMA TailSet ==
    ASSUME NEW q \in Seq(Nat), q # <<>>, Rising(q)
    PROVE  /\ Head(q) \in Nat /\ Tail(q) \in Seq(Nat) /\ Rising(Tail(q))
           /\ ToSet(q) = {Head(q)} \cup ToSet(Tail(q))
           /\ Before({Head(q)}, ToSet(Tail(q)))
<1>1. /\ Head(q) \in Nat /\ Head(q) = q[1] /\ Tail(q) \in Seq(Nat)
      /\ Len(q) \in Nat /\ Len(q) >= 1 /\ Len(Tail(q)) = Len(q) - 1
      /\ DOMAIN q = 1 .. Len(q) /\ DOMAIN Tail(q) = 1 .. Len(q) - 1
      /\ \A i \in 1 .. Len(q) - 1 : Tail(q)[i] = q[i + 1]
  OBVIOUS
<1>2. Rising(Tail(q)) /\ Before({Head(q)}, ToSet(Tail(q)))
  <2>1. ASSUME NEW i \in 1 .. Len(q) - 1
        PROVE  i + 1 \in 1 .. Len(q) /\ 1 < i + 1 /\ Tail(q)[i] = q[i + 1]
    BY <1>1
  <2>2. ASSUME NEW m \in 1 .. Len(q) - 1, NEW n \in 1 .. Len(q) - 1, m < n
        PROVE  Tail(q)[m] < Tail(q)[n]
    <3>1. m + 1 < n + 1
      BY <2>2, <1>1
    <3>2. q[m + 1] < q[n + 1]
      BY <2>1, <3>1, <1>1 DEF Rising
    <3> QED  BY <2>1, <3>2
  <2>3. ASSUME NEW i \in 1 .. Len(q) - 1 PROVE Head(q) < Tail(q)[i]
    BY <2>1, <1>1 DEF Rising
  <2>4. Rising(Tail(q))
    BY <2>2, <1>1 DEF Rising
  <2>5. ToSet(Tail(q)) = {Tail(q)[i] : i \in 1 .. Len(q) - 1}
    BY <1>1 DEF ToSet
  <2>6. Before({Head(q)}, ToSet(Tail(q)))
    BY <2>3, <2>5 DEF Before
  <2> QED  BY <2>4, <2>6
<1>3. ASSUME NEW f \in ToSet(q) PROVE f \in {Head(q)} \cup ToSet(Tail(q))
  <2>1. PICK i \in 1 .. Len(q) : q[i] = f
    BY <1>1 DEF ToSet
  <2>2. CASE i = 1
    BY <2>1, <2>2, <1>1
  <2>3. CASE i # 1
    <3>1. i - 1 \in 1 .. Len(q) - 1 /\ (i - 1) + 1 = i
      BY <2>3, <1>1
    <3>2. Tail(q)[i - 1] = f
      BY <3>1, <2>1, <1>1
    <3>3. ToSet(Tail(q)) = {Tail(q)[j] : j \in 1 .. Len(q) - 1}
      BY <1>1 DEF ToSet
    <3> QED  BY <3>1, <3>2, <3>3
  <2> QED  BY <2>2, <2>3
<1>4. ToSet(Tail(q)) \subseteq ToSet(q) /\ Head(q) \in ToSet(q)
  BY <1>1 DEF ToSet
<1> QED  BY <1>1, <1>2, <1>3, <1>4

\* What is put at the end of a rising sequence is its greatest element.
LEMMA AppendSet ==
    ASSUME NEW q \in Seq(Nat), NEW f \in Nat, Rising(q), Before(ToSet(q), {f})
    PROVE  /\ Append(q, f) \in Seq(Nat) /\ Append(q, f) # <<>> /\ Rising(Append(q, f))
           /\ ToSet(Append(q, f)) = ToSet(q) \cup {f}
<1>1. /\ Append(q, f) \in Seq(Nat) /\ Append(q, f) # <<>>
      /\ Len(q) \in Nat /\ DOMAIN q = 1 .. Len(q) /\ DOMAIN Append(q, f) = 1 .. Len(q) + 1
      /\ \A i \in 1 .. Len(q) : Append(q, f)[i] = q[i]
      /\ Append(q, f)[Len(q) + 1] = f
  OBVIOUS
<1>2. \A i \in 1 .. Len(q) : q[i] < f
  BY <1>1 DEF Before, ToSet
<1>3. Rising(Append(q, f))
  BY <1>1, <1>2 DEF Rising
<1>4. ToSet(Append(q, f)) = ToSet(q) \cup {f}
  BY <1>1 DEF ToSet
<1> QED  BY <1>1, <1>3, <1>4

LEMMA UpTo ==
    ASSUME NEW k \in Nat
    PROVE  1 .. k + 1 = (1 .. k) \cup {k + 1}
OBVIOUS

LEMMA Empty == ToSet(<<>>) = {} /\ Rising(<<>>) /\ \A S : <<>> \in Seq(S)
BY DEF ToSet, Rising

LEMMA LastIndex ==
    ASSUME NEW S, NEW q \in Seq(S), q # <<>>
    PROVE  Len(q) \in Nat /\ Len(q) \in 1 .. Len(q) /\ DOMAIN q = 1 .. Len(q)
OBVIOUS

\* The elements of a sequence of frames are frames.
LEMMA SetOfNat == ASSUME NEW q \in Seq(Nat) PROVE ToSet(q) \subseteq Nat
BY DEF ToSet

LEMMA Elements == ASSUME NEW S, NEW q \in Seq(S) PROVE \A i \in DOMAIN q : q[i] \in S
OBVIOUS

\* The types of what the invariant speaks of.
LEMMA TypeFacts ==
    ASSUME PumpTyped
    PROVE  /\ queued \in Nat /\ arrived \in Nat
           /\ ToSet(sendQueue) \subseteq Nat /\ ToSet(pending) \subseteq Nat
           /\ ToSet(recvQueue) \subseteq Nat /\ ToSet(handled) \subseteq Nat
           /\ InHand \subseteq Nat /\ Frames \subseteq Nat
           /\ \A k \in DOMAIN began : began[k].out \in Nat /\ began[k].in \in Nat
           /\ began # <<>> => Len(began) \in DOMAIN began
<1>1. /\ ToSet(sendQueue) \subseteq Nat /\ ToSet(pending) \subseteq Nat
      /\ ToSet(recvQueue) \subseteq Nat /\ ToSet(handled) \subseteq Nat
  BY SetOfNat DEF PumpTyped
<1>2. Frames \subseteq Nat
  BY DEF PumpTyped, Frames
<1>3. \A k \in DOMAIN began : began[k] \in [out : Nat, in : Nat]
  BY Elements DEF PumpTyped
<1>4. began # <<>> => Len(began) \in DOMAIN began
  BY LastIndex DEF PumpTyped
<1>5. InHand \subseteq Nat /\ queued \in Nat /\ arrived \in Nat
  BY DEF PumpTyped, InHand
<1> QED  BY <1>1, <1>2, <1>3, <1>4, <1>5

(***************************************************************************)
(* Writing                                                                 *)
(***************************************************************************)

\* What one more frame on the wire adds.
LEMMA WireAppends ==
    ASSUME PumpTyped, WireInv, began' = began, NEW x \in Nat, Before(Frames, {x}),
           wire' = Append(wire, <<Len(began), x>>)
    PROVE  /\ wire' \in Seq(Nat \X Nat)
           /\ SentInOrder' /\ Frames' = Frames \cup {x}
           /\ \A n \in DOMAIN wire' : wire'[n][1] \in 1 .. Len(began) \cup {Len(began)}
           /\ \A k : WrittenOn(k)' = WrittenOn(k) \cup (IF k = Len(began) THEN {x} ELSE {})
<1>1. Len(began) \in Nat
  BY DEF PumpTyped
<1>2. /\ wire' \in Seq(Nat \X Nat) /\ Len(wire) \in Nat
      /\ DOMAIN wire = 1 .. Len(wire) /\ DOMAIN wire' = 1 .. Len(wire) + 1
      /\ \A n \in 1 .. Len(wire) : wire'[n] = wire[n]
      /\ wire'[Len(wire) + 1] = <<Len(began), x>>
  BY <1>1 DEF PumpTyped
<1>3. wire'[Len(wire) + 1][1] = Len(began) /\ wire'[Len(wire) + 1][2] = x
  BY <1>2
<1>4. \A n \in 1 .. Len(wire) : wire[n][2] < x
  BY <1>2 DEF Before, Frames
<1>5. SentInOrder'
  <2> SUFFICES ASSUME NEW m \in 1 .. Len(wire) + 1, NEW n \in 1 .. Len(wire) + 1, m < n
               PROVE  wire'[m][2] < wire'[n][2]
    BY <1>2 DEF SentInOrder
  <2>1. m \in 1 .. Len(wire)
    BY <1>2
  <2>2. CASE n = Len(wire) + 1
    BY <2>1, <2>2, <1>2, <1>3, <1>4
  <2>3. CASE n \in 1 .. Len(wire)
    BY <2>1, <2>3, <1>2 DEF WireInv, SentInOrder
  <2>4. n = Len(wire) + 1 \/ n \in 1 .. Len(wire)
    BY <1>2, UpTo
  <2> QED  BY <2>2, <2>3, <2>4
<1>6. Frames' = Frames \cup {x}
  <2>1. Frames' = {wire'[n][2] : n \in 1 .. Len(wire) + 1}
    BY <1>2 DEF Frames
  <2>2. Frames = {wire[n][2] : n \in 1 .. Len(wire)}
    BY <1>2 DEF Frames
  <2>3. 1 .. Len(wire) + 1 = (1 .. Len(wire)) \cup {Len(wire) + 1}
    BY <1>2, UpTo
  <2> HIDE DEF Frames
  <2> QED  BY <2>1, <2>2, <2>3, <1>2, <1>3
<1>7. ASSUME NEW n \in 1 .. Len(wire) + 1
      PROVE  wire'[n][1] \in 1 .. Len(began) \cup {Len(began)}
  <2>1. n = Len(wire) + 1 \/ n \in 1 .. Len(wire)
    BY <1>2, UpTo
  <2>2. n \in 1 .. Len(wire) => wire'[n][1] \in 1 .. Len(began)
    BY <1>2 DEF WireInv
  <2> QED  BY <2>1, <2>2, <1>3
<1>8. ASSUME NEW k
      PROVE  WrittenOn(k)' = WrittenOn(k) \cup (IF k = Len(began) THEN {x} ELSE {})
  <2>1. 1 .. Len(wire) + 1 = (1 .. Len(wire)) \cup {Len(wire) + 1}
    BY <1>2, UpTo
  <2>2. WrittenOn(k)' = {wire'[n][2] : n \in {m \in 1 .. Len(wire) + 1 : wire'[m][1] = k}}
    BY <1>2 DEF WrittenOn
  <2>3. WrittenOn(k) = {wire[n][2] : n \in {m \in 1 .. Len(wire) : wire[m][1] = k}}
    BY <1>2 DEF WrittenOn
  <2> HIDE DEF WrittenOn
  <2> QED  BY <2>1, <2>2, <2>3, <1>2, <1>3
<1> QED  BY <1>2, <1>5, <1>6, <1>7, <1>8

\* The send loop writes x, the least of all that wait, or loses it because the
\* connection is not one that can be written to any more.
LEMMA OneWritten ==
    ASSUME PumpTyped, LinkInv, WireInv, HoleInv, NEW x \in Nat,
           SendData(x), UNCHANGED <<link, began, queued, full>>,
           Waiting = {x} \cup Waiting', Before({x}, Waiting'),
           x <= queued, began # <<>> => x > began[Len(began)].out,
           link # "connecting"
    PROVE  wire' \in Seq(Nat \X Nat) /\ WireInv' /\ HoleInv'
<1>0. Before(Frames, {x}) /\ Before(Frames, Waiting')
  BY DEF WireInv, Before
<1>1. CASE WsOpen
  <2>1. began # <<>> /\ Len(began) \in Nat /\ Len(began) \in 1 .. Len(began)
        /\ DOMAIN began = 1 .. Len(began)
    BY <1>1, LastIndex DEF WsOpen, LinkInv, PumpTyped
  <2>2. wire' = Append(wire, <<Len(began), x>>)
    BY <1>1 DEF SendData
  <2>3. /\ wire' \in Seq(Nat \X Nat)
        /\ SentInOrder' /\ Frames' = Frames \cup {x}
        /\ \A n \in DOMAIN wire' : wire'[n][1] \in 1 .. Len(began) \cup {Len(began)}
        /\ \A k : WrittenOn(k)' = WrittenOn(k) \cup (IF k = Len(began) THEN {x} ELSE {})
    BY <2>2, <1>0, WireAppends
  <2>4. \A n \in DOMAIN wire' : wire'[n][1] \in 1 .. Len(began')
    BY <2>1, <2>3
  <2>5. \A f \in Frames' : f <= queued'
    BY <2>3 DEF WireInv
  <2>6. Before(Frames', Waiting')
    BY <2>3, <1>0 DEF Before
  <2>7. NothingStaleIsSent'
    BY <2>1, <2>3 DEF WireInv, NothingStaleIsSent
  <2>8. WireInv'
    BY <2>3, <2>4, <2>5, <2>6, <2>7 DEF WireInv
  <2>9. \A f \in began[Len(began)].out + 1 .. queued :
            f \in full \cup Waiting \cup WrittenOn(Len(began))
    BY <1>1 DEF HoleInv, WsOpen
  <2>10. \A f \in began[Len(began)].out + 1 .. queued :
            f \in full \cup Waiting' \cup WrittenOn(Len(began))'
    BY <2>3, <2>9
  <2>11. NothingSkipped'
    <3> SUFFICES ASSUME NEW k \in DOMAIN began, NEW f \in WrittenOn(k)',
                        NEW g \in began[k].out + 1 .. f
                 PROVE  g \in WrittenOn(k)' \cup full
      BY DEF NothingSkipped
    <3>1. CASE f \in WrittenOn(k)
      BY <3>1, <2>3 DEF HoleInv, NothingSkipped
    <3>2. CASE f \notin WrittenOn(k)
      <4>1. k = Len(began) /\ f = x
        BY <3>2, <2>3
      <4>2. g \in Int /\ g <= x /\ g \in began[Len(began)].out + 1 .. queued
        BY <4>1 DEF PumpTyped
      <4>3. g \notin Waiting'
        BY <4>2 DEF Before
      <4> QED  BY <2>10, <4>1, <4>2, <4>3
    <3> QED  BY <3>1, <3>2
  <2> QED  BY <2>3, <2>8, <2>10, <2>11 DEF HoleInv
<1>2. CASE ~WsOpen
  <2>1. wire' = wire
    BY <1>2 DEF SendData
  <2>2. link \notin {"connecting", "open", "tunnel", "left"}
    BY <1>2 DEF WsOpen
  <2>3. Frames' = Frames /\ \A k : WrittenOn(k)' = WrittenOn(k)
    BY <2>1 DEF Frames, WrittenOn
  <2>4. WireInv'
    BY <2>1, <2>3, <1>0 DEF WireInv, SentInOrder, NothingStaleIsSent
  <2>5. HoleInv'
    BY <2>2, <2>3 DEF HoleInv, NothingSkipped
  <2> QED  BY <2>1, <2>4, <2>5 DEF PumpTyped
<1> QED  BY <1>1, <1>2

\* The send loop has f in hand, not written yet, and does its next send.
LEMMA SendNextStep ==
    ASSUME PumpTyped, LinkInv, WaitInv, WireInv, HoleInv, ~written, NEW f \in Nat,
           SendNext(f), hand' = f, UNCHANGED <<link, began, queued, full>>,
           sendQueue' \in Seq(Nat), Rising(sendQueue'),
           ToSet(sendQueue) \cup InHand = {f} \cup ToSet(sendQueue'),
           Before({f}, ToSet(sendQueue')), Before(ToSet(pending), {f}),
           link # "connecting"
    PROVE  /\ wire' \in Seq(Nat \X Nat) /\ pending' \in Seq(Nat) /\ written' \in BOOLEAN
           /\ WaitInv' /\ WireInv' /\ HoleInv'
<1>0. InHand' = {f} /\ f # None /\ Waiting = {f} \cup ToSet(sendQueue') \cup ToSet(pending)
  BY PumpAssumption DEF InHand, Waiting, InHandStill
<1>1. \A g \in {f} \cup ToSet(sendQueue') \cup ToSet(pending) :
        g <= queued /\ (began # <<>> => g > began[Len(began)].out)
  BY DEF WaitInv
<1>2. Before(ToSet(pending), ToSet(sendQueue'))
  <2>1. \A a \in ToSet(pending), b \in ToSet(sendQueue) \cup InHand : a < b
    BY DEF WaitInv, Before
  <2> QED  BY <2>1 DEF Before
<1>3. CASE pending # <<>>
  <2>1. SendData(Head(pending)) /\ pending' = Tail(pending) /\ written' = FALSE
    BY <1>3 DEF SendNext
  <2>2. /\ Head(pending) \in Nat /\ pending' \in Seq(Nat) /\ Rising(pending')
        /\ ToSet(pending) = {Head(pending)} \cup ToSet(pending')
        /\ Before({Head(pending)}, ToSet(pending'))
    BY <1>3, <2>1, TailSet DEF WaitInv, PumpTyped
  <2>3. Waiting' = {f} \cup ToSet(sendQueue') \cup ToSet(pending')
    BY <1>0, <2>1 DEF Waiting, InHandStill
  <2>4. Waiting = {Head(pending)} \cup Waiting' /\ Before({Head(pending)}, Waiting')
    BY <1>0, <1>2, <2>2, <2>3 DEF Before
  <2>5. wire' \in Seq(Nat \X Nat) /\ WireInv' /\ HoleInv'
    BY <2>1, <2>2, <2>4, <1>1, OneWritten
  <2>6. WaitInv'
    BY <1>0, <1>1, <1>2, <2>1, <2>2 DEF WaitInv, Before
  <2> QED  BY <2>1, <2>2, <2>5, <2>6
<1>4. CASE pending = <<>>
  <2>1. SendData(f) /\ pending' = <<>> /\ written' = TRUE /\ ToSet(pending) = {}
    BY <1>4, Empty DEF SendNext
  <2>2. Waiting' = ToSet(sendQueue') /\ ToSet(pending') = {} /\ Rising(pending')
    BY <2>1, Empty DEF Waiting, InHandStill
  <2>3. Waiting = {f} \cup Waiting' /\ Before({f}, Waiting')
    BY <1>0, <2>1, <2>2
  <2>4. wire' \in Seq(Nat \X Nat) /\ WireInv' /\ HoleInv'
    BY <2>1, <2>3, <1>1, OneWritten
  <2>5. WaitInv'
    BY <1>0, <1>1, <2>1, <2>2 DEF WaitInv, Before
  <2> QED  BY <2>1, <2>4, <2>5, Empty
<1> QED  BY <1>3, <1>4

(***************************************************************************)
(* Every step                                                              *)
(***************************************************************************)

OutInv == PumpTyped /\ LinkInv /\ WaitInv /\ WireInv /\ HoleInv

LEMMA InitHolds == Init => PumpInv
<1> SUFFICES ASSUME Init PROVE PumpInv
  OBVIOUS
<1>1. DOMAIN <<>> = {}
  OBVIOUS
<1>2. InHand = {} /\ Waiting = {} /\ Frames = {}
  BY <1>1, Empty DEF Init, Waiting, InHand, InHandStill, Frames
<1>3. PumpTyped
  BY Empty DEF Init, PumpTyped
<1>4. LinkInv
  BY <1>1 DEF Init, LinkInv
<1>5. WaitInv
  BY <1>2, Empty DEF Init, WaitInv, Before
<1>6. WireInv
  BY <1>1, <1>2 DEF Init, WireInv, SentInOrder, NothingStaleIsSent, Before
<1>7. HoleInv
  BY <1>1 DEF Init, HoleInv, NothingSkipped
<1>8. RecvInv
  BY <1>1, Empty DEF Init, RecvInv, Before
<1> QED  BY <1>3, <1>4, <1>5, <1>6, <1>7, <1>8 DEF PumpInv

\* An attempt begins with empty queues and empty hands, later than all frames.
LEMMA BeginAttemptStep == ASSUME PumpInv, BeginAttempt PROVE PumpInv'
<1> USE PumpAssumption DEF PumpInv
<1> DEFINE b == [out |-> queued, in |-> arrived]
<1>1. /\ b \in [out : Nat, in : Nat] /\ began' = Append(began, b)
      /\ link' = "connecting" /\ hand = None /\ hand' = None
      /\ sendQueue' = <<>> /\ pending' = <<>> /\ recvQueue' = <<>>
      /\ UNCHANGED <<queued, written, full, wire, arrived, handled>>
  BY DEF BeginAttempt, ClearStaleQueues, PumpTyped
<1>2. /\ began' \in Seq([out : Nat, in : Nat]) /\ began' # <<>>
      /\ Len(began) \in Nat /\ Len(began') = Len(began) + 1
      /\ DOMAIN began = 1 .. Len(began) /\ DOMAIN began' = 1 .. Len(began) + 1
      /\ \A k \in 1 .. Len(began) : began'[k] = began[k]
      /\ began'[Len(began) + 1] = b
  <2> HIDE DEF b
  <2>1. began \in Seq([out : Nat, in : Nat])
    BY DEF PumpTyped
  <2> QED  BY ONLY <1>1, <2>1
<1>3. b.out = queued /\ b.in = arrived
  OBVIOUS
<1>4. ~written
  BY <1>1 DEF WaitInv, PumpTyped
<1> HIDE DEF b
<1>5. \A k \in 1 .. Len(began) + 1 : k = Len(began) + 1 \/ k \in 1 .. Len(began)
  BY <1>2, UpTo
<1>6. ToSet(sendQueue') = {} /\ ToSet(pending') = {} /\ InHand' = {} /\ Waiting' = {}
  BY <1>1, <1>4, Empty DEF InHand, Waiting, InHandStill
<1>7. PumpTyped'
  BY <1>1, <1>2, Empty DEF PumpTyped
<1>8. LinkInv'
  <2>1. ASSUME NEW k \in 1 .. Len(began) + 1 PROVE began'[k].out <= queued
    <3>1. CASE k = Len(began) + 1
      BY <3>1, <1>2, <1>3 DEF PumpTyped
    <3>2. CASE k \in 1 .. Len(began)
      BY <3>2, <1>2 DEF LinkInv
    <3> QED  BY <3>1, <3>2, <1>5
  <2> QED  BY <2>1, <1>1, <1>2 DEF LinkInv
<1>9. WaitInv'
  BY <1>1, <1>4, <1>6, Empty DEF WaitInv, Before
<1>10. Frames' = Frames /\ \A k : WrittenOn(k)' = WrittenOn(k)
  BY <1>1 DEF Frames, WrittenOn
<1>11. WrittenOn(Len(began) + 1) = {}
  BY <1>2 DEF WireInv, WrittenOn
<1>12. WireInv'
  <2>1. \A n \in DOMAIN wire' : wire'[n][1] \in 1 .. Len(began')
    BY <1>1, <1>2 DEF WireInv
  <2>2. NothingStaleIsSent'
    BY <1>2, <1>5, <1>10, <1>11 DEF WireInv, NothingStaleIsSent
  <2> QED  BY <1>1, <1>6, <1>10, <2>1, <2>2 DEF WireInv, SentInOrder, Before
<1>13. HoleInv'
  <2>1. began'[Len(began')].out = queued'
    BY <1>1, <1>2, <1>3
  <2>2. queued + 1 .. queued = {}
    BY DEF PumpTyped
  <2>3. NothingSkipped'
    BY <1>1, <1>2, <1>5, <1>10, <1>11 DEF HoleInv, NothingSkipped
  <2> QED  BY <1>1, <2>1, <2>2, <2>3 DEF HoleInv
<1>14. RecvInv'
  <2>1. \A k \in DOMAIN began' : began'[k].in <= arrived
    <3>1. arrived <= arrived
      BY TypeFacts
    <3> QED  BY <1>2, <1>3, <1>5, <3>1 DEF RecvInv
  <2> QED  BY <1>1, <2>1, Empty DEF RecvInv, Before
<1> QED  BY <1>7, <1>8, <1>9, <1>12, <1>13, <1>14

\* The other steps of the connection change nothing but its state, and none leads back
\* to a state in which it can be written to, but by way of a new attempt.
LEMMA LinkBecomesStep ==
    ASSUME PumpInv, WebsocketOpens \/ TunnelOpens \/ PeerLeaves \/ TunnelCloses \/ Drop
    PROVE  PumpInv'
<1> USE DEF WebsocketOpens, TunnelOpens, PeerLeaves, TunnelCloses, Drop, LinkBecomes,
            outVars, inVars, PumpInv
<1>1. UNCHANGED <<began, queued, sendQueue, pending, hand, written, full, wire,
                  arrived, recvQueue, handling, handled>>
  OBVIOUS
<1>2. /\ link' \in {"open", "tunnel", "left", "closed", "down"}
      /\ link' \in {"open", "tunnel", "left"} => link \in {"connecting", "open", "tunnel"}
      /\ link # "down" \/ link' = "down"
  OBVIOUS
<1>3. PumpTyped' /\ LinkInv' /\ WaitInv' /\ RecvInv'
  BY <1>1, <1>2 DEF PumpTyped, LinkInv, WaitInv, RecvInv, InHand
<1>4. WireInv'
  BY <1>1 DEF WireInv, Frames, Waiting, InHandStill, InHand, SentInOrder, NothingStaleIsSent,
              WrittenOn
<1>5. HoleInv'
  BY <1>1, <1>2 DEF HoleInv, Waiting, InHandStill, InHand, NothingSkipped, WrittenOn
<1> QED  BY <1>3, <1>4, <1>5

LEMMA QueueFrameStep == ASSUME OutInv, QueueFrame PROVE OutInv'
<1> USE DEF OutInv
<1>1. /\ queued \in Nat /\ queued' = queued + 1 /\ queued' \in Nat
      /\ UNCHANGED <<link, began, pending, hand, written, wire, arrived, recvQueue, handled>>
      /\ UNCHANGED <<InHand, InHandStill, Frames>>
  BY DEF PumpTyped, InHand, InHandStill, Frames, QueueFrame, linkVars, inVars
<1>2. \A f \in ToSet(sendQueue) \cup ToSet(pending) \cup InHand \cup Frames :
        f \in Nat /\ f <= queued
  BY TypeFacts DEF WaitInv, WireInv
<1>10. Before(ToSet(sendQueue) \cup ToSet(pending) \cup InHand \cup Frames, {queued'})
  BY <1>1, <1>2 DEF Before
<1>3. /\ sendQueue' \in Seq(Nat) /\ Rising(sendQueue')
      /\ ToSet(sendQueue) \subseteq ToSet(sendQueue')
      /\ ToSet(sendQueue') \subseteq ToSet(sendQueue) \cup {queued'}
      /\ queued' \in ToSet(sendQueue') \cup full' /\ full \subseteq full'
  <2>1. CASE Len(sendQueue) < MaxQueue
    <3>1. sendQueue' = Append(sendQueue, queued') /\ full' = full
      BY <2>1, <1>1 DEF QueueFrame
    <3>2. Before(ToSet(sendQueue), {queued'}) /\ sendQueue \in Seq(Nat) /\ Rising(sendQueue)
      BY <1>10 DEF Before, WaitInv, PumpTyped
    <3> QED  BY <1>1, <3>1, <3>2, AppendSet
  <2>2. CASE ~(Len(sendQueue) < MaxQueue)
    <3>1. sendQueue' = sendQueue /\ full' = full \cup {queued'}
      BY <2>2, <1>1 DEF QueueFrame
    <3> QED  BY <3>1 DEF PumpTyped, WaitInv
  <2> QED  BY <2>1, <2>2
<1>4. began # <<>> => began[Len(began)].out <= queued /\ began[Len(began)].out \in Nat
  BY TypeFacts DEF LinkInv
<1>5. PumpTyped' /\ LinkInv'
  <2>1. \A k \in DOMAIN began : began[k].out <= queued'
    BY <1>1, TypeFacts DEF LinkInv
  <2>2. PumpTyped'
    BY <1>1, <1>3 DEF PumpTyped
  <2> QED  BY <1>1, <2>1, <2>2 DEF LinkInv
<1>6. WaitInv'
  <2>1. \A f \in ToSet(sendQueue') \cup ToSet(pending') \cup InHand' :
            f <= queued' /\ (began' # <<>> => f > began'[Len(began')].out)
    <3> SUFFICES ASSUME NEW f \in ToSet(sendQueue) \cup ToSet(pending) \cup InHand \cup {queued'}
                 PROVE  f <= queued' /\ (began # <<>> => f > began[Len(began)].out)
      BY <1>1, <1>3
    <3>1. f \in Nat
      BY <1>1, <1>2
    <3>2. CASE f = queued'
      BY <3>1, <3>2, <1>1, <1>4
    <3>3. CASE f # queued'
      BY <3>1, <3>3, <1>1 DEF WaitInv
    <3> QED  BY <3>2, <3>3
  <2>2. Before(ToSet(pending'), ToSet(sendQueue')) /\ Before(InHand', ToSet(sendQueue'))
    BY <1>1, <1>10, <1>3 DEF WaitInv, Before
  <2> QED  BY <2>1, <2>2, <1>1, <1>3 DEF WaitInv
<1>7. Waiting \subseteq Waiting' /\ Waiting' \subseteq Waiting \cup {queued'}
      /\ queued' \in Waiting' \cup full'
  BY <1>1, <1>3 DEF Waiting
<1>8. WireInv'
  <2>1. Before(Frames', Waiting')
    BY <1>1, <1>10, <1>7 DEF WireInv, Before
  <2>2. \A f \in Frames' : f <= queued'
    BY <1>1, <1>2
  <2> QED  BY <2>1, <2>2, <1>1 DEF WireInv, SentInOrder, NothingStaleIsSent, WrittenOn
<1>9. HoleInv'
  <2>1. \A k : WrittenOn(k)' = WrittenOn(k)
    BY <1>1 DEF WrittenOn
  <2>2. NothingSkipped'
    BY <2>1, <1>1, <1>3 DEF HoleInv, NothingSkipped
  <2>3. ASSUME NEW f \in began[Len(began)].out + 1 .. queued', f # queued', began # <<>>
        PROVE  f \in began[Len(began)].out + 1 .. queued
    BY <2>3, <1>1, <1>4
  <2>4. link \in {"connecting", "open", "tunnel", "left"} => began # <<>>
    BY DEF LinkInv
  <2> QED  BY <2>1, <2>2, <2>3, <2>4, <1>1, <1>3, <1>7 DEF HoleInv
<1> QED  BY <1>5, <1>6, <1>8, <1>9

LEMMA TakeConnectedStep == ASSUME OutInv, TakeConnected PROVE OutInv'
<1> USE PumpAssumption DEF OutInv
<1> DEFINE f == Head(sendQueue)
<1>1. /\ hand = None /\ sendQueue # <<>> /\ IsConnected
      /\ hand' = f /\ sendQueue' = Tail(sendQueue) /\ SendNext(f)
      /\ UNCHANGED <<link, began, queued, full, arrived, recvQueue, handled>>
  BY DEF TakeConnected, linkVars, inVars
<1>2. /\ f \in Nat /\ sendQueue' \in Seq(Nat) /\ Rising(sendQueue')
      /\ ToSet(sendQueue) = {f} \cup ToSet(sendQueue')
      /\ Before({f}, ToSet(sendQueue'))
  BY <1>1, TailSet DEF PumpTyped, WaitInv
<1> HIDE DEF f
<1>3. ~written /\ InHand = {}
  BY <1>1 DEF WaitInv, PumpTyped, InHand
<1>4. Before(ToSet(pending), {f})
  BY <1>2 DEF WaitInv, Before
<1>5. link # "connecting"
  BY <1>1 DEF IsConnected
<1>6. ToSet(sendQueue) \cup InHand = {f} \cup ToSet(sendQueue')
  BY <1>2, <1>3
<1>7. /\ wire' \in Seq(Nat \X Nat) /\ pending' \in Seq(Nat) /\ written' \in BOOLEAN
      /\ WaitInv' /\ WireInv' /\ HoleInv'
  BY <1>1, <1>2, <1>3, <1>4, <1>5, <1>6, SendNextStep
<1>8. PumpTyped' /\ LinkInv'
  BY <1>1, <1>2, <1>5, <1>7 DEF PumpTyped, LinkInv
<1> QED  BY <1>7, <1>8

LEMMA TakeDisconnectedStep == ASSUME OutInv, TakeDisconnected PROVE OutInv'
<1> USE DEF OutInv
<1> DEFINE f == Head(sendQueue)
<1>1. /\ hand = None /\ sendQueue # <<>> /\ sendQueue' = Tail(sendQueue)
      /\ UNCHANGED <<link, began, queued, hand, written, wire, arrived, recvQueue, handled>>
  BY DEF TakeDisconnected, linkVars, inVars
<1>2. /\ f \in Nat /\ sendQueue' \in Seq(Nat) /\ Rising(sendQueue')
      /\ ToSet(sendQueue) = {f} \cup ToSet(sendQueue')
      /\ Before({f}, ToSet(sendQueue'))
  BY <1>1, TailSet DEF PumpTyped, WaitInv
<1>3. ~written /\ InHand = {} /\ InHand' = {}
  BY <1>1 DEF WaitInv, PumpTyped, InHand
<1>4. Before(ToSet(pending), {f})
  BY <1>2 DEF WaitInv, Before
<1>5. /\ pending' \in Seq(Nat) /\ Rising(pending')
      /\ ToSet(pending) \subseteq ToSet(pending') /\ ToSet(pending') \subseteq ToSet(pending) \cup {f}
      /\ f \in ToSet(pending') \cup full' /\ full \subseteq full'
  <2>1. CASE Len(pending) < MaxPending
    <3>1. pending' = Append(pending, f) /\ full' = full
      BY <2>1 DEF TakeDisconnected
    <3>2. pending \in Seq(Nat) /\ Rising(pending)
      BY DEF PumpTyped, WaitInv
    <3> HIDE DEF f
    <3> QED  BY <1>2, <1>4, <3>1, <3>2, AppendSet
  <2>2. CASE ~(Len(pending) < MaxPending)
    <3>1. pending' = pending /\ full' = full \cup {f}
      BY <2>2 DEF TakeDisconnected
    <3> QED  BY <3>1 DEF PumpTyped, WaitInv
  <2> QED  BY <2>1, <2>2
<1> HIDE DEF f
<1>6. PumpTyped' /\ LinkInv'
  BY <1>1, <1>2, <1>5 DEF PumpTyped, LinkInv
<1>7. ToSet(sendQueue') \cup ToSet(pending') \subseteq ToSet(sendQueue) \cup ToSet(pending)
  BY <1>2, <1>5
<1>8. Waiting = ToSet(sendQueue) \cup ToSet(pending)
      /\ Waiting' = ToSet(sendQueue') \cup ToSet(pending')
  BY <1>1, <1>3 DEF Waiting, InHandStill
<1>9. WaitInv'
  BY <1>1, <1>2, <1>3, <1>4, <1>5, <1>7 DEF WaitInv, Before
<1>10. Frames' = Frames /\ \A k : WrittenOn(k)' = WrittenOn(k)
  BY <1>1 DEF Frames, WrittenOn
<1>11. WireInv'
  BY <1>1, <1>7, <1>8, <1>10 DEF WireInv, SentInOrder, NothingStaleIsSent, Before
<1>12. HoleInv'
  BY <1>1, <1>2, <1>5, <1>8, <1>10 DEF HoleInv, NothingSkipped
<1> QED  BY <1>6, <1>9, <1>11, <1>12

\* The frame in hand is done with: it was written, or the connection is lost.
LEMMA HandFreed ==
    ASSUME OutInv, written \/ ~WsOpen, hand # None, hand' = None, written' = FALSE,
           UNCHANGED <<link, began, queued, sendQueue, pending, full, wire,
                       arrived, recvQueue, handled>>
    PROVE  OutInv'
<1> USE DEF OutInv
<1>1. InHand' = {} /\ InHandStill' = {}
  BY DEF InHand, InHandStill
<1>2. Waiting' \subseteq Waiting /\ (written => Waiting' = Waiting)
  BY <1>1 DEF Waiting, InHandStill
<1>3. PumpTyped' /\ LinkInv'
  BY DEF PumpTyped, LinkInv
<1>4. WaitInv'
  BY <1>1 DEF WaitInv, Before
<1>5. Frames' = Frames /\ \A k : WrittenOn(k)' = WrittenOn(k)
  BY DEF Frames, WrittenOn
<1>6. WireInv'
  BY <1>2, <1>5 DEF WireInv, SentInOrder, NothingStaleIsSent, Before
<1>7. HoleInv'
  <2>1. link \in {"connecting", "open", "tunnel", "left"} => written
    BY DEF LinkInv, WsOpen
  <2> QED  BY <1>2, <1>5, <2>1 DEF HoleInv, NothingSkipped
<1> QED  BY <1>3, <1>4, <1>6, <1>7

LEMMA SendReturnsStep == ASSUME OutInv, SendReturns PROVE OutInv'
<1> USE DEF OutInv
<1>1. /\ hand # None
      /\ UNCHANGED <<link, began, queued, sendQueue, full, arrived, recvQueue, handled>>
  BY DEF SendReturns, linkVars, inVars
<1>2. CASE written
  <2>1. hand' = None /\ written' = FALSE /\ UNCHANGED <<pending, wire>>
    BY <1>2 DEF SendReturns
  <2> QED  BY <1>1, <1>2, <2>1, HandFreed
<1>3. CASE ~written
  <2>1. SendNext(hand) /\ hand' = hand
    BY <1>3 DEF SendReturns
  <2>2. hand \in Nat /\ InHand = {hand}
    BY <1>1 DEF PumpTyped, InHand
  <2>3. /\ sendQueue' \in Seq(Nat) /\ Rising(sendQueue')
        /\ ToSet(sendQueue) \cup InHand = {hand} \cup ToSet(sendQueue')
        /\ Before({hand}, ToSet(sendQueue')) /\ Before(ToSet(pending), {hand})
    BY <1>1, <2>2 DEF PumpTyped, WaitInv
  <2>4. link # "connecting"
    BY <1>1 DEF LinkInv
  <2>5. /\ wire' \in Seq(Nat \X Nat) /\ pending' \in Seq(Nat) /\ written' \in BOOLEAN
        /\ WaitInv' /\ WireInv' /\ HoleInv'
    BY <1>1, <1>3, <2>1, <2>2, <2>3, <2>4, SendNextStep
  <2>6. PumpTyped' /\ LinkInv'
    BY <1>1, <2>1, <2>5 DEF PumpTyped, LinkInv
  <2> QED  BY <2>5, <2>6
<1> QED  BY <1>2, <1>3

LEMMA SendRaisesStep == ASSUME OutInv, SendRaises PROVE OutInv'
BY HandFreed DEF SendRaises, linkVars, inVars

\* The steps of the way in leave the way out alone.
LEMMA OutUntouched ==
    ASSUME OutInv, UNCHANGED <<linkVars, outVars>>,
           arrived' \in Nat, recvQueue' \in Seq(Nat), handled' \in Seq(Nat)
    PROVE  OutInv'
<1>1. UNCHANGED <<link, began, queued, sendQueue, pending, hand, written, full, wire>>
  BY DEF linkVars, outVars
<1>2. PumpTyped' /\ LinkInv' /\ WaitInv'
  BY <1>1 DEF OutInv, PumpTyped, LinkInv, WaitInv, InHand
<1>3. WireInv'
  BY <1>1 DEF OutInv, WireInv, Frames, Waiting, InHandStill, InHand, SentInOrder,
              NothingStaleIsSent, WrittenOn
<1>4. HoleInv'
  BY <1>1 DEF OutInv, HoleInv, Waiting, InHandStill, InHand, NothingSkipped, WrittenOn
<1> QED  BY <1>2, <1>3, <1>4 DEF OutInv

LEMMA HandleDataReceivedStep == ASSUME PumpInv, HandleDataReceived PROVE PumpInv'
<1> USE DEF PumpInv
<1>1. /\ arrived' = arrived + 1 /\ arrived' \in Nat /\ arrived \in Nat
      /\ UNCHANGED <<link, began, handled>> /\ UNCHANGED <<linkVars, outVars>>
      /\ began # <<>>
  BY DEF HandleDataReceived, linkVars, PumpTyped, WsOpen, LinkInv
<1>2. \A f \in ToSet(recvQueue) \cup ToSet(handled) : f \in Nat /\ f <= arrived
  BY TypeFacts DEF RecvInv
<1>3. Before(ToSet(recvQueue) \cup ToSet(handled), {arrived'})
  BY <1>1, <1>2 DEF Before
<1>4. /\ recvQueue' \in Seq(Nat) /\ Rising(recvQueue')
      /\ ToSet(recvQueue') \subseteq ToSet(recvQueue) \cup {arrived'}
  <2>1. recvQueue \in Seq(Nat) /\ Rising(recvQueue) /\ Before(ToSet(recvQueue), {arrived'})
    BY <1>3 DEF PumpTyped, RecvInv, Before
  <2>2. recvQueue' = Append(recvQueue, arrived') \/ recvQueue' = recvQueue
    BY <1>1 DEF HandleDataReceived
  <2> QED  BY <1>1, <2>1, <2>2, AppendSet
<1>5. OutInv'
  BY <1>1, <1>4, OutUntouched DEF OutInv, PumpTyped
<1>6. RecvInv'
  <2>1. began[Len(began)].in \in Nat /\ began[Len(began)].in <= arrived
    BY <1>1, TypeFacts DEF RecvInv
  <2>2. ASSUME NEW f \in ToSet(recvQueue')
        PROVE  f <= arrived' /\ f > began[Len(began)].in
    <3>1. CASE f = arrived'
      BY <3>1, <2>1, <1>1
    <3>2. CASE f \in ToSet(recvQueue)
      BY <3>2, <1>1, <1>2 DEF RecvInv
    <3> QED  BY <3>1, <3>2, <1>4
  <2>3. Before(ToSet(handled'), ToSet(recvQueue'))
    BY <1>1, <1>3, <1>4 DEF RecvInv, Before
  <2>4. \A f \in ToSet(handled') : f <= arrived'
    BY <1>1, <1>2
  <2>5. \A k \in DOMAIN began' : began'[k].in <= arrived'
    BY <1>1, TypeFacts DEF RecvInv
  <2> QED  BY <1>1, <1>4, <2>2, <2>3, <2>4, <2>5 DEF RecvInv
<1> QED  BY <1>5, <1>6 DEF OutInv

LEMMA HandleStep == ASSUME PumpInv, Handle PROVE PumpInv'
<1> USE DEF PumpInv
<1> DEFINE f == Head(recvQueue)
<1>1. /\ recvQueue # <<>> /\ recvQueue' = Tail(recvQueue) /\ handled' = Append(handled, f)
      /\ UNCHANGED <<link, began, arrived>> /\ UNCHANGED <<linkVars, outVars>>
  BY DEF Handle, linkVars
<1>2. /\ f \in Nat /\ recvQueue' \in Seq(Nat) /\ Rising(recvQueue')
      /\ ToSet(recvQueue) = {f} \cup ToSet(recvQueue')
      /\ Before({f}, ToSet(recvQueue'))
  BY <1>1, TailSet DEF PumpTyped, RecvInv
<1> HIDE DEF f
<1>3. handled \in Seq(Nat) /\ Rising(handled) /\ Before(ToSet(handled), {f})
  BY <1>2 DEF RecvInv, PumpTyped, Before
<1>4. /\ handled' \in Seq(Nat) /\ Rising(handled')
      /\ ToSet(handled') = ToSet(handled) \cup {f}
  BY <1>1, <1>2, <1>3, AppendSet
<1>5. OutInv'
  BY <1>1, <1>2, <1>4, OutUntouched DEF OutInv, PumpTyped
<1>6. RecvInv'
  BY <1>1, <1>2, <1>3, <1>4 DEF RecvInv, Before
<1> QED  BY <1>5, <1>6 DEF OutInv

\* Every step preserves the invariant.
LEMMA PumpStep == PumpInv /\ [Next]_vars => PumpInv'
<1> SUFFICES ASSUME PumpInv, [Next]_vars PROVE PumpInv'
  OBVIOUS
<1>1. PumpInv => OutInv /\ RecvInv
  BY DEF PumpInv, OutInv
<1>2. ASSUME OutInv', UNCHANGED <<began, arrived, recvQueue, handled>> PROVE PumpInv'
  BY <1>1, <1>2 DEF PumpInv, OutInv, RecvInv
<1>3. CASE SendLoop
  BY <1>1, <1>2, <1>3, TakeConnectedStep, TakeDisconnectedStep, SendReturnsStep, SendRaisesStep
     DEF SendLoop, TakeConnected, TakeDisconnected, SendReturns, SendRaises, linkVars, inVars
<1>4. CASE Handle
  BY <1>4, HandleStep
<1>5. CASE HandleReturns
  <2>1. UNCHANGED <<linkVars, outVars>> /\ UNCHANGED <<began, arrived, recvQueue, handled>>
    BY <1>5 DEF HandleReturns, linkVars
  <2> QED  BY <1>1, <1>2, <2>1, OutUntouched DEF PumpInv, PumpTyped
<1>6. CASE BeginAttempt
  BY <1>6, BeginAttemptStep
<1>7. CASE WebsocketOpens \/ TunnelOpens \/ PeerLeaves \/ TunnelCloses \/ Drop
  BY <1>7, LinkBecomesStep
<1>8. CASE QueueFrame
  BY <1>1, <1>2, <1>8, QueueFrameStep DEF QueueFrame, linkVars, inVars
<1>9. CASE HandleDataReceived
  BY <1>9, HandleDataReceivedStep
<1>10. CASE UNCHANGED vars
  <2>1. UNCHANGED <<linkVars, outVars>> /\ UNCHANGED <<began, arrived, recvQueue, handled>>
    BY <1>10 DEF vars, inVars, linkVars
  <2> QED  BY <1>1, <1>2, <2>1, OutUntouched DEF PumpInv, PumpTyped
<1> QED  BY <1>3, <1>4, <1>5, <1>6, <1>7, <1>8, <1>9, <1>10 DEF Next, Link, RecvLoop

LEMMA AlwaysPumpInv == Spec => []PumpInv
BY InitHolds, PumpStep, PTL DEF Spec

(***************************************************************************)
(* What the queues promise                                                 *)
(***************************************************************************)

\* Frames leave, and are handled, in order and at most once, whatever connections do
\* between two sends (client/client.py:213-280, exitnode/server.py:185-250).
THEOREM FramesStayInOrder == Spec => []InOrder
<1>1. PumpInv => InOrder
  <2> SUFFICES ASSUME PumpInv PROVE InOrder
    OBVIOUS
  <2>1. SentInOrder
    BY DEF PumpInv, WireInv
  <2>2. recvQueue # <<>> => Head(recvQueue) \in ToSet(recvQueue)
    BY TailSet DEF PumpInv, PumpTyped, RecvInv
  <2> QED  BY <2>1, <2>2, TypeFacts DEF PumpInv, RecvInv, InOrder, HandledInOrder, Rising
<1> QED  BY <1>1, AlwaysPumpInv, PTL

\* No connection carries a frame that was queued before its attempt began
\* (client/client.py:513-514).
THEOREM NothingStaleLeaves == Spec => []NothingStaleIsSent
<1>1. PumpInv => NothingStaleIsSent
  BY DEF PumpInv, WireInv
<1> QED  BY <1>1, AlwaysPumpInv, PTL

\* A connection carries every frame that was queued since its attempt began, up to the
\* latest one it carries, but for those that found a queue full.
THEOREM FramesLeaveNoHole == Spec => []NothingSkipped
<1>1. PumpInv => NothingSkipped
  BY DEF PumpInv, HoleInv
<1> QED  BY <1>1, AlwaysPumpInv, PTL
=============================================================================
