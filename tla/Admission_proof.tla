-------------------------- MODULE Admission_proof --------------------------
(***************************************************************************)
(* The relay's rate limiter never lets an address through more than        *)
(* MaxAttempts times within a window, and refuses it for no other reason,  *)
(* for all addresses, limits, windows and lengths of time.                 *)
(*                                                                         *)
(* The code only compares the length of a queue.  The proof shows what the *)
(* queue is: the end of the list of all times at which the address was let *)
(* through, from which only times over a window old are missing.           *)
(***************************************************************************)
EXTENDS Admission, TLAPS

\* The queue q is the end of the list p, and what is missing is stale at time t.
EndOf(q, p, t) ==
    /\ Len(q) <= Len(p)
    /\ \A i \in 1 .. Len(q) : q[i] = p[(Len(p) - Len(q)) + i]
    /\ \A i \in 1 .. Len(p) - Len(q) : t - p[i] > Window

\* Elements that are MaxAttempts apart are more than a window apart.
Spread(p) ==
    \A i \in 1 .. Len(p) : i + MaxAttempts \in 1 .. Len(p) => p[i + MaxAttempts] - p[i] > Window

\* The inductive invariant.
LimiterInv ==
    /\ TypeOK
    /\ \A a \in Addresses : EndOf(attempts[a], admitted[a], now) /\ Spread(admitted[a])
    /\ RefusedForCause

-----------------------------------------------------------------------------
(* Facts about the two lists *)

\* What SubSeq leaves when k elements go from the front.
LEMMA Rest ==
    ASSUME NEW S, NEW q \in Seq(S), NEW k \in 0 .. Len(q)
    PROVE  /\ SubSeq(q, k + 1, Len(q)) \in Seq(S)
           /\ Len(SubSeq(q, k + 1, Len(q))) = Len(q) - k
           /\ \A i \in 1 .. Len(q) - k : SubSeq(q, k + 1, Len(q))[i] = q[k + i]
  OBVIOUS

\* Dropping stale elements from the front leaves an end of the list.
LEMMA PrunedIsEnd ==
    ASSUME NEW q \in Seq(Nat), NEW p \in Seq(Nat), NEW t \in Nat, EndOf(q, p, t),
           NEW k \in 0 .. Len(q), \A i \in 1 .. k : t - q[i] > Window,
           NEW r \in Seq(Nat), Len(r) = Len(q) - k,
           \A i \in 1 .. Len(q) - k : r[i] = q[k + i]
    PROVE  EndOf(r, p, t)
<1> DEFINE gone == Len(p) - Len(q)
<1>1. Len(q) \in Nat /\ Len(p) \in Nat /\ Len(r) \in Nat /\ gone \in Nat /\ Len(p) - Len(r) = gone + k
  BY DEF EndOf
<1>2. \A i \in 1 .. Len(q) : q[i] = p[gone + i]
  BY DEF EndOf
<1>3. \A i \in 1 .. gone : t - p[i] > Window
  BY DEF EndOf
<1> HIDE DEF gone
<1>4. ASSUME NEW i \in 1 .. Len(r)
      PROVE  r[i] = p[(Len(p) - Len(r)) + i]
  <2>1. k + i \in 1 .. Len(q) /\ r[i] = q[k + i]
    BY <1>1
  <2>2. gone + (k + i) = (Len(p) - Len(r)) + i
    <3>1. gone \in Int /\ k \in Int /\ i \in Int
      BY <1>1
    <3>2. gone + (k + i) = (gone + k) + i
      BY ONLY <3>1
    <3> QED
      BY <1>1, <3>2
  <2>3. q[k + i] = p[gone + (k + i)]
    BY <1>2, <2>1
  <2> QED
    BY <2>1, <2>2, <2>3
<1>5. ASSUME NEW i \in 1 .. Len(p) - Len(r)
      PROVE  t - p[i] > Window
  <2>1. CASE i \in 1 .. gone
    BY <1>3, <2>1
  <2>2. CASE i \notin 1 .. gone
    <3>1. i - gone \in 1 .. k /\ i - gone \in 1 .. Len(q) /\ gone + (i - gone) = i
      BY <1>1, <2>2
    <3>2. t - q[i - gone] > Window
      BY <3>1
    <3> QED
      BY <1>2, <3>1, <3>2
  <2> QED
    BY <2>1, <2>2
<1> QED
  BY <1>1, <1>4, <1>5 DEF EndOf

\* Appending the same time to both keeps the one the end of the other.
LEMMA AppendedIsEnd ==
    ASSUME NEW q \in Seq(Nat), NEW p \in Seq(Nat), NEW t \in Nat, EndOf(q, p, t)
    PROVE  EndOf(Append(q, t), Append(p, t), t)
<1> DEFINE qt == Append(q, t)
           pt == Append(p, t)
<1>1. /\ Len(q) \in Nat /\ Len(p) \in Nat
      /\ Len(qt) = Len(q) + 1 /\ Len(pt) = Len(p) + 1
      /\ \A i \in 1 .. Len(q) : qt[i] = q[i]
      /\ \A i \in 1 .. Len(p) : pt[i] = p[i]
      /\ qt[Len(q) + 1] = t /\ pt[Len(p) + 1] = t
  OBVIOUS
<1> HIDE DEF qt, pt
<1>2. /\ Len(q) <= Len(p)
      /\ \A i \in 1 .. Len(q) : q[i] = p[(Len(p) - Len(q)) + i]
      /\ \A i \in 1 .. Len(p) - Len(q) : t - p[i] > Window
  BY DEF EndOf
<1>3. ASSUME NEW i \in 1 .. Len(qt)
      PROVE  qt[i] = pt[(Len(pt) - Len(qt)) + i]
  <2>1. Len(pt) - Len(qt) = Len(p) - Len(q)
    BY <1>1
  <2>2. CASE i \in 1 .. Len(q)
    <3>1. (Len(p) - Len(q)) + i \in 1 .. Len(p)
      BY <1>1, <1>2, <2>2
    <3> QED
      BY <1>1, <1>2, <2>1, <2>2, <3>1
  <2>3. CASE i = Len(q) + 1
    <3>1. (Len(p) - Len(q)) + i = Len(p) + 1
      BY <1>1, <2>3
    <3> QED
      BY <1>1, <2>1, <2>3, <3>1
  <2> QED
    BY <1>1, <2>2, <2>3
<1>4. ASSUME NEW i \in 1 .. Len(pt) - Len(qt)
      PROVE  t - pt[i] > Window
  <2>1. i \in 1 .. Len(p) - Len(q) /\ i \in 1 .. Len(p)
    BY <1>1
  <2> QED
    BY <1>1, <1>2, <2>1
<1>5. Len(qt) <= Len(pt)
  BY <1>1, <1>2
<1> QED
  BY <1>3, <1>4, <1>5 DEF EndOf, qt, pt

\* As long as the queue is not full, one more time keeps the list spread.
LEMMA AppendedIsSpread ==
    ASSUME NEW q \in Seq(Nat), NEW p \in Seq(Nat), NEW t \in Nat, EndOf(q, p, t), Spread(p),
           MaxAttempts \in Nat, Len(q) < MaxAttempts
    PROVE  Spread(Append(p, t))
<1> DEFINE pt == Append(p, t)
<1>1. /\ Len(q) \in Nat /\ Len(p) \in Nat
      /\ Len(pt) = Len(p) + 1
      /\ \A i \in 1 .. Len(p) : pt[i] = p[i]
      /\ pt[Len(p) + 1] = t
  OBVIOUS
<1> HIDE DEF pt
<1>2. ASSUME NEW i \in 1 .. Len(pt), i + MaxAttempts \in 1 .. Len(pt)
      PROVE  pt[i + MaxAttempts] - pt[i] > Window
  <2>1. i \in 1 .. Len(p)
    BY <1>1, <1>2
  <2>2. CASE i + MaxAttempts \in 1 .. Len(p)
    BY <1>1, <2>1, <2>2 DEF Spread
  <2>3. CASE i + MaxAttempts = Len(p) + 1
    <3>1. i \in 1 .. Len(p) - Len(q)
      BY <1>1, <2>3
    <3>2. t - p[i] > Window
      BY <3>1 DEF EndOf
    <3> QED
      BY <1>1, <2>1, <2>3, <3>2
  <2>4. i + MaxAttempts \in 1 .. Len(p) \/ i + MaxAttempts = Len(p) + 1
    <3>1. i + MaxAttempts \in 1 .. Len(p) + 1 /\ Len(p) \in Nat
      BY <1>1, <1>2
    <3> QED
      BY ONLY <3>1
  <2> QED
    BY <2>2, <2>3, <2>4
<1> QED
  BY <1>2 DEF Spread, pt

\* When the queue is full and its oldest time counts, the list itself shows why.
LEMMA FullForCause ==
    ASSUME NEW q \in Seq(Nat), NEW p \in Seq(Nat), NEW t \in Nat, EndOf(q, p, t),
           MaxAttempts \in Nat \ {0}, Len(q) = MaxAttempts, ~(t - q[1] > Window), Window \in Nat
    PROVE  Len(p) >= MaxAttempts /\ t - p[Len(p) - MaxAttempts + 1] <= Window
<1>1. Len(q) \in Nat /\ Len(p) \in Nat /\ 1 \in 1 .. Len(q) /\ q[1] \in Nat
  OBVIOUS
<1>2. Len(q) <= Len(p) /\ q[1] = p[(Len(p) - Len(q)) + 1]
  BY <1>1 DEF EndOf
<1> QED
  BY <1>1, <1>2

\* What is stale stays stale.
LEMMA LaterIsEnd ==
    ASSUME NEW q \in Seq(Nat), NEW p \in Seq(Nat), NEW t \in Nat, EndOf(q, p, t), Window \in Nat
    PROVE  EndOf(q, p, t + 1)
<1>1. ASSUME NEW i \in 1 .. Len(p) - Len(q)
      PROVE  (t + 1) - p[i] > Window
  <2>1. Len(p) \in Nat /\ Len(q) \in Nat /\ i \in 1 .. Len(p) /\ p[i] \in Nat
    OBVIOUS
  <2>2. t - p[i] > Window
    BY DEF EndOf
  <2> QED
    BY <2>1, <2>2
<1> QED
  BY <1>1 DEF EndOf

-----------------------------------------------------------------------------
(* The invariant *)

LEMMA LimiterInit == Init => LimiterInv
  BY AdmissionAssumption DEF Init, LimiterInv, TypeOK, EndOf, Spread, RefusedForCause, Answers

\* A request that is refused leaves the pruned queue.
LEMMA RateLimitedStep ==
    ASSUME LimiterInv, NEW a \in Addresses,
           NEW recent \in Seq(Nat), EndOf(recent, admitted[a], now), Len(recent) = MaxAttempts,
           ~(now - recent[1] > Window),
           RateLimited(a, recent)
    PROVE  LimiterInv'
<1>1. /\ attempts' = [attempts EXCEPT ![a] = recent]
      /\ answered' = <<a, "rate_limited">>
      /\ now' = now /\ admitted' = admitted
  BY DEF RateLimited
<1>2. TypeOK'
  BY <1>1, AdmissionAssumption DEF LimiterInv, TypeOK, Answers
<1>3. ASSUME NEW b \in Addresses
      PROVE  (EndOf(attempts[b], admitted[b], now) /\ Spread(admitted[b]))'
  <2>1. attempts'[b] = IF b = a THEN recent ELSE attempts[b]
    BY <1>1 DEF LimiterInv, TypeOK
  <2>2. EndOf(attempts[b], admitted[b], now) /\ Spread(admitted[b])
    BY DEF LimiterInv
  <2>3. EndOf(attempts'[b], admitted[b], now)
    BY <2>1, <2>2
  <2> QED
    BY <2>2, <2>3, <1>1 DEF EndOf, Spread
<1>4. RefusedForCause'
  <2>1. admitted[a] \in Seq(Nat) /\ now \in Nat
    BY DEF LimiterInv, TypeOK
  <2>2. Len(admitted[a]) >= MaxAttempts /\ now - admitted[a][Len(admitted[a]) - MaxAttempts + 1] <= Window
    BY <2>1, FullForCause, AdmissionAssumption
  <2>3. \A b \in Addresses : answered' = <<b, "rate_limited">> => b = a
    BY <1>1
  <2> QED
    BY <1>1, <2>2, <2>3 DEF RefusedForCause
<1> QED
  BY <1>2, <1>3, <1>4 DEF LimiterInv

\* A request that is let through is remembered in both lists.
LEMMA AcceptStep ==
    ASSUME LimiterInv, NEW a \in Addresses,
           NEW recent \in Seq(Nat), EndOf(recent, admitted[a], now),
           Accept(a, recent)
    PROVE  LimiterInv'
<1>1. /\ Len(recent) < MaxAttempts
      /\ attempts' = [attempts EXCEPT ![a] = Append(recent, now)]
      /\ answered' = <<a, "websocket">>
      /\ admitted' = [admitted EXCEPT ![a] = Append(admitted[a], now)]
      /\ now' = now
  BY DEF Accept
<1>2. /\ now \in Nat /\ admitted[a] \in Seq(Nat)
      /\ attempts \in [Addresses -> Seq(Nat)] /\ admitted \in [Addresses -> Seq(Nat)]
      /\ \A b \in Addresses : Len(attempts[b]) <= MaxAttempts
      /\ MaxAttempts \in Nat
  BY AdmissionAssumption DEF LimiterInv, TypeOK
<1>3. TypeOK'
  <2>1. Len(Append(recent, now)) <= MaxAttempts
    BY <1>1, <1>2
  <2>2. Append(recent, now) \in Seq(Nat) /\ Append(admitted[a], now) \in Seq(Nat)
    BY <1>2
  <2>3. attempts' \in [Addresses -> Seq(Nat)] /\ admitted' \in [Addresses -> Seq(Nat)]
    BY <1>1, <1>2, <2>2
  <2>4. \A b \in Addresses : Len(attempts'[b]) <= MaxAttempts
    BY <1>1, <1>2, <2>1
  <2>5. answered' \in Addresses \X Answers
    BY <1>1 DEF Answers
  <2> QED
    BY <1>1, <1>2, <2>3, <2>4, <2>5 DEF TypeOK
<1>4. ASSUME NEW b \in Addresses
      PROVE  (EndOf(attempts[b], admitted[b], now) /\ Spread(admitted[b]))'
  <2>1. EndOf(attempts[b], admitted[b], now) /\ Spread(admitted[b])
    BY DEF LimiterInv
  <2>2. CASE b = a
    <3>1. attempts'[b] = Append(recent, now) /\ admitted'[b] = Append(admitted[a], now)
      BY <1>1, <1>2, <2>2
    <3>2. EndOf(Append(recent, now), Append(admitted[a], now), now)
      BY <1>2, AppendedIsEnd
    <3>3. Spread(Append(admitted[a], now))
      BY <1>1, <1>2, <2>1, <2>2, AppendedIsSpread
    <3> QED
      BY <1>1, <3>1, <3>2, <3>3 DEF EndOf, Spread
  <2>3. CASE b # a
    <3>1. attempts'[b] = attempts[b] /\ admitted'[b] = admitted[b]
      BY <1>1, <1>2, <2>3
    <3> QED
      BY <1>1, <2>1, <3>1 DEF EndOf, Spread
  <2> QED
    BY <2>2, <2>3
<1>5. RefusedForCause'
  BY <1>1 DEF RefusedForCause
<1> QED
  BY <1>3, <1>4, <1>5 DEF LimiterInv

LEMMA LimiterStep == LimiterInv /\ [Next]_vars => LimiterInv'
<1> SUFFICES ASSUME LimiterInv, [Next]_vars
             PROVE  LimiterInv'
  OBVIOUS
<1>1. CASE Tick
  <2>1. /\ now \in Nat /\ now' = now + 1 /\ answered' = None
        /\ attempts' = attempts /\ admitted' = admitted
        /\ Window \in Nat
    BY <1>1, AdmissionAssumption DEF Tick, LimiterInv, TypeOK
  <2>2. TypeOK'
    BY <2>1 DEF LimiterInv, TypeOK
  <2>3. ASSUME NEW a \in Addresses
        PROVE  (EndOf(attempts[a], admitted[a], now) /\ Spread(admitted[a]))'
    <3>1. attempts[a] \in Seq(Nat) /\ admitted[a] \in Seq(Nat)
      BY DEF LimiterInv, TypeOK
    <3>2. EndOf(attempts[a], admitted[a], now) /\ Spread(admitted[a])
      BY DEF LimiterInv
    <3>3. EndOf(attempts[a], admitted[a], now + 1)
      BY <2>1, <3>1, <3>2, LaterIsEnd
    <3> QED
      BY <2>1, <3>2, <3>3 DEF EndOf, Spread
  <2>4. RefusedForCause'
    BY <2>1, AdmissionAssumption DEF RefusedForCause, Answers
  <2> QED
    BY <2>2, <2>3, <2>4 DEF LimiterInv
<1>2. ASSUME NEW a \in Addresses, NEW token \in Tokens, ClientConnect(a, token)
      PROVE  LimiterInv'
  <2>1. CASE Unauthorized(a)
    BY <2>1 DEF Unauthorized, LimiterInv, TypeOK, Answers, EndOf, Spread, RefusedForCause
  <2>2. CASE \E k \in 0 .. Len(attempts[a]) :
               /\ Prunes(attempts[a], k)
               /\ LET recent == SubSeq(attempts[a], k + 1, Len(attempts[a]))
                  IN  RateLimited(a, recent) \/ Accept(a, recent)
    <3>1. PICK k \in 0 .. Len(attempts[a]) :
             /\ Prunes(attempts[a], k)
             /\ \/ RateLimited(a, SubSeq(attempts[a], k + 1, Len(attempts[a])))
                \/ Accept(a, SubSeq(attempts[a], k + 1, Len(attempts[a])))
      BY <2>2
    <3> DEFINE recent == SubSeq(attempts[a], k + 1, Len(attempts[a]))
    <3>2. /\ attempts[a] \in Seq(Nat) /\ admitted[a] \in Seq(Nat) /\ now \in Nat
          /\ Len(attempts[a]) <= MaxAttempts /\ MaxAttempts \in Nat \ {0}
          /\ EndOf(attempts[a], admitted[a], now)
      BY AdmissionAssumption DEF LimiterInv, TypeOK
    <3>3. /\ recent \in Seq(Nat)
          /\ Len(recent) = Len(attempts[a]) - k
          /\ \A i \in 1 .. Len(attempts[a]) - k : recent[i] = attempts[a][k + i]
      BY <3>2, Rest
    <3>4. RateLimited(a, recent) \/ Accept(a, recent)
      BY <3>1
    <3>5. /\ \A i \in 1 .. k : now - attempts[a][i] > Window
          /\ k < Len(attempts[a]) => ~(now - attempts[a][k + 1] > Window)
      BY <3>1 DEF Prunes, IsStale
    <3> HIDE DEF recent
    <3>6. EndOf(recent, admitted[a], now)
      BY <3>2, <3>3, <3>5, PrunedIsEnd
    <3>7. CASE RateLimited(a, recent)
      <4>1. Len(recent) >= MaxAttempts
        BY <3>7 DEF RateLimited
      <4>2. k = 0 /\ Len(recent) = MaxAttempts /\ 1 \in 1 .. Len(attempts[a]) - k
        BY <4>1, <3>2, <3>3
      <4>3. recent[1] = attempts[a][k + 1] /\ k < Len(attempts[a])
        BY <4>2, <3>2, <3>3
      <4>4. ~(now - recent[1] > Window)
        BY <4>3, <3>5
      <4> QED
        BY <3>3, <3>6, <3>7, <4>2, <4>4, RateLimitedStep
    <3>8. CASE Accept(a, recent)
      BY <3>3, <3>6, <3>8, AcceptStep
    <3> QED
      BY <3>4, <3>7, <3>8
  <2> QED
    BY <2>1, <2>2, <1>2 DEF ClientConnect
<1>3. ASSUME NEW a \in Addresses, NEW token \in Tokens, ServerRegister(a, token)
      PROVE  LimiterInv'
  <2>1. /\ now' = now /\ attempts' = attempts /\ admitted' = admitted
        /\ answered' \in {<<a, "unauthorized">>, <<a, "websocket">>}
    BY <1>3 DEF ServerRegister, Unauthorized
  <2>2. answered' \in Addresses \X Answers
    BY <2>1 DEF Answers
  <2>3. \A b \in Addresses : answered' # <<b, "rate_limited">>
    BY <2>1
  <2>4. TypeOK'
    BY <2>1, <2>2 DEF LimiterInv, TypeOK
  <2> QED
    BY <2>1, <2>3, <2>4 DEF LimiterInv, EndOf, Spread, RefusedForCause
<1>4. CASE UNCHANGED vars
  BY <1>4 DEF vars, LimiterInv, TypeOK, EndOf, Spread, RefusedForCause
<1> QED
  BY <1>1, <1>2, <1>3, <1>4 DEF Next

LEMMA LimiterInvariant == Spec => []LimiterInv
<1> QED
  BY LimiterInit, LimiterStep, PTL DEF Spec

-----------------------------------------------------------------------------
\* In every stretch of a window an address gets at most MaxAttempts websockets,
\* though the code only compares the length of a queue it prunes from the front.
THEOREM LimiterBoundsEveryWindow == Spec => []WindowBound
<1>1. LimiterInv => WindowBound
  <2> SUFFICES ASSUME LimiterInv, NEW a \in Addresses
               PROVE  \A i \in DOMAIN admitted[a] : i + MaxAttempts \in DOMAIN admitted[a] =>
                          admitted[a][i + MaxAttempts] - admitted[a][i] > Window
    BY DEF WindowBound
  <2>1. admitted[a] \in Seq(Nat) /\ Spread(admitted[a])
    BY DEF LimiterInv, TypeOK
  <2>2. DOMAIN admitted[a] = 1 .. Len(admitted[a])
    BY <2>1
  <2> QED
    BY <2>1, <2>2 DEF Spread
<1> QED
  BY <1>1, LimiterInvariant, PTL

\* Nobody is refused for what others did, for refused attempts, or for attempts
\* that are over a window old.
THEOREM LimiterRefusesForCause == Spec => []RefusedForCause
<1>1. LimiterInv => RefusedForCause
  BY DEF LimiterInv
<1> QED
  BY <1>1, LimiterInvariant, PTL
=============================================================================
