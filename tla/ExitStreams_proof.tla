------------------------- MODULE ExitStreams_proof -------------------------
(***************************************************************************)
(* Proofs about ExitStreams: its types for every way in which one session  *)
(* follows another, its promises for sessions that follow one another when *)
(* no stream is being opened or closed.                                    *)
(***************************************************************************)
EXTENDS ExitStreams, SequenceTheorems, TLAPS

USE DEF clientVars, openVars, taskVars, connVars, closeVars

(***************************************************************************)
(* Types                                                                   *)
(***************************************************************************)

Words == {"ok", "fail", "data", "close"}

\* A stream is named by a session and an id.
LEMMA OpensFacts ==
    /\ \A o \in Opens : o[1] \in 1 .. MaxSession /\ o[2] \in Ids /\ o = <<o[1], o[2]>>
    /\ \A o, p \in Opens : o[1] = p[1] /\ o[2] = p[2] => o = p
    /\ None \notin Opens /\ None \notin Ids
BY StreamsAssumption

\* "Nothing" is told apart from what the receive loop or close_all may be waiting for.
LEMMA AwaitFacts ==
    /\ \A o \in Opens : None # <<"drain", o>> /\ None # <<"stop", o>>
    /\ \A o \in Opens : None \notin {"drain", "stop"} \X {o}
    /\ \A i \in Ids : None # <<"close", i>>
    /\ \A S \in SUBSET Opens : None # S
BY StreamsAssumption

LEMMA TellType ==
    ASSUME TypeOK, NEW o \in Opens, NEW what \in Words, Tell(o, what)
    PROVE  told' \in [Opens -> Seq(Words)]
<1>1. Append(told[o], what) \in Seq(Words)
  BY AppendProperties DEF TypeOK, Words
<1> QED  BY <1>1 DEF TypeOK, Tell, Words

LEMMA AnswerType ==
    ASSUME TypeOK, NEW o \in Opens, NEW reply \in {"ok", "fail"}, Answer(o, reply)
    PROVE  /\ session' \in 1 .. MaxSession
           /\ client' \in [Opens -> {"idle", "asked", "up", "ended"}]
           /\ sent' \in [Opens -> 0 .. MaxData]
           /\ told' \in [Opens -> Seq(Words)]
<1>1. told' \in [Opens -> Seq(Words)]
  BY TellType DEF Answer, Words
<1> QED  BY <1>1 DEF TypeOK, Answer

LEMMA DiscardType ==
    ASSUME TypeOK, NEW i \in Ids, Discard(i)
    PROVE  /\ opening' \in SUBSET Ids /\ aborted' \subseteq opening'
           /\ held' \in [Ids -> Seq(Chunks)]
           /\ \A j \in Ids : Len(held'[j]) <= MaxPending /\ (j \notin opening' => held'[j] = <<>>)
<1>1. <<>> \in Seq(Chunks) /\ Len(<<>>) = 0
  BY EmptySeq
<1>2. MaxPending >= 0
  BY StreamsAssumption
<1>3. opening' \in SUBSET Ids /\ aborted' \subseteq opening' /\ held' \in [Ids -> Seq(Chunks)]
  BY <1>1 DEF TypeOK, Discard
<1>4. ASSUME NEW j \in Ids PROVE held'[j] = IF j = i THEN <<>> ELSE held[j]
  BY DEF TypeOK, Discard
<1>5. \A j \in Ids : j \in opening' <=> j \in opening /\ j # i
  BY DEF Discard
<1>6. \A j \in Ids : Len(held[j]) <= MaxPending /\ (j \notin opening => held[j] = <<>>)
  BY DEF TypeOK
<1> QED  BY <1>1, <1>2, <1>3, <1>4, <1>5, <1>6

\* What stop does to the read loop it is called for, and to no other.
LEMMA StoppingType ==
    ASSUME TypeOK, NEW o \in Opens, conn' \in Stopping(o)
    PROVE  /\ conn' \in [Opens -> {"none", "started", "reading", "cancelled", "closed"}]
           /\ \A p \in Opens : p # o => conn'[p] = conn[p]
           /\ conn[o] \in {"none", "cancelled", "closed"} => conn'[o] = conn[o]
           /\ conn[o] = "reading" => conn'[o] = "cancelled"
           /\ conn[o] = "started" => conn'[o] \in {"cancelled", "closed"}
<1>1. conn[o] \in {"none", "started", "reading", "cancelled", "closed"}
  BY DEF TypeOK
<1>2. CASE conn[o] = "started"
  <2>1. PICK how \in {"closed", "cancelled"} : conn' = [conn EXCEPT ![o] = how]
    BY <1>2 DEF Stopping
  <2> QED  BY <1>2, <2>1 DEF TypeOK
<1>3. CASE conn[o] = "reading"
  <2>1. conn' = [conn EXCEPT ![o] = "cancelled"]
    BY <1>3 DEF Stopping
  <2> QED  BY <1>3, <2>1 DEF TypeOK
<1>4. CASE conn[o] \in {"none", "cancelled", "closed"}
  <2>1. conn' = conn
    BY <1>4 DEF Stopping
  <2> QED  BY <1>4, <2>1 DEF TypeOK
<1> QED  BY <1>1, <1>2, <1>3, <1>4

\* A stream that stop is called for is open no more, and live only if it was.
LEMMA StoppingEnds ==
    ASSUME TypeOK, NEW o \in Opens, conn' \in Stopping(o)
    PROVE  /\ \A p \in Opens : p # o => conn'[p] = conn[p]
           /\ conn'[o] \notin {"started", "reading"}
           /\ conn'[o] = "cancelled" => conn[o] \in {"started", "reading", "cancelled"}
           /\ conn'[o] = "none" <=> conn[o] = "none"
<1>1. conn[o] \in {"none", "started", "reading", "cancelled", "closed"}
  BY DEF TypeOK
<1> QED  BY <1>1, StoppingType

LEMMA PoppedType ==
    ASSUME TypeOK, NEW o \in Opens, streams' \in PoppedIfLost(o)
    PROVE  streams' \in [Ids -> Opens \cup {None}]
BY OpensFacts DEF TypeOK, PoppedIfLost

LEMMA WrittenType ==
    ASSUME TypeOK, NEW o \in Opens, NEW chunk \in Chunks
    PROVE  Written(o, <<chunk>>) \in [Opens -> Seq(Chunks)]
<1>1. got[o] \o <<chunk>> \in Seq(Chunks)
  BY ConcatProperties DEF TypeOK
<1> QED  BY <1>1 DEF TypeOK, Written

\* Every step keeps every variable in its type.
LEMMA TypeStep == TypeOK /\ [Next]_vars => TypeOK'
<1> SUFFICES ASSUME TypeOK, [Next]_vars PROVE TypeOK'
  OBVIOUS
<1> USE OpensFacts DEF Words
<1>1. ASSUME NEW o \in Opens, ReadData(o) PROVE TypeOK'
  BY <1>1, TellType DEF TypeOK, ReadData
<1>2. ASSUME NEW o \in Opens, ReadLoopEnds(o) PROVE TypeOK'
  BY <1>2, TellType DEF TypeOK, ReadLoopEnds
<1>3. ASSUME NEW o \in Opens, ConnectFails(o) PROVE TypeOK'
  BY <1>3, AnswerType, DiscardType DEF TypeOK, ConnectFails
<1>4. ASSUME NEW o \in Opens, ConnectedWaits(o) PROVE TypeOK'
  BY <1>4 DEF TypeOK, ConnectedWaits
<1>5. ASSUME NEW o \in Opens, Insert(o) PROVE TypeOK'
  <2>1. got' \in [Opens -> Seq(Chunks)] /\ left' \in [Opens -> Seq(Chunks)]
    <3>1. CASE held[o[2]] = <<>>
      BY <1>5, <3>1 DEF Insert, TypeOK
    <3>2. CASE held[o[2]] # <<>>
      <4>1. held[o[2]] \in Seq(Chunks)
        BY DEF TypeOK
      <4>2. Head(held[o[2]]) \in Chunks /\ Tail(held[o[2]]) \in Seq(Chunks)
        BY <3>2, <4>1, HeadTailProperties
      <4>3. Append(got[o], Head(held[o[2]])) \in Seq(Chunks)
        BY <4>2, AppendProperties DEF TypeOK
      <4>4. /\ got' = [got EXCEPT ![o] = Append(@, Head(held[o[2]]))]
            /\ left' = [left EXCEPT ![o] = Tail(held[o[2]])]
        BY <1>5, <3>2 DEF Insert
      <4> QED  BY <4>2, <4>3, <4>4 DEF TypeOK
    <3> QED  BY <3>1, <3>2
  <2>2. /\ streams' \in [Ids -> Opens \cup {None}]
        /\ conn' \in [Opens -> {"none", "started", "reading", "cancelled", "closed"}]
        /\ doomed' \in SUBSET Opens
        /\ task' \in [Opens -> {"none", "connecting", "waiting", "flushing", "stopping", "done"}]
    BY <1>5 DEF Insert, TypeOK
  <2>3. Answer(o, "ok") /\ Discard(o[2]) /\ UNCHANGED <<recv, closeVars>>
    BY <1>5 DEF Insert
  <2> QED  BY <2>1, <2>2, <2>3, AnswerType, DiscardType DEF TypeOK
<1>6. ASSUME NEW o \in Opens, Flush(o) PROVE TypeOK'
  <2>1. Head(left[o]) \in Chunks /\ Tail(left[o]) \in Seq(Chunks)
    BY <1>6, HeadTailProperties DEF Flush, TypeOK
  <2>2. got' \in [Opens -> Seq(Chunks)]
    BY <1>6, <2>1, WrittenType DEF Flush
  <2> QED  BY <1>6, <2>1, <2>2, PoppedType DEF Flush, TypeOK
<1>7. ASSUME NEW o \in Opens, FlushEnds(o) PROVE TypeOK'
  <2>1. CASE o \in doomed
    <3>1. conn' \in [Opens -> {"none", "started", "reading", "cancelled", "closed"}]
      BY <1>7, <2>1, StoppingType DEF FlushEnds
    <3>2. /\ streams' = [streams EXCEPT ![o[2]] = None] /\ task' = [task EXCEPT ![o] = "stopping"]
          /\ UNCHANGED <<clientVars, openVars, left, doomed, got, told, recv, closeVars>>
      BY <1>7, <2>1 DEF FlushEnds
    <3> QED  BY <3>1, <3>2 DEF TypeOK
  <2>2. CASE o \notin doomed
    BY <1>7, <2>2, PoppedType DEF FlushEnds, TypeOK
  <2> QED  BY <2>1, <2>2
<1>8. ASSUME NEW o \in Opens, AbortEnds(o) PROVE TypeOK'
  BY <1>8 DEF TypeOK, AbortEnds
<1>9. ASSUME NEW o \in Opens, HandleOpen(o) PROVE TypeOK'
  BY <1>9 DEF TypeOK, HandleOpen
<1>10. ASSUME NEW o \in Opens, HandleData(o) PROVE TypeOK'
  <2>1. sent[o] \in 0 .. MaxData /\ sent[o] < MaxData /\ sent' = [sent EXCEPT ![o] = @ + 1]
    <3>1. sent \in [Opens -> 0 .. MaxData]
      BY DEF TypeOK
    <3> QED  BY <1>10, <3>1 DEF HandleData
  <2>2. <<o, sent[o] + 1>> \in Chunks /\ sent' \in [Opens -> 0 .. MaxData]
    <3>1. MaxData \in Nat /\ sent[o] + 1 \in 1 .. MaxData
      BY <2>1, StreamsAssumption
    <3>2. <<o, sent[o] + 1>> \in Chunks
      BY <3>1 DEF Chunks
    <3>3. sent[o] + 1 \in 0 .. MaxData
      BY <3>1
    <3>4. sent \in [Opens -> 0 .. MaxData]
      BY DEF TypeOK
    <3> QED  BY <2>1, <3>2, <3>3, <3>4
  <2>3. /\ held' \in [Ids -> Seq(Chunks)]
        /\ \A j \in Ids : Len(held'[j]) <= MaxPending /\ (j \notin opening => held'[j] = <<>>)
    <3>1. CASE held' = held
      BY <3>1 DEF TypeOK
    <3>2. CASE /\ o[2] \in opening /\ Len(held[o[2]]) < MaxPending
               /\ held' = [held EXCEPT ![o[2]] = Append(@, <<o, sent[o] + 1>>)]
      <4>1. held[o[2]] \in Seq(Chunks) /\ held \in [Ids -> Seq(Chunks)]
        BY DEF TypeOK
      <4>2. /\ Append(held[o[2]], <<o, sent[o] + 1>>) \in Seq(Chunks)
            /\ Len(Append(held[o[2]], <<o, sent[o] + 1>>)) = Len(held[o[2]]) + 1
            /\ Len(held[o[2]]) \in Nat
        BY <2>2, <4>1, AppendProperties, LenProperties
      <4>3. Len(Append(held[o[2]], <<o, sent[o] + 1>>)) <= MaxPending
        BY <3>2, <4>2, StreamsAssumption
      <4> QED  BY <3>2, <4>1, <4>2, <4>3 DEF TypeOK
    <3> QED  BY <1>10, <3>1, <3>2 DEF HandleData
  <2>4. got' \in [Opens -> Seq(Chunks)] /\ recv' \in {None} \cup {"drain", "stop"} \X Opens \cup {"close"} \X Ids
    <3>1. CASE UNCHANGED <<got, recv>>
      BY <3>1 DEF TypeOK
    <3>2. CASE /\ streams[o[2]] # None /\ recv' = <<"drain", streams[o[2]]>>
               /\ got' = Written(streams[o[2]], <<<<o, sent[o] + 1>>>>)
      <4>1. streams[o[2]] \in Opens
        BY <3>2 DEF TypeOK
      <4> QED  BY <2>2, <3>2, <4>1, WrittenType
    <3> QED  BY <1>10, <3>1, <3>2 DEF HandleData
  <2> QED  BY <1>10, <2>2, <2>3, <2>4 DEF HandleData, TypeOK
<1>11. ASSUME NEW o \in Opens, HandleClose(o) PROVE TypeOK'
  <2>1. o[2] \in Ids /\ client' \in [Opens -> {"idle", "asked", "up", "ended"}]
    BY <1>11 DEF TypeOK, HandleClose
  <2>2. aborted' \subseteq opening
    <3>1. aborted \subseteq opening
      BY DEF TypeOK
    <3> QED  BY <1>11, <3>1 DEF HandleClose
  <2>3. recv' \in {None} \cup {"drain", "stop"} \X Opens \cup {"close"} \X Ids
    BY <1>11, <2>1 DEF TypeOK, HandleClose
  <2> QED  BY <1>11, <2>1, <2>2, <2>3 DEF TypeOK, HandleClose
<1>12. ASSUME NEW o \in Opens, DataDrained(o) PROVE TypeOK'
  BY <1>12, PoppedType DEF TypeOK, DataDrained
<1>13. ASSUME NEW o \in Opens, CloseEnds(o) PROVE TypeOK'
  BY <1>13 DEF TypeOK, CloseEnds
<1>14. ASSUME NEW i \in Ids, CloseStream(i) PROVE TypeOK'
  <2>1. CASE streams[i] = None
    BY <1>14, <2>1 DEF CloseStream, TypeOK
  <2>2. CASE streams[i] # None
    <3>1. streams[i] \in Opens
      BY <2>2 DEF TypeOK
    <3>2. conn' \in [Opens -> {"none", "started", "reading", "cancelled", "closed"}]
      BY <1>14, <2>2, <3>1, StoppingType DEF CloseStream
    <3>3. recv' = <<"stop", streams[i]>>
      BY <1>14, <2>2 DEF CloseStream
    <3> QED  BY <1>14, <3>1, <3>2, <3>3 DEF CloseStream, TypeOK
  <2> QED  BY <2>1, <2>2
<1>15. CASE ClientDisconnects
  <2>1. session' = session + 1 /\ session < MaxSession /\ closing' = {streams[i] : i \in Ids} \ {None}
        /\ UNCHANGED <<client, sent, streams, openVars, taskVars, connVars, recv, closer>>
    BY <1>15 DEF ClientDisconnects, NextSession
  <2>2. session' \in 1 .. MaxSession
    BY <2>1, StreamsAssumption DEF TypeOK
  <2>3. closing' \in SUBSET Opens
    BY <2>1 DEF TypeOK
  <2> QED  BY <2>1, <2>2, <2>3 DEF TypeOK
<1>16. CASE Reconnects
  <2>1. session' = session + 1 /\ session < MaxSession
        /\ UNCHANGED <<client, sent, streams, openVars, taskVars, connVars, recv, closeVars>>
    BY <1>16 DEF Reconnects, NextSession
  <2>2. session' \in 1 .. MaxSession
    BY <2>1, StreamsAssumption DEF TypeOK
  <2> QED  BY <2>1, <2>2 DEF TypeOK
<1>17. ASSUME NEW o \in Opens, CloseAllStops(o) PROVE TypeOK'
  <2>1. conn' \in [Opens -> {"none", "started", "reading", "cancelled", "closed"}]
    BY <1>17, StoppingType DEF CloseAllStops
  <2> QED  BY <1>17, <2>1 DEF CloseAllStops, TypeOK
<1>18. ASSUME NEW o \in Opens, CloseAllStopped(o) PROVE TypeOK'
  BY <1>18 DEF CloseAllStopped, TypeOK
<1>19. CASE CloseAllEnds
  BY <1>19 DEF CloseAllEnds, TypeOK
<1>20. CASE UNCHANGED vars
  BY <1>20 DEF vars, TypeOK
<1> QED
  BY <1>1, <1>2, <1>3, <1>4, <1>5, <1>6, <1>7, <1>8, <1>9, <1>10, <1>11, <1>12, <1>13, <1>14,
     <1>15, <1>16, <1>17, <1>18, <1>19, <1>20
     DEF Next, OpenTask, RecvLoop, CloseAll, ClientSends

LEMMA TypeInit == Init => TypeOK
<1>1. <<>> \in Seq(Chunks) /\ <<>> \in Seq(Words) /\ Len(<<>>) = 0
  BY EmptySeq
<1> QED  BY <1>1, OpensFacts, StreamsAssumption DEF Init, TypeOK, Words

\* The handler's tables, the tasks, the sockets and the frames held for a stream that
\* is opening keep their types and bounds (exitnode/socks.py:95-120), whichever
\* coroutine is suspended and however one session follows another.
THEOREM ExitStreamTypes == Spec => []TypeOK
BY TypeInit, TypeStep, PTL DEF Spec

(***************************************************************************)
(* The inductive invariant                                                 *)
(***************************************************************************)

\* The socket is open, or its read loop has yet to find that it was cancelled.
Live(o) == conn[o] \in {"started", "reading", "cancelled"}

\* The stream has its entry in _opening.
IsOpening(o) == task[o] \in {"connecting", "waiting"}

\* The tables know an id, and only the stream of this session is meant by it.
TableInv ==
    /\ \A o \in Opens : IsOpening(o) <=> o[1] = session /\ o[2] \in opening
    /\ \A i \in opening : <<session, i>> \in Opens
    /\ \A i \in aborted : client[<<session, i>>] = "ended"
    /\ \A i \in Ids : held[i] # <<>> => <<session, i>> \in Eager
    /\ \A i \in Ids : streams[i] # None /\ closing = None => streams[i] = <<session, i>>

\* What a stream has been through says what its client thinks of it.
StreamInv(o) ==
    /\ client[o] = "idle" <=> task[o] = "none"
    /\ o[1] > session => task[o] = "none"
    /\ o[1] < session => task[o] \in {"none", "done"}
    /\ task[o] = "none" \/ IsOpening(o) =>
        /\ conn[o] = "none" /\ told[o] = <<>> /\ got[o] = <<>>
        /\ o \notin Eager => sent[o] = 0
    /\ left[o] # <<>> => o \in Eager
    /\ o[1] = session /\ client[o] = "asked" => IsOpening(o)
    /\ o[1] = session /\ client[o] = "up" => conn[o] \in {"started", "reading", "closed"}
    /\ o[1] = session /\ o \in doomed => client[o] = "ended"
    /\ o \in doomed => task[o] \notin {"none", "connecting", "waiting"}

\* Who awaits the end of a read loop, and which sessions still have one.
StopInv ==
    /\ \A o \in Opens : Live(o) =>
        IF closing = None THEN o[1] = session ELSE o[1] < session /\ (o \in closing \/ o = closer)
    /\ \A o, p \in Opens : Live(o) /\ Live(p) /\ o[2] = p[2] => o = p
    /\ \A o \in Opens : conn[o] = "cancelled" /\ closing = None
                        => recv = <<"stop", o>> \/ task[o] = "stopping"
    /\ \A o \in Opens : recv \in {"drain", "stop"} \X {o} => o[1] = session
    /\ \A i \in Ids : recv = <<"close", i>> =>
        <<session, i>> \in Opens /\ client[<<session, i>>] = "ended"
    /\ closing # None =>
        /\ recv = None
        /\ \A o \in Opens : /\ task[o] \in {"none", "connecting", "waiting", "done"}
                            /\ o[1] = session => client[o] # "up"

\* The frames for one stream, as far as they have been sent.
ToldOrder(log) ==
    \A n \in DOMAIN log :
        /\ n = 1 <=> log[n] \in {"ok", "fail"}
        /\ log[n] \in {"fail", "close"} => n = Len(log)

ToldInv(o) ==
    /\ ToldOrder(told[o])
    /\ Live(o) => told[o] # <<>> /\ told[o][Len(told[o])] \notin {"fail", "close"}
    /\ conn[o] = "closed" /\ client[o] = "up" /\ o[1] = session
        => told[o][Len(told[o])] = "close"

StreamsInv ==
    /\ TableInv /\ StopInv /\ NoLeak
    /\ \A o \in Opens : StreamInv(o) /\ ToldInv(o)
    /\ \A o \in Opens \ Eager : Delivered(o)

\* What the three promises say beyond the invariant is nothing.
LEMMA PromisesFromInv == StreamsInv => InOrder /\ NoLeak
BY DEF StreamsInv, InOrder, ToldInOrder, ToldInv, ToldOrder

(***************************************************************************)
(* What leaves the parts of the invariant alone                            *)
(***************************************************************************)

LEMMA StreamKept ==
    ASSUME NEW o, StreamInv(o), session' = session, client'[o] = client[o],
           sent'[o] = sent[o], task'[o] = task[o], left'[o] = left[o],
           o \in doomed' <=> o \in doomed,
           conn'[o] = conn[o], got'[o] = got[o], told'[o] = told[o]
    PROVE  StreamInv(o)'
BY DEF StreamInv, IsOpening

LEMMA ToldKept ==
    ASSUME NEW o, ToldInv(o), session' = session, client'[o] = client[o],
           conn'[o] = conn[o], told'[o] = told[o]
    PROVE  ToldInv(o)'
BY DEF ToldInv, Live

LEMMA DeliveredKept ==
    ASSUME NEW o, Delivered(o), sent'[o] = sent[o], left'[o] = left[o], got'[o] = got[o],
           conn'[o] \in {"started", "reading"} => conn[o] \in {"started", "reading"}
    PROVE  Delivered(o)'
BY DEF Delivered

\* Nothing but the answers, the frames and the ends of streams disturbs the tables.
LEMMA TableKept ==
    ASSUME TypeOK, TableInv, session' = session, opening' = opening, aborted' = aborted, held' = held,
           \A o \in Opens : IsOpening(o)' <=> IsOpening(o),
           \A o \in Opens : client[o] = "ended" => client'[o] = "ended",
           \A i \in Ids : streams'[i] # None /\ closing' = None
                          => streams[i] # None /\ closing = None /\ streams'[i] = streams[i]
    PROVE  TableInv'
BY DEF TypeOK, TableInv

LEMMA StopKept ==
    ASSUME StopInv, session' = session, recv' = recv, closing' = closing, closer' = closer,
           \A o \in Opens : Live(o)' => Live(o),
           \A o \in Opens : conn'[o] = "cancelled" => conn[o] = "cancelled",
           \A o \in Opens : task[o] = "stopping" /\ conn'[o] = "cancelled" => task'[o] = "stopping",
           \A i \in Ids : <<session, i>> \in Opens /\ client[<<session, i>>] = "ended"
                          => client'[<<session, i>>] = "ended",
           closing # None => \A o \in Opens :
               /\ task'[o] \in {"none", "connecting", "waiting", "done"}
               /\ o[1] = session => client'[o] # "up"
    PROVE  StopInv'
BY DEF StopInv

\* A word added to a stream's frames: the answer first, nothing after the end.
LEMMA ToldAppend ==
    ASSUME NEW s \in Seq(Words), NEW m \in Words, ToldOrder(s),
           \/ s = <<>> /\ m \in {"ok", "fail"}
           \/ s # <<>> /\ s[Len(s)] \notin {"fail", "close"} /\ m \in {"data", "close"}
    PROVE  /\ ToldOrder(Append(s, m)) /\ Append(s, m) # <<>>
           /\ Append(s, m)[Len(Append(s, m))] = m
<1>1. /\ Len(s) \in Nat /\ DOMAIN s = 1 .. Len(s) /\ Len(Append(s, m)) = Len(s) + 1
      /\ DOMAIN Append(s, m) = 1 .. Len(s) + 1 /\ Append(s, m)[Len(s) + 1] = m
      /\ \A i \in 1 .. Len(s) : Append(s, m)[i] = s[i]
  BY AppendProperties
<1>2. s # <<>> => Len(s) > 0
  BY EmptySeq
<1>3. s = <<>> => Len(s) = 0
  BY EmptySeq
<1>4. Append(s, m) # <<>>
  BY AppendProperties
<1>5. ASSUME NEW n \in 1 .. Len(s) + 1
      PROVE  /\ n = 1 <=> Append(s, m)[n] \in {"ok", "fail"}
             /\ Append(s, m)[n] \in {"fail", "close"} => n = Len(s) + 1
  <2>1. CASE n = Len(s) + 1
    BY <1>1, <1>2, <1>3, <2>1
  <2>2. CASE n \in 1 .. Len(s)
    <3>1. Append(s, m)[n] = s[n] /\ n \in DOMAIN s /\ s # <<>>
      BY <1>1, <1>3, <2>2
    <3>2. /\ n = 1 <=> s[n] \in {"ok", "fail"}
          /\ s[n] \in {"fail", "close"} => n = Len(s)
      BY <3>1 DEF ToldOrder
    <3> QED  BY <3>1, <3>2
  <2> QED  BY <1>1, <2>1, <2>2
<1> QED  BY <1>1, <1>4, <1>5 DEF ToldOrder

\* A step of one stream in a session that goes on leaves the other streams alone.
OnlyStream(o) ==
    /\ session' = session
    /\ \A p \in Opens : p # o =>
        /\ client'[p] = client[p] /\ sent'[p] = sent[p] /\ task'[p] = task[p]
        /\ left'[p] = left[p] /\ (p \in doomed' <=> p \in doomed)
        /\ conn'[p] = conn[p] /\ got'[p] = got[p] /\ told'[p] = told[p]

\* It is then enough to look at that stream, at the tables and at the loops.
LEMMA OneStreamKeeps ==
    ASSUME TypeOK, StreamsInv, NEW o \in Opens, OnlyStream(o),
           TableInv', StopInv', NoLeak', StreamInv(o)', ToldInv(o)',
           o \notin Eager => Delivered(o)'
    PROVE  StreamsInv'
<1>1. ASSUME NEW p \in Opens, p # o
      PROVE  StreamInv(p)' /\ ToldInv(p)' /\ (p \notin Eager => Delivered(p)')
  <2>1. StreamInv(p) /\ ToldInv(p) /\ (p \notin Eager => Delivered(p))
    BY DEF StreamsInv
  <2>2. StreamInv(p)'
    BY <1>1, <2>1, StreamKept DEF OnlyStream
  <2>3. ToldInv(p)'
    BY <1>1, <2>1, ToldKept DEF OnlyStream
  <2>4. p \notin Eager => Delivered(p)'
    BY <1>1, <2>1, DeliveredKept DEF OnlyStream
  <2> QED  BY <2>2, <2>3, <2>4
<1> QED  BY <1>1 DEF StreamsInv

LEMMA TellKeeps ==
    ASSUME TypeOK, NEW o \in Opens, NEW what \in Words, Tell(o, what), ToldOrder(told[o]),
           \/ told[o] = <<>> /\ what \in {"ok", "fail"}
           \/ /\ told[o] # <<>> /\ told[o][Len(told[o])] \notin {"fail", "close"}
              /\ what \in {"data", "close"}
    PROVE  /\ ToldOrder(told'[o]) /\ told'[o] # <<>> /\ told'[o][Len(told'[o])] = what
           /\ \A p \in Opens : p # o => told'[p] = told[p]
<1>1. told[o] \in Seq(Words) /\ told'[o] = Append(told[o], what)
      /\ \A p \in Opens : p # o => told'[p] = told[p]
  BY DEF TypeOK, Tell, Words
<1>2. ToldOrder(Append(told[o], what)) /\ Append(told[o], what) # <<>>
      /\ Append(told[o], what)[Len(Append(told[o], what))] = what
  BY <1>1, ToldAppend
<1> QED  BY <1>1, <1>2

(***************************************************************************)
(* The read loops                                                          *)
(***************************************************************************)

LEMMA ReadDataKeeps ==
    ASSUME TypeOK, StreamsInv, NEW o \in Opens, ReadData(o)
    PROVE  StreamsInv'
<1>1. /\ conn[o] \in {"started", "reading"} /\ Tell(o, "data")
      /\ UNCHANGED <<clientVars, streams, openVars, taskVars, got, recv, closeVars>>
  BY DEF ReadData
<1>2. conn'[o] = "reading" /\ \A p \in Opens : p # o => conn'[p] = conn[p]
  BY DEF ReadData, TypeOK
<1>3. TableInv /\ StopInv /\ NoLeak /\ StreamInv(o) /\ ToldInv(o) /\ (o \notin Eager => Delivered(o))
  BY DEF StreamsInv
<1>4. /\ ToldOrder(told'[o]) /\ told'[o] # <<>> /\ told'[o][Len(told'[o])] = "data"
      /\ \A p \in Opens : p # o => told'[p] = told[p]
  BY <1>1, <1>3, TellKeeps DEF ToldInv, Live, Words
<1>5. OnlyStream(o)
  BY <1>1, <1>2, <1>4 DEF OnlyStream
<1>6. TableInv'
  BY <1>1, <1>3, TableKept DEF IsOpening
<1>7. \A p \in Opens : Live(p)' <=> Live(p)
  BY <1>1, <1>2 DEF Live
<1>8. StopInv'
  BY <1>1, <1>2, <1>3, <1>7 DEF StopInv
<1>9. NoLeak'
  BY <1>1, <1>2, <1>3 DEF NoLeak
<1>10. StreamInv(o)'
  BY <1>1, <1>2, <1>3 DEF StreamInv, IsOpening
<1>11. ToldInv(o)'
  BY <1>1, <1>2, <1>4 DEF ToldInv
<1>12. o \notin Eager => Delivered(o)'
  BY <1>1, <1>2, <1>3, DeliveredKept
<1> QED  BY <1>5, <1>6, <1>8, <1>9, <1>10, <1>11, <1>12, OneStreamKeeps

\* No other stream with that id can be live, so the id that is popped names no one else.
LEMMA ReadLoopEndsKeeps ==
    ASSUME TypeOK, StreamsInv, NEW o \in Opens, ReadLoopEnds(o)
    PROVE  StreamsInv'
<1>1. /\ Live(o) /\ Tell(o, "close")
      /\ UNCHANGED <<clientVars, openVars, taskVars, got, recv, closeVars>>
  BY DEF ReadLoopEnds, Live
<1>2. conn'[o] = "closed" /\ \A p \in Opens : p # o => conn'[p] = conn[p]
  BY DEF ReadLoopEnds, TypeOK
<1>3. TableInv /\ StopInv /\ NoLeak /\ StreamInv(o) /\ ToldInv(o) /\ (o \notin Eager => Delivered(o))
  BY DEF StreamsInv
<1>4. /\ ToldOrder(told'[o]) /\ told'[o] # <<>> /\ told'[o][Len(told'[o])] = "close"
      /\ \A p \in Opens : p # o => told'[p] = told[p]
  BY <1>1, <1>3, TellKeeps DEF ToldInv, Words
<1>5. OnlyStream(o)
  BY <1>1, <1>2, <1>4 DEF OnlyStream
<1>6. /\ streams' = [streams EXCEPT ![o[2]] = None] /\ o[2] \in Ids
      /\ \A i \in Ids : streams'[i] = IF i = o[2] THEN None ELSE streams[i]
  BY OpensFacts DEF ReadLoopEnds, TypeOK
<1>7. TableInv'
  BY <1>1, <1>3, <1>6, TableKept DEF IsOpening
<1>8. \A p \in Opens : Live(p)' => Live(p) /\ p # o
  BY <1>1, <1>2 DEF Live
<1>9. StopInv'
  BY <1>1, <1>2, <1>3, <1>8, StopKept DEF StopInv
<1>10. NoLeak'
  <2> SUFFICES ASSUME NEW p \in Opens, conn'[p] \in {"started", "reading"} PROVE streams'[p[2]] = p
    BY DEF NoLeak
  <2>1. p # o /\ Live(p) /\ conn[p] \in {"started", "reading"}
    BY <1>2 DEF Live
  <2>2. p[2] # o[2] /\ p[2] \in Ids
    BY <1>1, <1>3, <2>1, OpensFacts DEF StopInv
  <2> QED  BY <1>3, <1>6, <2>1, <2>2 DEF NoLeak
<1>11. StreamInv(o)'
  BY <1>1, <1>2, <1>3 DEF StreamInv, IsOpening, Live
<1>12. ToldInv(o)'
  BY <1>1, <1>2, <1>4 DEF ToldInv, Live
<1>13. o \notin Eager => Delivered(o)'
  BY <1>1, <1>2, <1>3 DEF Delivered
<1> QED  BY <1>5, <1>7, <1>9, <1>10, <1>11, <1>12, <1>13, OneStreamKeeps

(***************************************************************************)
(* The open tasks                                                          *)
(***************************************************************************)

\* A task that still opens its stream belongs to this session, and the answer is for
\* the client that asked.
LEMMA OpeningFacts ==
    ASSUME TypeOK, StreamsInv, NEW o \in Opens, IsOpening(o)
    PROVE  /\ o[1] = session /\ o[2] \in opening /\ o[2] \in Ids /\ <<session, o[2]>> = o
           /\ conn[o] = "none" /\ told[o] = <<>> /\ got[o] = <<>> /\ left[o] \in Seq(Chunks)
           /\ client[o] \in {"asked", "up", "ended"} /\ o \notin doomed
           /\ (o \notin Eager => sent[o] = 0 /\ left[o] = <<>> /\ held[o[2]] = <<>>)
<1>1. o[1] = session /\ o[2] \in opening
  BY DEF StreamsInv, TableInv
<1>2. o[2] \in Ids /\ <<session, o[2]>> = o
  BY <1>1, OpensFacts
<1>3. conn[o] = "none" /\ told[o] = <<>> /\ got[o] = <<>> /\ o \notin doomed /\ client[o] # "idle"
  BY DEF StreamsInv, StreamInv, IsOpening
<1>4. o \notin Eager => sent[o] = 0 /\ left[o] = <<>>
  BY DEF StreamsInv, StreamInv
<1>5. o \notin Eager => held[o[2]] = <<>>
  BY <1>2 DEF StreamsInv, TableInv
<1> QED  BY <1>1, <1>2, <1>3, <1>4, <1>5 DEF TypeOK

\* The answer to the client of this session.
LEMMA AnswerFacts ==
    ASSUME TypeOK, StreamsInv, NEW o \in Opens, IsOpening(o), NEW reply \in {"ok", "fail"},
           Answer(o, reply)
    PROVE  /\ client' = IF client[o] = "asked"
                        THEN [client EXCEPT ![o] = IF reply = "ok" THEN "up" ELSE "ended"]
                        ELSE client
           /\ ToldOrder(told'[o]) /\ told'[o] # <<>> /\ told'[o][Len(told'[o])] = reply
           /\ \A p \in Opens : p # o => told'[p] = told[p]
           /\ session' = session /\ sent' = sent
<1>1. <<session, o[2]>> = o /\ told[o] = <<>>
  BY OpeningFacts
<1>2. ToldOrder(told[o])
  BY DEF StreamsInv, ToldInv
<1> QED  BY <1>1, <1>2, TellKeeps DEF Answer, Words

\* An entry of _opening is taken away; no other id is touched.
LEMMA DiscardFacts ==
    ASSUME TypeOK, NEW i \in Ids, Discard(i)
    PROVE  /\ \A j \in Ids : j \in opening' <=> j \in opening /\ j # i
           /\ \A j \in Ids : j \in aborted' <=> j \in aborted /\ j # i
           /\ \A j \in Ids : held'[j] = IF j = i THEN <<>> ELSE held[j]
           /\ opening' \subseteq Ids /\ aborted' \subseteq Ids
BY DEF Discard, TypeOK

LEMMA ConnectFailsKeeps ==
    ASSUME TypeOK, StreamsInv, NEW o \in Opens, ConnectFails(o)
    PROVE  StreamsInv'
<1>1. /\ task[o] = "connecting" /\ Discard(o[2]) /\ Answer(o, "fail")
      /\ UNCHANGED <<streams, left, doomed, conn, got, recv, closeVars>>
  BY DEF ConnectFails
<1>2. task'[o] = "done" /\ \A p \in Opens : p # o => task'[p] = task[p]
  BY DEF ConnectFails, TypeOK
<1>3. TableInv /\ StopInv /\ NoLeak /\ StreamInv(o) /\ ToldInv(o) /\ (o \notin Eager => Delivered(o))
  BY DEF StreamsInv
<1>4. IsOpening(o)
  BY <1>1 DEF IsOpening
<1>5. /\ o[1] = session /\ o[2] \in opening /\ o[2] \in Ids /\ <<session, o[2]>> = o
      /\ conn[o] = "none" /\ got[o] = <<>> /\ client[o] \in {"asked", "up", "ended"} /\ o \notin doomed
      /\ (o \notin Eager => sent[o] = 0 /\ left[o] = <<>>)
  BY <1>4, OpeningFacts
<1>6. /\ client' = IF client[o] = "asked" THEN [client EXCEPT ![o] = "ended"] ELSE client
      /\ ToldOrder(told'[o]) /\ told'[o] # <<>> /\ told'[o][Len(told'[o])] = "fail"
      /\ \A p \in Opens : p # o => told'[p] = told[p]
      /\ session' = session /\ sent' = sent
  BY <1>1, <1>4, AnswerFacts
<1>7. /\ client'[o] = IF client[o] = "asked" THEN "ended" ELSE client[o]
      /\ \A p \in Opens : p # o => client'[p] = client[p]
  BY <1>6 DEF TypeOK
<1>8. OnlyStream(o)
  BY <1>1, <1>2, <1>6, <1>7 DEF OnlyStream
<1>9. /\ \A j \in Ids : j \in opening' <=> j \in opening /\ j # o[2]
      /\ \A j \in Ids : j \in aborted' <=> j \in aborted /\ j # o[2]
      /\ \A j \in Ids : held'[j] = IF j = o[2] THEN <<>> ELSE held[j]
      /\ opening' \subseteq Ids /\ aborted' \subseteq Ids
  BY <1>1, <1>5, DiscardFacts
<1>10. TableInv'
  <2>1. \A p \in Opens : IsOpening(p)' <=> p[1] = session /\ p[2] \in opening'
    BY <1>2, <1>3, <1>5, <1>9, OpensFacts DEF TableInv, IsOpening
  <2>2. \A i \in opening' : <<session, i>> \in Opens
    BY <1>3, <1>9 DEF TableInv
  <2>3. ASSUME NEW i \in aborted' PROVE client'[<<session, i>>] = "ended"
    <3>1. i \in aborted /\ i # o[2] /\ i \in opening
      BY <1>9 DEF TypeOK
    <3>2. <<session, i>> \in Opens /\ client[<<session, i>>] = "ended"
      BY <1>3, <3>1 DEF TableInv
    <3>3. <<session, i>> # o
      BY <1>5, <3>1
    <3> QED  BY <1>7, <3>2, <3>3
  <2>4. \A i \in Ids : held'[i] # <<>> => <<session, i>> \in Eager
    BY <1>3, <1>9 DEF TableInv
  <2> QED  BY <1>1, <1>3, <1>6, <2>1, <2>2, <2>3, <2>4 DEF TableInv
<1>11. StopInv'
  BY <1>1, <1>2, <1>3, <1>6, <1>7, StopKept DEF StopInv, Live
<1>12. NoLeak'
  BY <1>1, <1>3 DEF NoLeak
<1>13. StreamInv(o)'
  BY <1>1, <1>2, <1>3, <1>5, <1>6, <1>7 DEF StreamInv, IsOpening
<1>14. ToldInv(o)'
  BY <1>1, <1>5, <1>6 DEF ToldInv, Live
<1>15. o \notin Eager => Delivered(o)'
  BY <1>1, <1>3, <1>6, DeliveredKept
<1> QED  BY <1>8, <1>10, <1>11, <1>12, <1>13, <1>14, <1>15, OneStreamKeeps

LEMMA ConnectedWaitsKeeps ==
    ASSUME TypeOK, StreamsInv, NEW o \in Opens, ConnectedWaits(o)
    PROVE  StreamsInv'
<1>1. /\ task[o] = "connecting"
      /\ UNCHANGED <<clientVars, streams, openVars, left, doomed, connVars, recv, closeVars>>
  BY DEF ConnectedWaits
<1>2. task'[o] = "waiting" /\ \A p \in Opens : p # o => task'[p] = task[p]
  BY DEF ConnectedWaits, TypeOK
<1>3. TableInv /\ StopInv /\ NoLeak /\ StreamInv(o) /\ ToldInv(o) /\ (o \notin Eager => Delivered(o))
  BY DEF StreamsInv
<1>4. OnlyStream(o)
  BY <1>1, <1>2 DEF OnlyStream
<1>5. TableInv'
  BY <1>1, <1>2, <1>3, TableKept DEF IsOpening
<1>6. StopInv'
  BY <1>1, <1>2, <1>3, StopKept DEF StopInv, Live
<1>7. NoLeak' /\ ToldInv(o)' /\ (o \notin Eager => Delivered(o)')
  BY <1>1, <1>3 DEF NoLeak, ToldInv, Live, Delivered
<1>8. StreamInv(o)'
  BY <1>1, <1>2, <1>3 DEF StreamInv, IsOpening, TableInv
<1> QED  BY <1>4, <1>5, <1>6, <1>7, <1>8, OneStreamKeeps

\* No other stream of this session has that id, and those of the last one are closed
\* before close_all gives the lock back.
LEMMA InsertKeeps ==
    ASSUME TypeOK, StreamsInv, NEW o \in Opens, Insert(o)
    PROVE  StreamsInv'
<1>1. /\ task[o] \in {"connecting", "waiting"} /\ closing = None
      /\ Answer(o, "ok") /\ Discard(o[2])
      /\ doomed' = IF o[2] \in aborted THEN doomed \cup {o} ELSE doomed
      /\ UNCHANGED <<recv, closeVars>>
  BY DEF Insert
<1>2. /\ task'[o] = "flushing" /\ conn'[o] = "started"
      /\ \A p \in Opens : p # o => task'[p] = task[p] /\ conn'[p] = conn[p]
  BY DEF Insert, TypeOK
<1>3. TableInv /\ StopInv /\ NoLeak /\ StreamInv(o) /\ ToldInv(o) /\ (o \notin Eager => Delivered(o))
  BY DEF StreamsInv
<1>4. IsOpening(o)
  BY <1>1 DEF IsOpening
<1>5. /\ o[1] = session /\ o[2] \in opening /\ o[2] \in Ids /\ <<session, o[2]>> = o
      /\ conn[o] = "none" /\ got[o] = <<>> /\ client[o] \in {"asked", "up", "ended"} /\ o \notin doomed
      /\ (o \notin Eager => sent[o] = 0 /\ left[o] = <<>> /\ held[o[2]] = <<>>)
  BY <1>4, OpeningFacts
<1>6. /\ client' = IF client[o] = "asked" THEN [client EXCEPT ![o] = "up"] ELSE client
      /\ ToldOrder(told'[o]) /\ told'[o] # <<>> /\ told'[o][Len(told'[o])] = "ok"
      /\ \A p \in Opens : p # o => told'[p] = told[p]
      /\ session' = session /\ sent' = sent
  BY <1>1, <1>4, AnswerFacts
<1>7. /\ client'[o] = IF client[o] = "asked" THEN "up" ELSE client[o]
      /\ \A p \in Opens : p # o => client'[p] = client[p]
  BY <1>6 DEF TypeOK
<1>8. /\ \A p \in Opens : p # o => got'[p] = got[p] /\ left'[p] = left[p]
      /\ held[o[2]] = <<>> => got' = got /\ left' = left
  BY DEF Insert, TypeOK
<1>9. OnlyStream(o)
  BY <1>1, <1>2, <1>6, <1>7, <1>8 DEF OnlyStream
<1>10. /\ \A j \in Ids : j \in opening' <=> j \in opening /\ j # o[2]
       /\ \A j \in Ids : j \in aborted' <=> j \in aborted /\ j # o[2]
       /\ \A j \in Ids : held'[j] = IF j = o[2] THEN <<>> ELSE held[j]
       /\ opening' \subseteq Ids /\ aborted' \subseteq Ids
  BY <1>1, <1>5, DiscardFacts
<1>11. streams'[o[2]] = o /\ \A i \in Ids : i # o[2] => streams'[i] = streams[i]
  BY <1>5 DEF Insert, TypeOK
<1>12. TableInv'
  <2>1. \A p \in Opens : IsOpening(p)' <=> p[1] = session /\ p[2] \in opening'
    BY <1>2, <1>3, <1>5, <1>10, OpensFacts DEF TableInv, IsOpening
  <2>2. \A i \in opening' : <<session, i>> \in Opens
    BY <1>3, <1>10 DEF TableInv
  <2>3. ASSUME NEW i \in aborted' PROVE client'[<<session, i>>] = "ended"
    <3>1. i \in aborted /\ i # o[2] /\ i \in opening
      BY <1>10 DEF TypeOK
    <3>2. <<session, i>> \in Opens /\ client[<<session, i>>] = "ended"
      BY <1>3, <3>1 DEF TableInv
    <3>3. <<session, i>> # o
      BY <1>5, <3>1
    <3> QED  BY <1>7, <3>2, <3>3
  <2>4. \A i \in Ids : held'[i] # <<>> => <<session, i>> \in Eager
    BY <1>3, <1>10 DEF TableInv
  <2>5. \A i \in Ids : streams'[i] # None /\ closing = None => streams'[i] = <<session, i>>
    BY <1>3, <1>5, <1>11 DEF TableInv
  <2> QED  BY <1>1, <1>6, <2>1, <2>2, <2>3, <2>4, <2>5 DEF TableInv
<1>13. \A p \in Opens : Live(p)' => p = o \/ (Live(p) /\ p[1] = session /\ p[2] # o[2])
  BY <1>1, <1>2, <1>3, <1>5, OpensFacts DEF Live, StopInv
<1>14. StopInv'
  <2>1. \A p, q \in Opens : Live(p)' /\ Live(q)' /\ p[2] = q[2] => p = q
    BY <1>3, <1>13 DEF StopInv
  <2>2. \A p \in Opens : Live(p)' => p[1] = session
    BY <1>5, <1>13
  <2>3. \A p \in Opens : conn'[p] = "cancelled" => recv = <<"stop", p>> \/ task'[p] = "stopping"
    BY <1>1, <1>2, <1>3 DEF StopInv
  <2>4. \A i \in Ids : recv = <<"close", i>> =>
            <<session, i>> \in Opens /\ client'[<<session, i>>] = "ended"
    BY <1>3, <1>7 DEF StopInv
  <2> QED  BY <1>1, <1>3, <1>6, <2>1, <2>2, <2>3, <2>4 DEF StopInv
<1>15. NoLeak'
  <2> SUFFICES ASSUME NEW p \in Opens, p # o, conn'[p] \in {"started", "reading"}
               PROVE  streams'[p[2]] = p
    BY <1>11 DEF NoLeak
  <2>1. Live(p)' /\ conn[p] \in {"started", "reading"}
    BY <1>2 DEF Live
  <2> QED  BY <1>3, <1>11, <1>13, <2>1, OpensFacts DEF NoLeak
<1>16. StreamInv(o)'
  <2>1. left'[o] # <<>> => o \in Eager
    BY <1>5, <1>8
  <2>2. o \in doomed' => client'[o] = "ended"
    BY <1>1, <1>3, <1>5, <1>7 DEF TableInv
  <2> QED  BY <1>2, <1>3, <1>5, <1>6, <1>7, <2>1, <2>2 DEF StreamInv, IsOpening
<1>17. ToldInv(o)'
  BY <1>2, <1>6 DEF ToldInv, Live
<1>18. ASSUME o \notin Eager PROVE Delivered(o)'
  <2>1. got'[o] = <<>> /\ sent'[o] = 0
    BY <1>5, <1>6, <1>8, <1>18
  <2>2. Len(<<>>) = 0
    BY EmptySeq
  <2> QED  BY <2>1, <2>2 DEF Delivered
<1> QED  BY <1>9, <1>12, <1>14, <1>15, <1>16, <1>17, <1>18, OneStreamKeeps

\* A stream whose open task still runs belongs to this session, which no close_all
\* is still clearing.
LEMMA TaskFacts ==
    ASSUME TypeOK, StreamsInv, NEW o \in Opens, task[o] \in {"flushing", "stopping"}
    PROVE  o[1] = session /\ closing = None /\ o[2] \in Ids
<1>1. o[1] \in Nat /\ session \in Nat /\ o[2] \in Ids
  BY OpensFacts, StreamsAssumption DEF TypeOK
<1>2. ~(o[1] > session) /\ ~(o[1] < session)
  BY DEF StreamsInv, StreamInv
<1>3. closing = None
  BY DEF StreamsInv, StopInv
<1> QED  BY <1>1, <1>2, <1>3

\* What PoppedIfLost takes from the table is not a stream that is open.
LEMMA PoppedKeeps ==
    ASSUME TypeOK, StreamsInv, NEW o \in Opens, o[1] = session, closing = None,
           streams' \in PoppedIfLost(o)
    PROVE  /\ \A i \in Ids : streams'[i] # None => streams'[i] = streams[i]
           /\ \A p \in Opens : conn[p] \in {"started", "reading"} => streams'[p[2]] = p
<1>1. NoLeak /\ \A p \in Opens : Live(p) => p[1] = session
  BY DEF StreamsInv, StopInv
<1>2. CASE streams' = streams
  BY <1>1, <1>2 DEF NoLeak
<1>3. CASE conn[o] = "closed" /\ streams' = [streams EXCEPT ![o[2]] = None]
  <2>1. \A i \in Ids : streams'[i] = IF i = o[2] THEN None ELSE streams[i]
    BY <1>3, OpensFacts DEF TypeOK
  <2>2. \A p \in Opens : conn[p] \in {"started", "reading"} => p[2] # o[2] /\ p[2] \in Ids
    BY <1>1, <1>3, OpensFacts DEF Live
  <2> QED  BY <1>1, <2>1, <2>2 DEF NoLeak
<1> QED  BY <1>2, <1>3 DEF PoppedIfLost

LEMMA FlushKeeps ==
    ASSUME TypeOK, StreamsInv, NEW o \in Opens, Flush(o)
    PROVE  StreamsInv'
<1>1. /\ task[o] = "flushing" /\ left[o] # <<>> /\ streams' \in PoppedIfLost(o)
      /\ UNCHANGED <<clientVars, openVars, task, doomed, conn, told, recv, closeVars>>
  BY DEF Flush
<1>2. \A p \in Opens : p # o => got'[p] = got[p] /\ left'[p] = left[p]
  BY DEF Flush, Written, TypeOK
<1>3. TableInv /\ StopInv /\ NoLeak /\ StreamInv(o) /\ ToldInv(o)
  BY DEF StreamsInv
<1>4. o \in Eager
  BY <1>1, <1>3 DEF StreamInv
<1>5. OnlyStream(o)
  BY <1>1, <1>2 DEF OnlyStream
<1>6. o[1] = session /\ closing = None
  BY <1>1, TaskFacts
<1>7. /\ \A i \in Ids : streams'[i] # None => streams'[i] = streams[i]
      /\ \A p \in Opens : conn[p] \in {"started", "reading"} => streams'[p[2]] = p
  BY <1>1, <1>6, PoppedKeeps
<1>8. TableInv'
  BY <1>1, <1>3, <1>6, <1>7, TableKept DEF IsOpening
<1>9. StopInv'
  BY <1>1, <1>3, StopKept DEF StopInv, Live
<1>10. NoLeak' /\ ToldInv(o)'
  BY <1>1, <1>3, <1>7 DEF NoLeak, ToldInv, Live
<1>11. StreamInv(o)'
  BY <1>1, <1>3, <1>4 DEF StreamInv, IsOpening
<1> QED  BY <1>4, <1>5, <1>8, <1>9, <1>10, <1>11, OneStreamKeeps

\* A stream that was closed while it was opening is stopped by its own task.
LEMMA FlushEndsKeeps ==
    ASSUME TypeOK, StreamsInv, NEW o \in Opens, FlushEnds(o)
    PROVE  StreamsInv'
<1>1. /\ task[o] = "flushing"
      /\ UNCHANGED <<clientVars, openVars, left, doomed, got, told, recv, closeVars>>
  BY DEF FlushEnds
<1>2. TableInv /\ StopInv /\ NoLeak /\ StreamInv(o) /\ ToldInv(o) /\ (o \notin Eager => Delivered(o))
  BY DEF StreamsInv
<1>3. o[1] = session /\ closing = None /\ o[2] \in Ids
  BY <1>1, TaskFacts
<1>4. CASE o \in doomed
  <2>1. /\ \A i \in Ids : streams'[i] = IF i = o[2] THEN None ELSE streams[i]
        /\ task'[o] = "stopping" /\ \A p \in Opens : p # o => task'[p] = task[p]
    BY <1>3, <1>4 DEF FlushEnds, TypeOK
  <2>2. /\ \A p \in Opens : p # o => conn'[p] = conn[p]
        /\ conn'[o] \notin {"started", "reading"}
        /\ Live(o)' => Live(o)
        /\ conn'[o] = "none" <=> conn[o] = "none"
    <3>1. conn' \in Stopping(o)
      BY <1>4 DEF FlushEnds
    <3> QED  BY <3>1, StoppingEnds DEF Live
  <2>3. OnlyStream(o)
    BY <1>1, <2>1, <2>2 DEF OnlyStream
  <2>4. TableInv'
    BY <1>1, <1>2, <2>1, TableKept DEF IsOpening
  <2>5. \A p \in Opens : Live(p)' => Live(p)
    BY <2>2 DEF Live
  <2>6. StopInv'
    <3>1. \A p \in Opens : conn'[p] = "cancelled" => recv = <<"stop", p>> \/ task'[p] = "stopping"
      BY <1>2, <1>3, <2>1, <2>2 DEF StopInv
    <3> QED  BY <1>1, <1>2, <1>3, <2>5, <3>1 DEF StopInv
  <2>7. NoLeak'
    <3> SUFFICES ASSUME NEW p \in Opens, conn'[p] \in {"started", "reading"}
                 PROVE  streams'[p[2]] = p
      BY DEF NoLeak
    <3>1. p # o /\ conn[p] \in {"started", "reading"} /\ p[1] = session
      BY <1>2, <1>3, <2>2 DEF StopInv, Live
    <3>2. p[2] # o[2] /\ p[2] \in Ids
      BY <1>3, <3>1, OpensFacts
    <3> QED  BY <1>2, <2>1, <3>1, <3>2 DEF NoLeak
  <2>8. client[o] = "ended"
    BY <1>2, <1>3, <1>4 DEF StreamInv
  <2>9. StreamInv(o)'
    BY <1>1, <1>2, <2>1, <2>8 DEF StreamInv, IsOpening
  <2>10. ToldInv(o)'
    BY <1>1, <1>2, <2>2, <2>8 DEF ToldInv
  <2>11. o \notin Eager => Delivered(o)'
    BY <1>1, <1>2, <2>2, DeliveredKept
  <2> QED  BY <2>3, <2>4, <2>6, <2>7, <2>9, <2>10, <2>11, OneStreamKeeps
<1>5. CASE o \notin doomed
  <2>1. /\ task'[o] = "done" /\ \A p \in Opens : p # o => task'[p] = task[p]
        /\ conn' = conn /\ streams' \in PoppedIfLost(o)
    BY <1>5 DEF FlushEnds, TypeOK
  <2>2. OnlyStream(o)
    BY <1>1, <2>1 DEF OnlyStream
  <2>3. /\ \A i \in Ids : streams'[i] # None => streams'[i] = streams[i]
        /\ \A p \in Opens : conn[p] \in {"started", "reading"} => streams'[p[2]] = p
    BY <1>3, <2>1, PoppedKeeps
  <2>4. TableInv'
    BY <1>1, <1>2, <1>3, <2>1, <2>3, TableKept DEF IsOpening
  <2>5. StopInv'
    BY <1>1, <1>2, <1>3, <2>1, StopKept DEF StopInv, Live
  <2>6. NoLeak' /\ ToldInv(o)' /\ (o \notin Eager => Delivered(o)')
    BY <1>1, <1>2, <2>1, <2>3 DEF NoLeak, ToldInv, Live, Delivered
  <2>7. StreamInv(o)'
    BY <1>1, <1>2, <2>1 DEF StreamInv, IsOpening
  <2> QED  BY <2>2, <2>4, <2>5, <2>6, <2>7, OneStreamKeeps
<1> QED  BY <1>4, <1>5

LEMMA AbortEndsKeeps ==
    ASSUME TypeOK, StreamsInv, NEW o \in Opens, AbortEnds(o)
    PROVE  StreamsInv'
<1>1. /\ task[o] = "stopping" /\ conn[o] = "closed"
      /\ UNCHANGED <<clientVars, streams, openVars, left, doomed, connVars, recv, closeVars>>
  BY DEF AbortEnds, Stopped
<1>2. task'[o] = "done" /\ \A p \in Opens : p # o => task'[p] = task[p]
  BY DEF AbortEnds, TypeOK
<1>3. TableInv /\ StopInv /\ NoLeak /\ StreamInv(o) /\ ToldInv(o) /\ (o \notin Eager => Delivered(o))
  BY DEF StreamsInv
<1>4. OnlyStream(o)
  BY <1>1, <1>2 DEF OnlyStream
<1>5. TableInv'
  BY <1>1, <1>2, <1>3, TableKept DEF IsOpening
<1>6. StopInv'
  BY <1>1, <1>2, <1>3, StopKept DEF StopInv, Live
<1>7. NoLeak' /\ ToldInv(o)' /\ (o \notin Eager => Delivered(o)')
  BY <1>1, <1>3 DEF NoLeak, ToldInv, Live, Delivered
<1>8. StreamInv(o)'
  BY <1>1, <1>2, <1>3 DEF StreamInv, IsOpening
<1> QED  BY <1>4, <1>5, <1>6, <1>7, <1>8, OneStreamKeeps

(***************************************************************************)
(* The receive loop                                                        *)
(***************************************************************************)

LEMMA HandleOpenKeeps ==
    ASSUME TypeOK, StreamsInv, NEW o \in Opens, HandleOpen(o)
    PROVE  StreamsInv'
<1>1. /\ o[1] = session /\ client[o] = "idle" /\ opening' = opening \cup {o[2]}
      /\ UNCHANGED <<session, sent, streams, held, aborted, left, doomed, connVars, recv, closeVars>>
  BY DEF HandleOpen, May
<1>2. /\ task'[o] = "connecting" /\ client'[o] = "asked"
      /\ \A p \in Opens : p # o => task'[p] = task[p] /\ client'[p] = client[p]
  BY DEF HandleOpen, TypeOK
<1>3. TableInv /\ StopInv /\ NoLeak /\ StreamInv(o) /\ ToldInv(o) /\ (o \notin Eager => Delivered(o))
  BY DEF StreamsInv
<1>4. OnlyStream(o)
  BY <1>1, <1>2 DEF OnlyStream
<1>5. task[o] = "none" /\ conn[o] = "none" /\ o[2] \in Ids /\ <<session, o[2]>> = o
  BY <1>1, <1>3, OpensFacts DEF StreamInv
<1>6. \A i \in aborted : <<session, i>> \in Opens /\ <<session, i>> # o
  BY <1>1, <1>3 DEF TableInv, TypeOK
<1>7. TableInv'
  <2>1. \A p \in Opens : IsOpening(p)' <=> p[1] = session /\ p[2] \in opening'
    BY <1>1, <1>2, <1>3, OpensFacts DEF TableInv, IsOpening
  <2>2. \A i \in opening' : <<session, i>> \in Opens
    BY <1>1, <1>3, <1>5 DEF TableInv
  <2>3. \A i \in aborted : client'[<<session, i>>] = "ended"
    BY <1>2, <1>3, <1>6 DEF TableInv
  <2> QED  BY <1>1, <1>3, <2>1, <2>2, <2>3 DEF TableInv
<1>8. StopInv'
  <2>1. \A p \in Opens : Live(p)' <=> Live(p)
    BY <1>1 DEF Live
  <2>2. \A p \in Opens : task[p] = "stopping" => task'[p] = "stopping"
    BY <1>2, <1>5
  <2>3. \A i \in Ids : <<session, i>> \in Opens /\ client[<<session, i>>] = "ended"
                          => client'[<<session, i>>] = "ended"
    BY <1>1, <1>2
  <2>4. closing # None => \A p \in Opens :
            /\ task'[p] \in {"none", "connecting", "waiting", "done"}
            /\ p[1] = session => client'[p] # "up"
    BY <1>2, <1>3 DEF StopInv
  <2> QED  BY <1>1, <1>3, <2>1, <2>2, <2>3, <2>4, StopKept
<1>9. NoLeak' /\ (o \notin Eager => Delivered(o)')
  BY <1>1, <1>3 DEF NoLeak, Delivered
<1>10. ToldInv(o)'
  BY <1>1, <1>3, <1>5 DEF ToldInv, Live
<1>11. StreamInv(o)'
  <2>1. session \in Nat
    BY DEF TypeOK
  <2>2. ~(o[1] > session) /\ ~(o[1] < session)
    BY <1>1, <2>1
  <2> QED  BY <1>1, <1>2, <1>3, <1>5, <2>2 DEF StreamInv, IsOpening
<1> QED  BY <1>4, <1>7, <1>8, <1>9, <1>10, <1>11, OneStreamKeeps

\* What a client that may send on a stream has been told about it.
LEMMA MaySendFacts ==
    ASSUME TypeOK, StreamsInv, NEW o \in Opens, MaySend(o)
    PROVE  /\ recv = None /\ o[1] = session /\ o[2] \in Ids /\ <<session, o[2]>> = o
           /\ client[o] = "up" => /\ o[2] \notin opening /\ closing = None
                                  /\ conn[o] \in {"started", "reading", "closed"}
           /\ client[o] # "up" => client[o] = "asked" /\ o \in Eager /\ o[2] \in opening
<1>1. recv = None /\ o[1] = session /\ client[o] \in {"asked", "up"}
      /\ (client[o] = "asked" => o \in Eager)
  BY DEF MaySend, May
<1>2. TableInv /\ StopInv /\ StreamInv(o)
  BY DEF StreamsInv
<1>3. o[2] \in Ids /\ <<session, o[2]>> = o
  BY <1>1, OpensFacts
<1>4. client[o] = "up" => conn[o] \in {"started", "reading", "closed"} /\ ~IsOpening(o)
  BY <1>1, <1>2 DEF StreamInv
<1>5. client[o] = "up" => o[2] \notin opening /\ closing = None
  BY <1>1, <1>2, <1>4 DEF TableInv, StopInv
<1>6. client[o] = "asked" => o[2] \in opening
  BY <1>1, <1>2 DEF TableInv, StreamInv
<1> QED  BY <1>1, <1>3, <1>4, <1>5, <1>6

\* The id leads to the stream itself, or to none: its frame goes nowhere else.
LEMMA HandleDataKeeps ==
    ASSUME TypeOK, StreamsInv, NEW o \in Opens, HandleData(o)
    PROVE  StreamsInv'
<1> DEFINE chunk == <<o, sent[o] + 1>>
<1>1. /\ MaySend(o)
      /\ UNCHANGED <<session, client, streams, opening, aborted, taskVars, conn, told, closeVars>>
  BY DEF HandleData
<1>2. sent'[o] = sent[o] + 1 /\ \A p \in Opens : p # o => sent'[p] = sent[p]
  BY DEF HandleData, TypeOK
<1>3. TableInv /\ StopInv /\ NoLeak /\ StreamInv(o) /\ ToldInv(o) /\ (o \notin Eager => Delivered(o))
  BY DEF StreamsInv
<1>4. /\ recv = None /\ o[1] = session /\ o[2] \in Ids /\ <<session, o[2]>> = o
      /\ client[o] = "up" => /\ o[2] \notin opening /\ closing = None
                             /\ conn[o] \in {"started", "reading", "closed"}
      /\ client[o] # "up" => client[o] = "asked" /\ o \in Eager /\ o[2] \in opening
  BY <1>1, MaySendFacts
<1>5. o[2] \notin opening /\ streams[o[2]] # None => client[o] = "up" /\ closing = None /\ streams[o[2]] = o
  BY <1>3, <1>4 DEF TableInv
<1>6. /\ \A p \in Opens : p # o => got'[p] = got[p]
      /\ recv' = None \/ (recv' = <<"drain", o>> /\ closing = None)
      /\ o[2] \in opening => got' = got
      /\ o[2] \notin opening /\ streams[o[2]] = o => got' = Written(o, <<chunk>>)
  <2>1. o # None /\ got \in [Opens -> Seq(Chunks)]
    BY OpensFacts DEF TypeOK
  <2>2. CASE o[2] \in opening
    <3>1. got' = got /\ recv' = recv
      BY <2>2 DEF HandleData
    <3> QED  BY <1>4, <2>2, <3>1
  <2>3. CASE o[2] \notin opening /\ streams[o[2]] = None
    <3>1. got' = got /\ recv' = recv
      BY <2>3 DEF HandleData
    <3> QED  BY <1>4, <2>1, <2>3, <3>1
  <2>4. CASE o[2] \notin opening /\ streams[o[2]] # None
    <3>1. streams[o[2]] = o /\ closing = None
      BY <1>5, <2>4
    <3>2. got' = Written(o, <<chunk>>) /\ recv' = <<"drain", o>>
      BY <2>4, <3>1 DEF HandleData
    <3>3. \A p \in Opens : p # o => got'[p] = got[p]
      BY <2>1, <3>2 DEF Written
    <3> QED  BY <2>4, <3>1, <3>2, <3>3
  <2> QED  BY <2>2, <2>3, <2>4
<1>7. \A i \in Ids : held'[i] # held[i] => i = o[2] /\ o[2] \in opening
  BY <1>4 DEF HandleData, TypeOK
<1>8. OnlyStream(o)
  BY <1>1, <1>2, <1>6 DEF OnlyStream
<1>9. TableInv'
  <2>1. \A i \in Ids : held'[i] # <<>> => <<session, i>> \in Eager
    BY <1>3, <1>4, <1>7 DEF TableInv
  <2> QED  BY <1>1, <1>3, <2>1 DEF TableInv, IsOpening
<1>10. StopInv'
  <2>1. ASSUME NEW p \in Opens, recv' \in {"drain", "stop"} \X {p} PROVE p[1] = session
    <3>1. recv' # None
      BY <2>1, AwaitFacts
    <3>2. recv' = <<"drain", o>>
      BY <1>6, <3>1
    <3>3. p = o
      BY <2>1, <3>2
    <3> QED  BY <1>4, <3>3
  <2>2. \A i \in Ids : recv' # <<"close", i>>
    BY <1>6, AwaitFacts
  <2>3. \A p \in Opens : recv # <<"stop", p>>
    BY <1>4, AwaitFacts
  <2>4. closing # None => recv' = None
    BY <1>6
  <2>5. \A p \in Opens : Live(p)' <=> Live(p)
    BY <1>1 DEF Live
  <2>6. \A p \in Opens : conn'[p] = "cancelled" /\ closing = None => task'[p] = "stopping"
    BY <1>1, <1>3, <2>3 DEF StopInv
  <2> QED  BY <1>1, <1>3, <2>1, <2>2, <2>4, <2>5, <2>6 DEF StopInv
<1>11. NoLeak' /\ ToldInv(o)'
  BY <1>1, <1>3 DEF NoLeak, ToldInv, Live
<1>12. StreamInv(o)'
  <2>1. IsOpening(o) => o[2] \in opening
    BY <1>3 DEF TableInv
  <2>2. task[o] # "none"
    BY <1>3, <1>4 DEF StreamInv
  <2>3. IsOpening(o) => o \in Eager /\ got' = got
    BY <1>4, <1>6, <2>1
  <2> QED  BY <1>1, <1>3, <2>2, <2>3 DEF StreamInv, IsOpening
<1>13. ASSUME o \notin Eager PROVE Delivered(o)'
  <2>1. client[o] = "up" /\ o[2] \notin opening /\ left[o] = <<>>
    BY <1>3, <1>4, <1>13 DEF StreamInv
  <2>2. conn[o] \in {"started", "reading"} => streams[o[2]] = o /\ Len(got[o]) = sent[o]
    BY <1>3, <1>13, <2>1 DEF NoLeak, Delivered
  <2>3. got[o] \in Seq(Chunks) /\ \A n \in 1 .. Len(got[o]) : got[o][n] = <<o, n>>
    BY <1>3, <1>13 DEF Delivered, TypeOK
  <2>4. CASE conn[o] \in {"started", "reading"}
    <3>1. got'[o] = got[o] \o <<chunk>>
      BY <1>6, <2>1, <2>2, <2>4 DEF Written, TypeOK
    <3>2. /\ Len(got'[o]) = Len(got[o]) + 1 /\ Len(got[o]) \in Nat
          /\ got'[o][Len(got[o]) + 1] = chunk
          /\ \A n \in 1 .. Len(got[o]) : got'[o][n] = got[o][n]
      BY <2>3, <3>1
    <3>3. Len(got[o]) + 1 = sent[o] + 1
      BY <2>2, <2>4
    <3>4. ASSUME NEW n \in 1 .. Len(got'[o]) PROVE got'[o][n] = <<o, n>>
      <4>1. n \in 1 .. Len(got[o]) \/ n = Len(got[o]) + 1
        BY <3>2
      <4> QED  BY <2>3, <3>2, <3>3, <4>1
    <3> QED  BY <1>2, <3>2, <3>3, <3>4 DEF Delivered
  <2>5. CASE conn[o] = "closed"
    <3>1. got'[o] = got[o]
      BY <1>5, <1>6, <2>5 DEF Written, HandleData
    <3> QED  BY <1>1, <2>3, <2>5, <3>1 DEF Delivered
  <2> QED  BY <1>4, <2>1, <2>4, <2>5
<1> QED  BY <1>8, <1>9, <1>10, <1>11, <1>12, <1>13, OneStreamKeeps

\* What the receive loop awaits belongs to this session.
LEMMA RecvFacts ==
    ASSUME TypeOK, StreamsInv, recv # None
    PROVE  /\ closing = None
           /\ \A o \in Opens : recv \in {<<"drain", o>>, <<"stop", o>>} => o[1] = session
           /\ \A o \in Opens : conn[o] = "cancelled" => recv = <<"stop", o>> \/ task[o] = "stopping"
BY DEF StreamsInv, StopInv

\* A step of the receive loop that only changes what it awaits and the table.
LEMMA RecvKeeps ==
    ASSUME TypeOK, StreamsInv, recv # None, recv' = None,
           \A o \in Opens : recv = <<"stop", o>> => conn[o] = "closed",
           \A i \in Ids : streams'[i] # None => streams'[i] = streams[i],
           \A o \in Opens : conn[o] \in {"started", "reading"} => streams'[o[2]] = o,
           UNCHANGED <<clientVars, openVars, taskVars, connVars, closeVars>>
    PROVE  StreamsInv'
<1>1. closing = None
  BY RecvFacts
<1>2. TableInv /\ StopInv /\ NoLeak
  BY DEF StreamsInv
<1>3. TableInv'
  BY <1>1, <1>2, TableKept DEF IsOpening
<1>4. StopInv'
  <2>1. \A o \in Opens : conn'[o] = "cancelled" => task'[o] = "stopping"
    BY RecvFacts
  <2>2. \A o \in Opens : recv' \notin {"drain", "stop"} \X {o}
    BY AwaitFacts
  <2>3. \A i \in Ids : recv' # <<"close", i>>
    BY AwaitFacts
  <2>4. \A o \in Opens : Live(o)' <=> Live(o)
    BY DEF Live
  <2> QED  BY <1>1, <1>2, <2>1, <2>2, <2>3, <2>4 DEF StopInv
<1>5. NoLeak'
  BY DEF NoLeak
<1>6. \A o \in Opens : StreamInv(o)' /\ ToldInv(o)' /\ (o \notin Eager => Delivered(o)')
  BY StreamKept, ToldKept, DeliveredKept DEF StreamsInv
<1> QED  BY <1>3, <1>4, <1>5, <1>6 DEF StreamsInv

LEMMA DataDrainedKeeps ==
    ASSUME TypeOK, StreamsInv, NEW o \in Opens, DataDrained(o)
    PROVE  StreamsInv'
<1>1. /\ recv = <<"drain", o>> /\ streams' \in PoppedIfLost(o) /\ recv' = None
      /\ UNCHANGED <<clientVars, openVars, taskVars, connVars, closeVars>>
  BY DEF DataDrained
<1>2. recv # None /\ \A p \in Opens : recv # <<"stop", p>>
  BY <1>1, AwaitFacts
<1>3. o[1] = session /\ closing = None
  BY <1>1, <1>2, RecvFacts
<1>4. /\ \A i \in Ids : streams'[i] # None => streams'[i] = streams[i]
      /\ \A p \in Opens : conn[p] \in {"started", "reading"} => streams'[p[2]] = p
  BY <1>1, <1>3, PoppedKeeps
<1> QED  BY <1>1, <1>2, <1>4, RecvKeeps

LEMMA CloseEndsKeeps ==
    ASSUME TypeOK, StreamsInv, NEW o \in Opens, CloseEnds(o)
    PROVE  StreamsInv'
<1>1. /\ recv = <<"stop", o>> /\ conn[o] = "closed" /\ recv' = None
      /\ UNCHANGED <<clientVars, streams, openVars, taskVars, connVars, closeVars>>
  BY DEF CloseEnds, Stopped
<1>2. recv # None /\ \A p \in Opens : recv = <<"stop", p>> => p = o
  BY <1>1, AwaitFacts
<1>3. NoLeak
  BY DEF StreamsInv
<1> QED  BY <1>1, <1>2, <1>3, RecvKeeps DEF NoLeak

LEMMA HandleCloseKeeps ==
    ASSUME TypeOK, StreamsInv, NEW o \in Opens, HandleClose(o)
    PROVE  StreamsInv'
<1>1. /\ MaySend(o)
      /\ UNCHANGED <<session, sent, streams, opening, held, taskVars, connVars, closeVars>>
  BY DEF HandleClose
<1>2. client'[o] = "ended" /\ \A p \in Opens : p # o => client'[p] = client[p]
  BY DEF HandleClose, TypeOK
<1>3. TableInv /\ StopInv /\ NoLeak /\ StreamInv(o) /\ ToldInv(o) /\ (o \notin Eager => Delivered(o))
  BY DEF StreamsInv
<1>4. /\ recv = None /\ o[1] = session /\ o[2] \in Ids /\ <<session, o[2]>> = o
      /\ client[o] = "up" => o[2] \notin opening /\ closing = None
      /\ client[o] # "up" => client[o] = "asked" /\ o[2] \in opening
  BY <1>1, MaySendFacts
<1>5. /\ \A i \in Ids : i \in aborted' => i \in aborted \/ i = o[2]
      /\ recv' = None \/ (recv' = <<"close", o[2]>> /\ closing = None)
      /\ aborted' \subseteq Ids
  BY <1>4 DEF HandleClose, TypeOK
<1>6. OnlyStream(o)
  BY <1>1, <1>2 DEF OnlyStream
<1>7. TableInv'
  <2>1. ASSUME NEW i \in aborted' PROVE client'[<<session, i>>] = "ended"
    <3>1. CASE i = o[2]
      BY <1>2, <1>4, <3>1
    <3>2. CASE i \in aborted
      <4>1. <<session, i>> \in Opens /\ client[<<session, i>>] = "ended"
        BY <1>3, <3>2 DEF TableInv, TypeOK
      <4> QED  BY <1>2, <4>1
    <3> QED  BY <1>5, <3>1, <3>2
  <2> QED  BY <1>1, <1>3, <2>1 DEF TableInv, IsOpening
<1>8. StopInv'
  <2>1. ASSUME NEW p \in Opens, recv' \in {"drain", "stop"} \X {p} PROVE FALSE
    BY <1>5, <2>1, AwaitFacts
  <2>2. ASSUME NEW i \in Ids, recv' = <<"close", i>>
        PROVE  <<session, i>> \in Opens /\ client'[<<session, i>>] = "ended"
    <3>1. i = o[2]
      BY <1>5, <2>2, AwaitFacts
    <3> QED  BY <1>2, <1>4, <3>1
  <2>3. \A p \in Opens : conn'[p] = "cancelled" /\ closing = None => task'[p] = "stopping"
    <3>1. \A p \in Opens : recv # <<"stop", p>>
      BY <1>4, AwaitFacts
    <3> QED  BY <1>1, <1>3, <3>1 DEF StopInv
  <2>4. \A p \in Opens : Live(p)' <=> Live(p)
    BY <1>1 DEF Live
  <2>5. closing # None =>
          /\ recv' = None
          /\ \A p \in Opens : /\ task'[p] \in {"none", "connecting", "waiting", "done"}
                              /\ p[1] = session => client'[p] # "up"
    BY <1>1, <1>2, <1>3, <1>5 DEF StopInv
  <2> QED  BY <1>1, <1>3, <2>1, <2>2, <2>3, <2>4, <2>5 DEF StopInv
<1>9. NoLeak' /\ (o \notin Eager => Delivered(o)')
  BY <1>1, <1>3 DEF NoLeak, Delivered
<1>10. ToldInv(o)'
  BY <1>1, <1>2, <1>3 DEF ToldInv, Live
<1>11. StreamInv(o)'
  BY <1>1, <1>2, <1>3, <1>4 DEF StreamInv, IsOpening
<1> QED  BY <1>6, <1>7, <1>8, <1>9, <1>10, <1>11, OneStreamKeeps

\* The id leads to the stream its client has closed, or to none.
LEMMA CloseStreamKeeps ==
    ASSUME TypeOK, StreamsInv, NEW i \in Ids, CloseStream(i)
    PROVE  StreamsInv'
<1>1. /\ recv = <<"close", i>> /\ closing = None /\ streams' = [streams EXCEPT ![i] = None]
      /\ UNCHANGED <<clientVars, openVars, taskVars, got, told, closeVars>>
  BY DEF CloseStream
<1>2. TableInv /\ StopInv /\ NoLeak
  BY DEF StreamsInv
<1>3. recv # None
  BY <1>1, AwaitFacts
<1>4. \A j \in Ids : streams'[j] = IF j = i THEN None ELSE streams[j]
  BY <1>1 DEF TypeOK
<1>5. CASE streams[i] = None
  <2>1. recv' = None /\ conn' = conn
    BY <1>5 DEF CloseStream
  <2>2. \A o \in Opens : recv # <<"stop", o>>
    BY <1>1
  <2>3. \A o \in Opens : conn[o] \in {"started", "reading"} => streams'[o[2]] = o
    BY <1>2, <1>4, <1>5, OpensFacts DEF NoLeak
  <2>4. streams' = streams
    BY <1>1, <1>4, <1>5 DEF TypeOK
  <2> QED  BY <1>1, <1>3, <2>1, <2>2, <2>3, <2>4, RecvKeeps
<1>6. CASE streams[i] # None
  <2>1. PICK o \in Opens : o = streams[i] /\ o = <<session, i>>
    BY <1>1, <1>2, <1>6 DEF TableInv, TypeOK
  <2>2. o[1] = session /\ o[2] = i /\ client[o] = "ended"
    BY <1>1, <1>2, <2>1 DEF StopInv
  <2>3. recv' = <<"stop", o>> /\ conn' \in Stopping(o)
    BY <1>6, <2>1 DEF CloseStream
  <2>4. /\ \A p \in Opens : p # o => conn'[p] = conn[p]
        /\ conn'[o] \notin {"started", "reading"}
        /\ Live(o)' => Live(o)
        /\ conn'[o] = "none" <=> conn[o] = "none"
    BY <2>3, StoppingEnds DEF Live
  <2>5. StreamInv(o) /\ ToldInv(o) /\ (o \notin Eager => Delivered(o))
    BY DEF StreamsInv
  <2>6. OnlyStream(o)
    BY <1>1, <2>4 DEF OnlyStream
  <2>7. TableInv'
    BY <1>1, <1>2, <1>4, TableKept DEF IsOpening
  <2>8. StopInv'
    <3>1. \A p \in Opens : Live(p)' => Live(p)
      BY <2>4 DEF Live
    <3>2. ASSUME NEW p \in Opens, conn'[p] = "cancelled" PROVE recv' = <<"stop", p>> \/ task'[p] = "stopping"
      <4>1. \A q \in Opens : recv # <<"stop", q>>
        BY <1>1
      <4>2. CASE p # o
        BY <1>1, <1>2, <2>4, <3>2, <4>1, <4>2 DEF StopInv
      <4> QED  BY <2>3, <4>2
    <3>3. ASSUME NEW p \in Opens, recv' \in {"drain", "stop"} \X {p} PROVE p[1] = session
      BY <2>2, <2>3, <3>3
    <3>4. \A j \in Ids : recv' # <<"close", j>>
      BY <2>3
    <3> QED  BY <1>1, <1>2, <3>1, <3>2, <3>3, <3>4 DEF StopInv
  <2>9. NoLeak'
    <3> SUFFICES ASSUME NEW p \in Opens, conn'[p] \in {"started", "reading"}
                 PROVE  streams'[p[2]] = p
      BY DEF NoLeak
    <3>1. p # o /\ streams[p[2]] = p
      BY <1>2, <2>4 DEF NoLeak
    <3>2. p[2] # i /\ p[2] \in Ids
      BY <2>1, <3>1, OpensFacts
    <3> QED  BY <1>4, <3>1, <3>2
  <2>10. StreamInv(o)'
    BY <1>1, <2>2, <2>4, <2>5 DEF StreamInv, IsOpening
  <2>11. ToldInv(o)'
    BY <1>1, <2>2, <2>4, <2>5 DEF ToldInv
  <2>12. o \notin Eager => Delivered(o)'
    BY <1>1, <2>4, <2>5, DeliveredKept
  <2> QED  BY <2>6, <2>7, <2>8, <2>9, <2>10, <2>11, <2>12, OneStreamKeeps
<1> QED  BY <1>5, <1>6

(***************************************************************************)
(* One session follows another, and close_all                              *)
(***************************************************************************)

\* When no stream is being opened or closed, the live ones are open and in the table.
LEMMA QuietFacts ==
    ASSUME TypeOK, StreamsInv, Quiet, closing = None
    PROVE  /\ \A o \in Opens : Live(o) => streams[o[2]] = o /\ o[1] = session
           /\ opening = {} /\ aborted = {} /\ \A i \in Ids : held[i] = <<>>
           /\ \A o \in Opens : task[o] \in {"none", "done"}
<1>1. TableInv /\ StopInv /\ NoLeak
  BY DEF StreamsInv
<1>2. recv = None /\ \A o \in Opens : task[o] \in {"none", "done"}
  BY DEF Quiet
<1>3. \A o \in Opens : Live(o) => streams[o[2]] = o /\ o[1] = session
  <2>1. \A o \in Opens : conn[o] # "cancelled"
    BY <1>1, <1>2, AwaitFacts DEF StopInv
  <2> QED  BY <1>1, <2>1 DEF Live, StopInv, NoLeak
<1>4. opening = {}
  <2> SUFFICES ASSUME NEW i \in opening PROVE FALSE
    OBVIOUS
  <2>1. <<session, i>> \in Opens
    BY <1>1 DEF TableInv
  <2>2. IsOpening(<<session, i>>)
    BY <1>1, <2>1 DEF TableInv
  <2> QED  BY <1>2, <2>1, <2>2 DEF IsOpening
<1>5. aborted = {} /\ \A i \in Ids : held[i] = <<>>
  BY <1>4 DEF TypeOK
<1> QED  BY <1>2, <1>3, <1>4, <1>5

\* A session begins with every earlier stream at rest, but for those that close_all
\* has been given.
LEMMA NextSessionKeeps ==
    ASSUME TypeOK, StreamsInv, Quiet, NextSession,
           \/ closing' = None /\ \A o \in Opens : ~Live(o)
           \/ closing' # None /\ \A o \in Opens : Live(o) => o \in closing',
           closing' = None => \A i \in Ids : streams[i] = None,
           UNCHANGED <<client, sent, streams, openVars, taskVars, connVars, recv, closer>>
    PROVE  StreamsInv'
<1>1. session' = session + 1 /\ session \in Nat /\ closing = None /\ recv = None
  BY DEF NextSession, Quiet, TypeOK
<1>2. /\ \A o \in Opens : Live(o) => streams[o[2]] = o /\ o[1] = session
      /\ opening = {} /\ aborted = {} /\ \A i \in Ids : held[i] = <<>>
      /\ \A o \in Opens : task[o] \in {"none", "done"}
  BY <1>1, QuietFacts
<1>3. \A o \in Opens : o[1] \in Nat
  BY OpensFacts, StreamsAssumption
<1>4. \A o \in Opens : o[1] = session' => client[o] = "idle" /\ task[o] = "none"
  <2> SUFFICES ASSUME NEW o \in Opens, o[1] = session' PROVE client[o] = "idle" /\ task[o] = "none"
    OBVIOUS
  <2>1. o[1] > session
    BY <1>1
  <2> QED  BY <2>1 DEF StreamsInv, StreamInv
<1>5. TableInv'
  BY <1>1, <1>2 DEF TableInv, IsOpening
<1>6. StopInv'
  <2>1. \A o \in Opens : Live(o)' <=> Live(o)
    BY DEF Live
  <2>2. \A o \in Opens : Live(o) => IF closing' = None THEN FALSE ELSE o[1] < session' /\ o \in closing'
    BY <1>1, <1>2
  <2>3. \A o, p \in Opens : Live(o) /\ Live(p) /\ o[2] = p[2] => o = p
    BY DEF StreamsInv, StopInv
  <2>4. \A o \in Opens : conn'[o] = "cancelled" => closing' # None
    BY DEF Live
  <2>5. \A o \in Opens : recv' \notin {"drain", "stop"} \X {o}
    BY <1>1, AwaitFacts
  <2>6. \A i \in Ids : recv' # <<"close", i>>
    BY <1>1, AwaitFacts
  <2>7. /\ recv' = None
        /\ \A o \in Opens : /\ task'[o] \in {"none", "connecting", "waiting", "done"}
                            /\ o[1] = session' => client'[o] # "up"
    BY <1>1, <1>2, <1>4
  <2> QED  BY <2>1, <2>2, <2>3, <2>4, <2>5, <2>6, <2>7 DEF StopInv
<1>7. NoLeak'
  BY DEF StreamsInv, NoLeak
<1>8. ASSUME NEW o \in Opens PROVE StreamInv(o)'
  <2>1. StreamInv(o) /\ task[o] \in {"none", "done"}
    BY <1>2 DEF StreamsInv
  <2>2. o[1] > session' => o[1] > session
    BY <1>1, <1>3
  <2> QED  BY <1>4, <2>1, <2>2 DEF StreamInv, IsOpening
<1>9. ASSUME NEW o \in Opens PROVE ToldInv(o)'
  BY <1>4 DEF StreamsInv, ToldInv, Live
<1>10. \A o \in Opens \ Eager : Delivered(o)'
  BY DEF StreamsInv, Delivered
<1> QED  BY <1>5, <1>6, <1>7, <1>8, <1>9, <1>10 DEF StreamsInv

LEMMA ClientDisconnectsKeeps ==
    ASSUME Handovers \subseteq {"quiet"}, TypeOK, StreamsInv, ClientDisconnects
    PROVE  StreamsInv'
<1>1. /\ Quiet /\ NextSession /\ closing' = {streams[i] : i \in Ids} \ {None}
      /\ UNCHANGED <<client, sent, streams, openVars, taskVars, connVars, recv, closer>>
  BY DEF ClientDisconnects
<1>2. closing' \in SUBSET Opens
  BY <1>1 DEF TypeOK
<1>3. closing' # None
  BY <1>2, AwaitFacts
<1>4. closing = None
  BY <1>1 DEF NextSession
<1>5. ASSUME NEW o \in Opens, Live(o) PROVE o \in closing'
  <2>1. streams[o[2]] = o /\ o[2] \in Ids /\ o # None
    BY <1>1, <1>4, <1>5, QuietFacts, OpensFacts
  <2> QED  BY <1>1, <2>1
<1> QED  BY <1>1, <1>3, <1>5, NextSessionKeeps

LEMMA ReconnectsKeeps ==
    ASSUME Handovers \subseteq {"quiet"}, TypeOK, StreamsInv, Reconnects
    PROVE  StreamsInv'
<1>1. /\ Quiet /\ NextSession /\ streams = [i \in Ids |-> None]
      /\ UNCHANGED <<client, sent, streams, openVars, taskVars, connVars, recv, closeVars>>
  BY DEF Reconnects
<1>2. closing = None /\ closing' = None
  BY <1>1 DEF NextSession
<1>3. \A o \in Opens : ~Live(o)
  BY <1>1, <1>2, QuietFacts, OpensFacts
<1> QED  BY <1>1, <1>2, <1>3, NextSessionKeeps

\* close_all stops a stream of an earlier session, which only a socket can notice.
LEMMA CloseAllStopsKeeps ==
    ASSUME TypeOK, StreamsInv, NEW o \in Opens, CloseAllStops(o)
    PROVE  StreamsInv'
<1>1. /\ closing # None /\ closer = None /\ o \in closing /\ closing' = closing \ {o}
      /\ closer' = o /\ conn' \in Stopping(o)
      /\ UNCHANGED <<clientVars, streams, openVars, taskVars, got, told, recv>>
  BY DEF CloseAllStops
<1>2. TableInv /\ StopInv /\ NoLeak /\ StreamInv(o) /\ ToldInv(o) /\ (o \notin Eager => Delivered(o))
  BY DEF StreamsInv
<1>3. /\ \A p \in Opens : p # o => conn'[p] = conn[p]
      /\ conn'[o] \notin {"started", "reading"}
      /\ Live(o)' => Live(o)
      /\ conn'[o] = "none" <=> conn[o] = "none"
  BY <1>1, StoppingEnds DEF Live
<1>4. closing' # None
  <2>1. closing' \in SUBSET Opens
    BY <1>1 DEF TypeOK
  <2> QED  BY <2>1, AwaitFacts
<1>5. \A p \in Opens : p # None
  BY OpensFacts
<1>6. OnlyStream(o)
  BY <1>1, <1>3 DEF OnlyStream
<1>7. TableInv'
  BY <1>1, <1>2, <1>4 DEF TableInv, IsOpening
<1>8. StopInv'
  <2>1. \A p \in Opens : Live(p)' => Live(p)
    BY <1>3 DEF Live
  <2>2. \A p \in Opens : Live(p) => p[1] < session /\ (p \in closing' \/ p = closer')
    BY <1>1, <1>2, <1>5 DEF StopInv
  <2> QED  BY <1>1, <1>2, <1>4, <2>1, <2>2 DEF StopInv
<1>9. NoLeak'
  BY <1>1, <1>2, <1>3 DEF NoLeak
<1>10. o[1] = session => client[o] # "up"
  BY <1>1, <1>2 DEF StopInv
<1>11. StreamInv(o)'
  BY <1>1, <1>2, <1>3, <1>10 DEF StreamInv, IsOpening
<1>12. ToldInv(o)'
  BY <1>1, <1>2, <1>3, <1>10 DEF ToldInv
<1>13. o \notin Eager => Delivered(o)'
  BY <1>1, <1>2, <1>3, DeliveredKept
<1> QED  BY <1>6, <1>7, <1>8, <1>9, <1>11, <1>12, <1>13, OneStreamKeeps

\* The lock is given back when no stream of an earlier session is live.
LEMMA CloseAllGoesOnKeeps ==
    ASSUME TypeOK, StreamsInv, CloseAllEnds \/ \E o \in Opens : CloseAllStopped(o)
    PROVE  StreamsInv'
<1>1. TableInv /\ StopInv /\ NoLeak
  BY DEF StreamsInv
<1>2. ASSUME NEW o \in Opens, CloseAllStopped(o) PROVE StreamsInv'
  <2>1. /\ closer = o /\ conn[o] = "closed" /\ closer' = None
        /\ UNCHANGED <<clientVars, streams, openVars, taskVars, connVars, recv, closing>>
    BY <1>2 DEF CloseAllStopped, Stopped
  <2>2. TableInv' /\ NoLeak'
    BY <1>1, <2>1 DEF TableInv, IsOpening, NoLeak
  <2>3. StopInv'
    BY <1>1, <2>1 DEF StopInv, Live
  <2>4. \A p \in Opens : StreamInv(p)' /\ ToldInv(p)' /\ (p \notin Eager => Delivered(p)')
    BY <2>1, StreamKept, ToldKept, DeliveredKept DEF StreamsInv
  <2> QED  BY <2>2, <2>3, <2>4 DEF StreamsInv
<1>3. CASE CloseAllEnds
  <2>1. /\ closing = {} /\ closer = None /\ closing' = None /\ streams' = [i \in Ids |-> None]
        /\ UNCHANGED <<clientVars, openVars, taskVars, connVars, recv, closer>>
    BY <1>3 DEF CloseAllEnds
  <2>2. closing # None
    BY <2>1, AwaitFacts
  <2>3. \A o \in Opens : ~Live(o)
    BY <1>1, <2>1, <2>2, OpensFacts DEF StopInv
  <2>4. TableInv'
    BY <1>1, <2>1 DEF TableInv, IsOpening
  <2>5. NoLeak'
    BY <2>1, <2>3 DEF NoLeak, Live
  <2>6. StopInv'
    BY <1>1, <2>1, <2>2, <2>3 DEF StopInv, Live
  <2>7. \A p \in Opens : StreamInv(p)' /\ ToldInv(p)' /\ (p \notin Eager => Delivered(p)')
    BY <2>1, StreamKept, ToldKept, DeliveredKept DEF StreamsInv
  <2> QED  BY <2>4, <2>5, <2>6, <2>7 DEF StreamsInv
<1> QED  BY <1>2, <1>3

(***************************************************************************)
(* The theorems                                                            *)
(***************************************************************************)

LEMMA StreamsInit == Init => StreamsInv
<1> SUFFICES ASSUME Init PROVE StreamsInv
  OBVIOUS
<1>1. TableInv /\ NoLeak
  BY DEF Init, TableInv, NoLeak, IsOpening
<1>2. StopInv
  BY AwaitFacts DEF Init, StopInv, Live
<1>3. ASSUME NEW o \in Opens PROVE StreamInv(o)
  BY <1>3 DEF Init, StreamInv, IsOpening
<1>4. \A o \in Opens : ToldInv(o)
  BY DEF Init, ToldInv, ToldOrder, Live
<1>5. \A o \in Opens \ Eager : Delivered(o)
  BY DEF Init, Delivered
<1> QED  BY <1>1, <1>2, <1>3, <1>4, <1>5 DEF StreamsInv

LEMMA StreamsStep ==
    Handovers \subseteq {"quiet"} => (TypeOK /\ StreamsInv /\ [Next]_vars => StreamsInv')
<1> SUFFICES ASSUME Handovers \subseteq {"quiet"}, TypeOK, StreamsInv, [Next]_vars
             PROVE  StreamsInv'
  OBVIOUS
<1>1. CASE \E o \in Opens : OpenTask(o) \/ ReadData(o) \/ ReadLoopEnds(o)
  BY <1>1, ReadDataKeeps, ReadLoopEndsKeeps, ConnectFailsKeeps, ConnectedWaitsKeeps, InsertKeeps,
     FlushKeeps, FlushEndsKeeps, AbortEndsKeeps DEF OpenTask
<1>2. CASE RecvLoop
  BY <1>2, DataDrainedKeeps, CloseEndsKeeps, CloseStreamKeeps DEF RecvLoop
<1>3. CASE CloseAll
  BY <1>3, CloseAllStopsKeeps, CloseAllGoesOnKeeps DEF CloseAll
<1>4. CASE ClientSends
  BY <1>4, HandleOpenKeeps, HandleDataKeeps, HandleCloseKeeps DEF ClientSends
<1>5. CASE ClientDisconnects
  BY <1>5, ClientDisconnectsKeeps
<1>6. CASE Reconnects
  BY <1>6, ReconnectsKeeps
<1>7. CASE UNCHANGED vars
  <2>1. \A p \in Opens : StreamInv(p)' /\ ToldInv(p)' /\ (p \notin Eager => Delivered(p)')
    BY <1>7, StreamKept, ToldKept, DeliveredKept DEF StreamsInv, vars
  <2>2. TableInv' /\ StopInv' /\ NoLeak'
    BY <1>7 DEF StreamsInv, TableInv, StopInv, NoLeak, IsOpening, Live, vars
  <2> QED  BY <2>1, <2>2 DEF StreamsInv
<1> QED  BY <1>1, <1>2, <1>3, <1>4, <1>5, <1>6, <1>7 DEF Next

LEMMA StreamsInvariant == Handovers \subseteq {"quiet"} => (Spec => [](TypeOK /\ StreamsInv))
<1> SUFFICES ASSUME Handovers \subseteq {"quiet"} PROVE Spec => [](TypeOK /\ StreamsInv)
  OBVIOUS
<1>1. Init => TypeOK /\ StreamsInv
  BY TypeInit, StreamsInit
<1>2. TypeOK /\ StreamsInv /\ [Next]_vars => (TypeOK /\ StreamsInv)'
  BY TypeStep, StreamsStep
<1> QED  BY <1>1, <1>2, PTL DEF Spec

\* When no stream is being opened or closed as one session follows another: what the
\* client sends on a stream reaches its destination in order and complete, and the
\* client is told of an open stream once, and of its end once (exitnode/socks.py:138-141).
THEOREM StreamsStayInOrder == Handovers \subseteq {"quiet"} => (Spec => []InOrder)
<1> SUFFICES ASSUME Handovers \subseteq {"quiet"} PROVE Spec => []InOrder
  OBVIOUS
<1>1. StreamsInv => InOrder
  BY PromisesFromInv
<1> QED  BY <1>1, StreamsInvariant, PTL

\* Under the same hypothesis an open socket always has its entry in the table, where a
\* CLOSE or close_all will find it (exitnode/socks.py:108-112).
THEOREM NoSocketLeaks == Handovers \subseteq {"quiet"} => (Spec => []NoLeak)
<1> SUFFICES ASSUME Handovers \subseteq {"quiet"} PROVE Spec => []NoLeak
  OBVIOUS
<1>1. StreamsInv => NoLeak
  BY PromisesFromInv
<1> QED  BY <1>1, StreamsInvariant, PTL

(***************************************************************************)
(* Whose data a destination gets                                           *)
(***************************************************************************)

\* DATA of one stream only.
AllOf(o, chunks) == \A n \in DOMAIN chunks : chunks[n][1] = o

\* What waits for a connection, what is being flushed to it and what it was written
\* is of the stream that it was opened for, also when the client did not wait.
OwnInv ==
    /\ \A i \in Ids : AllOf(<<session, i>>, held[i])
    /\ \A o \in Opens : AllOf(o, left[o]) /\ AllOf(o, got[o])

LEMMA NoneOfAny == \A o : AllOf(o, <<>>)
BY DEF AllOf

LEMMA AllOfAppend ==
    ASSUME NEW o \in Opens, NEW s \in Seq(Chunks), NEW c \in Chunks, AllOf(o, s), c[1] = o
    PROVE  AllOf(o, Append(s, c)) /\ AllOf(o, s \o <<c>>)
<1>1. Len(s) \in Nat /\ DOMAIN s = 1 .. Len(s)
  OBVIOUS
<1>2. /\ DOMAIN Append(s, c) = 1 .. Len(s) + 1 /\ Append(s, c)[Len(s) + 1] = c
      /\ \A n \in 1 .. Len(s) : Append(s, c)[n] = s[n]
  BY AppendProperties
<1>3. s \o <<c>> = Append(s, c)
  OBVIOUS
<1>4. AllOf(o, Append(s, c))
  <2> SUFFICES ASSUME NEW n \in 1 .. Len(s) + 1 PROVE Append(s, c)[n][1] = o
    BY <1>2 DEF AllOf
  <2>1. n = Len(s) + 1 \/ n \in 1 .. Len(s)
    BY <1>1
  <2> QED  BY <1>1, <1>2, <2>1 DEF AllOf
<1> QED  BY <1>3, <1>4

LEMMA AllOfParts ==
    ASSUME NEW o \in Opens, NEW s \in Seq(Chunks), AllOf(o, s), s # <<>>
    PROVE  /\ Head(s) \in Chunks /\ Head(s)[1] = o
           /\ Tail(s) \in Seq(Chunks) /\ AllOf(o, Tail(s))
<1>1. Len(s) \in Nat \ {0} /\ DOMAIN s = 1 .. Len(s) /\ Head(s) = s[1] /\ s[1] \in Chunks
  BY EmptySeq
<1>2. /\ Tail(s) \in Seq(Chunks) /\ DOMAIN Tail(s) = 1 .. Len(s) - 1
      /\ \A n \in 1 .. Len(s) - 1 : Tail(s)[n] = s[n + 1]
  BY HeadTailProperties
<1>3. \A n \in 1 .. Len(s) - 1 : n + 1 \in 1 .. Len(s)
  BY <1>1
<1> QED  BY <1>1, <1>2, <1>3 DEF AllOf

LEMMA WrittenOwn ==
    ASSUME TypeOK, OwnInv, NEW o \in Opens, NEW c \in Chunks, c[1] = o, got' = Written(o, <<c>>)
    PROVE  \A p \in Opens : AllOf(p, got'[p])
<1>1. got[o] \in Seq(Chunks) /\ AllOf(o, got[o])
  BY DEF TypeOK, OwnInv
<1>2. AllOf(o, got[o] \o <<c>>)
  BY <1>1, AllOfAppend
<1>3. \A p \in Opens : p # o => got'[p] = got[p]
  BY DEF Written, TypeOK
<1>4. got'[o] = got[o] \/ got'[o] = got[o] \o <<c>>
  BY DEF Written, TypeOK
<1> QED  BY <1>1, <1>2, <1>3, <1>4 DEF OwnInv

\* Taking an entry of _opening away takes its DATA away.
LEMMA DiscardOwn ==
    ASSUME TypeOK, OwnInv, NEW i \in Ids, Discard(i), session' = session
    PROVE  \A j \in Ids : AllOf(<<session', j>>, held'[j])
BY DiscardFacts, NoneOfAny DEF OwnInv

\* The held DATA goes to the stream whose entry held it: no other stream of this
\* session has had that id.
LEMMA InsertOwn ==
    ASSUME TypeOK, StreamsInv, OwnInv, NEW o \in Opens, Insert(o)
    PROVE  OwnInv'
<1>1. IsOpening(o) /\ Answer(o, "ok") /\ Discard(o[2])
  BY DEF Insert, IsOpening
<1>2. o[2] \in Ids /\ <<session, o[2]>> = o /\ got[o] = <<>>
  BY <1>1, OpeningFacts
<1>3. session' = session
  BY <1>1 DEF Answer
<1>4. \A j \in Ids : AllOf(<<session', j>>, held'[j])
  BY <1>1, <1>2, <1>3, DiscardOwn
<1>5. held[o[2]] \in Seq(Chunks) /\ AllOf(o, held[o[2]])
  BY <1>2 DEF TypeOK, OwnInv
<1>6. CASE held[o[2]] = <<>>
  <2>1. got' = got /\ left' = left
    BY <1>6 DEF Insert
  <2> QED  BY <1>4, <2>1 DEF OwnInv
<1>7. CASE held[o[2]] # <<>>
  <2> DEFINE first == Head(held[o[2]])
             rest == Tail(held[o[2]])
  <2>1. first \in Chunks /\ first[1] = o /\ AllOf(o, rest)
    BY <1>5, <1>7, AllOfParts
  <2>2. /\ got' = [got EXCEPT ![o] = Append(@, first)]
        /\ left' = [left EXCEPT ![o] = rest]
    BY <1>7 DEF Insert
  <2> HIDE DEF first, rest
  <2>3. got[o] \in Seq(Chunks) /\ AllOf(o, got[o])
    BY DEF TypeOK, OwnInv
  <2>4. AllOf(o, Append(got[o], first))
    BY <2>1, <2>3, AllOfAppend
  <2>5. /\ got'[o] = Append(got[o], first) /\ left'[o] = rest
        /\ \A p \in Opens : p # o => got'[p] = got[p] /\ left'[p] = left[p]
    BY <2>2 DEF TypeOK
  <2>6. \A p \in Opens : AllOf(p, left'[p]) /\ AllOf(p, got'[p])
    BY <2>1, <2>4, <2>5 DEF OwnInv
  <2> QED  BY <1>4, <2>6 DEF OwnInv
<1> QED  BY <1>6, <1>7

LEMMA FlushOwn ==
    ASSUME TypeOK, OwnInv, NEW o \in Opens, Flush(o)
    PROVE  OwnInv'
<1>1. /\ left[o] # <<>> /\ got' = Written(o, <<Head(left[o])>>)
      /\ left' = [left EXCEPT ![o] = Tail(left[o])]
      /\ session' = session /\ held' = held
  BY DEF Flush
<1>2. left[o] \in Seq(Chunks) /\ AllOf(o, left[o])
  BY DEF TypeOK, OwnInv
<1>3. Head(left[o]) \in Chunks /\ Head(left[o])[1] = o /\ AllOf(o, Tail(left[o]))
  BY <1>1, <1>2, AllOfParts
<1>4. \A p \in Opens : AllOf(p, got'[p])
  BY <1>1, <1>3, WrittenOwn
<1>5. left'[o] = Tail(left[o]) /\ \A p \in Opens : p # o => left'[p] = left[p]
  BY <1>1 DEF TypeOK
<1>6. \A p \in Opens : AllOf(p, left'[p])
  BY <1>3, <1>5 DEF OwnInv
<1> QED  BY <1>1, <1>4, <1>6 DEF OwnInv

\* DATA that comes after the open task has run goes to the stream that the id names,
\* which is the client's own.
LEMMA HandleDataOwn ==
    ASSUME TypeOK, StreamsInv, OwnInv, NEW o \in Opens, HandleData(o)
    PROVE  OwnInv'
<1> DEFINE chunk == <<o, sent[o] + 1>>
<1>1. MaySend(o) /\ sent[o] < MaxData /\ session' = session /\ left' = left
  BY DEF HandleData
<1>2. o[2] \in Ids /\ <<session, o[2]>> = o
      /\ (o[2] \notin opening => closing = None)
  BY <1>1, MaySendFacts
<1>3. chunk \in Chunks /\ chunk[1] = o
  <2>1. sent[o] \in 0 .. MaxData /\ MaxData \in Nat
    BY StreamsAssumption DEF TypeOK
  <2>2. sent[o] + 1 \in 1 .. MaxData
    BY <1>1, <2>1
  <2> QED  BY <2>2 DEF Chunks
<1>4. CASE o[2] \in opening
  <2>1. got' = got /\ held' = IF Len(held[o[2]]) < MaxPending
                              THEN [held EXCEPT ![o[2]] = Append(@, chunk)] ELSE held
    BY <1>4 DEF HandleData
  <2> HIDE DEF chunk
  <2>2. held[o[2]] \in Seq(Chunks) /\ AllOf(o, held[o[2]])
    BY <1>2 DEF TypeOK, OwnInv
  <2>3. AllOf(o, Append(held[o[2]], chunk))
    BY <1>3, <2>2, AllOfAppend
  <2>4. /\ held'[o[2]] = held[o[2]] \/ held'[o[2]] = Append(held[o[2]], chunk)
        /\ \A j \in Ids : j # o[2] => held'[j] = held[j]
    BY <1>2, <2>1 DEF TypeOK
  <2>5. \A j \in Ids : AllOf(<<session, j>>, held'[j])
    BY <1>2, <2>2, <2>3, <2>4 DEF OwnInv
  <2> QED  BY <1>1, <2>1, <2>5 DEF OwnInv
<1>5. CASE o[2] \notin opening /\ streams[o[2]] # None
  <2>1. streams[o[2]] = o
    BY <1>2, <1>5 DEF StreamsInv, TableInv
  <2>2. got' = Written(o, <<chunk>>) /\ held' = held
    BY <1>5, <2>1 DEF HandleData
  <2> HIDE DEF chunk
  <2>3. \A p \in Opens : AllOf(p, got'[p])
    BY <1>3, <2>2, WrittenOwn
  <2> QED  BY <1>1, <2>2, <2>3 DEF OwnInv
<1>6. CASE o[2] \notin opening /\ streams[o[2]] = None
  <2>1. got' = got /\ held' = held
    BY <1>6 DEF HandleData
  <2> QED  BY <1>1, <2>1 DEF OwnInv
<1> QED  BY <1>4, <1>5, <1>6

\* A session that ends quietly leaves nothing held.
LEMMA NextSessionOwn ==
    ASSUME TypeOK, StreamsInv, OwnInv, Quiet, NextSession, UNCHANGED <<openVars, taskVars, connVars>>
    PROVE  OwnInv'
<1>1. closing = None
  BY DEF NextSession
<1>2. \A i \in Ids : held[i] = <<>>
  BY <1>1, QuietFacts
<1> QED  BY <1>2, NoneOfAny DEF OwnInv

LEMMA OwnStep ==
    Handovers \subseteq {"quiet"} => (TypeOK /\ StreamsInv /\ OwnInv /\ [Next]_vars => OwnInv')
<1> SUFFICES ASSUME Handovers \subseteq {"quiet"}, TypeOK, StreamsInv, OwnInv, [Next]_vars
             PROVE  OwnInv'
  OBVIOUS
<1>1. ASSUME UNCHANGED <<session, held, left, got>> PROVE OwnInv'
  BY <1>1 DEF OwnInv
<1>2. ASSUME NEW o \in Opens, OpenTask(o) PROVE OwnInv'
  <2>1. CASE ConnectFails(o)
    <3>1. Discard(o[2]) /\ session' = session /\ left' = left /\ got' = got /\ o[2] \in Ids
      BY <2>1, OpensFacts DEF ConnectFails, Answer
    <3>2. \A j \in Ids : AllOf(<<session', j>>, held'[j])
      BY <3>1, DiscardOwn
    <3> QED  BY <3>1, <3>2 DEF OwnInv
  <2>2. CASE ConnectedWaits(o) \/ FlushEnds(o) \/ AbortEnds(o)
    BY <1>1, <2>2 DEF ConnectedWaits, FlushEnds, AbortEnds
  <2> QED  BY <1>2, <2>1, <2>2, InsertOwn, FlushOwn DEF OpenTask
<1>3. ASSUME NEW o \in Opens, ReadData(o) \/ ReadLoopEnds(o) PROVE OwnInv'
  BY <1>1, <1>3 DEF ReadData, ReadLoopEnds
<1>4. CASE RecvLoop
  BY <1>1, <1>4 DEF RecvLoop, DataDrained, CloseEnds, CloseStream
<1>5. CASE CloseAll
  BY <1>1, <1>5 DEF CloseAll, CloseAllEnds, CloseAllStops, CloseAllStopped
<1>6. CASE ClientSends
  BY <1>1, <1>6, HandleDataOwn DEF ClientSends, HandleOpen, HandleClose
<1>7. CASE ClientDisconnects \/ Reconnects
  <2>1. Quiet /\ NextSession /\ UNCHANGED <<openVars, taskVars, connVars>>
    BY <1>7 DEF ClientDisconnects, Reconnects
  <2> QED  BY <2>1, NextSessionOwn
<1>8. CASE UNCHANGED vars
  BY <1>1, <1>8 DEF vars
<1> QED  BY <1>2, <1>3, <1>4, <1>5, <1>6, <1>7, <1>8 DEF Next

\* Under the same hypothesis a destination gets data only of the client that asked for
\* it, also of a client that sends before it is answered: what the run socks_handover
\* shows violated needs a session that ends while a stream is being opened
\* (exitnode/socks.py:175-180).
THEOREM DataStaysWithItsClient == Handovers \subseteq {"quiet"} => (Spec => []OwnDestinationOnly)
<1> SUFFICES ASSUME Handovers \subseteq {"quiet"} PROVE Spec => []OwnDestinationOnly
  OBVIOUS
<1>1. Init => OwnInv
  BY NoneOfAny DEF Init, OwnInv
<1>2. TypeOK /\ StreamsInv /\ OwnInv /\ [Next]_vars => OwnInv'
  BY OwnStep
<1>3. OwnInv => OwnDestinationOnly
  BY DEF OwnInv, AllOf, OwnDestinationOnly
<1> QED  BY <1>1, <1>2, <1>3, StreamsInvariant, PTL DEF Spec
=============================================================================
