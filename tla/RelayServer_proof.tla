------------------------- MODULE RelayServer_proof -------------------------
(***************************************************************************)
(* Proofs about RelayServer, for any sets of exit nodes, clients, tunnel   *)
(* ids and codes, and, in the last part, about Reconnection, which extends *)
(* it: for any number of programs, attempts and faults as well.            *)
(***************************************************************************)
EXTENDS Reconnection, SequenceTheorems, TLAPS

(***************************************************************************)
(* The inductive invariant                                                 *)
(***************************************************************************)

\* What a handler's program counter says about its session.
HandlerInv ==
    /\ \A c \in Clients :
        /\ c \in clients <=> clientPc[c] \notin {"none", "gone"}
        /\ clientPc[c] = "notifying" => target[c] # None /\ minted[c] # None
        /\ clientPc[c] \in {"none", "fresh", "notifying", "closing"} => clientExit[c] = None
    /\ \A e \in Exits :
        /\ e \in exitnodes => exitPc[e] \in {"serving", "sending", "closing"}
        /\ exitPc[e] \in {"none", "fresh"} =>
            /\ exitClient[e] = None /\ exitTunnel[e] = None
            /\ \A c \in Clients : clientExit[c] # e

\* A tunnel id is minted for one client, and only that client is linked by it.
MintedInv ==
    /\ \A c, d \in Clients : minted[c] = minted[d] /\ minted[c] # None => c = d
    /\ \A c \in Clients :
        /\ clientTunnel[c] # None => clientTunnel[c] = minted[c]
        /\ clientExit[c] = None <=> clientTunnel[c] = None

\* An exit node's two link attributes are set and reset together.
HalfLinkInv == \A e \in Exits : exitClient[e] = None <=> exitTunnel[e] = None

LinkInv == HandlerInv /\ MintedInv /\ HalfLinkInv /\ LinkAgreement

(***************************************************************************)
(* Type correctness                                                        *)
(***************************************************************************)

\* A send leaves the wires well typed if its message is one of the protocol's.
LEMMA SendExitType ==
    ASSUME TypeOK, NEW e \in Exits, NEW m \in ExitMsgs, SendExit(e, m)
    PROVE  toExit' \in [Exits -> Seq(ExitMsgs)]
<1>1. Append(toExit[e], m) \in Seq(ExitMsgs)
  BY AppendProperties DEF TypeOK
<1> QED  BY <1>1 DEF TypeOK, SendExit

LEMMA SendClientType ==
    ASSUME TypeOK, NEW c \in Clients, NEW m \in ClientMsgs, SendClient(c, m)
    PROVE  toClient' \in [Clients -> Seq(ClientMsgs)]
<1>1. Append(toClient[c], m) \in Seq(ClientMsgs)
  BY AppendProperties DEF TypeOK
<1> QED  BY <1>1 DEF TypeOK, SendClient

\* Removing sessions leaves the two tables well typed.
LEMMA RemoveType ==
    ASSUME TableTypeOK, NEW S, RemoveExitnodeSessions(S)
    PROVE  exitnodes' \in SUBSET Exits /\ codes' \in [Keys -> Exits \cup {None}]
BY DEF TableTypeOK, RemoveExitnodeSessions

\* So does a lookup that finds nothing it can use.
LEMMA DropType ==
    ASSUME TableTypeOK, NEW k \in Keys, DropUnusable(k)
    PROVE  exitnodes' \in SUBSET Exits /\ codes' \in [Keys -> Exits \cup {None}]
BY RemoveType DEF TableTypeOK, DropUnusable

LEMMA UnlinkType ==
    ASSUME TableTypeOK, NEW t, UnlinkSessions(t)
    PROVE  /\ exitClient' \in [Exits -> Clients \cup {None}]
           /\ exitTunnel' \in [Exits -> Tunnels \cup {None}]
           /\ clientExit' \in [Clients -> Exits \cup {None}]
           /\ clientTunnel' \in [Clients -> Tunnels \cup {None}]
BY DEF TableTypeOK, UnlinkSessions

USE DEF exitVars, linkVars, tableVars, handlerVars, upVars, attemptVars, wireVars

\* Every step keeps every variable in its type.
LEMMA TypeStep == TypeOK /\ HandlerInv /\ [Next]_vars => TypeOK'
<1> SUFFICES ASSUME TypeOK, HandlerInv, [Next]_vars PROVE TypeOK'
  OBVIOUS
<1> USE SessionAssumption
<1>1. ASSUME NEW e \in Exits, ExitConnects(e) PROVE TypeOK'
  BY <1>1 DEF TypeOK, TableTypeOK, ExitConnects, ExitGoesTo
<1>2. ASSUME NEW c \in Clients, ClientConnects(c) PROVE TypeOK'
  BY <1>2 DEF TypeOK, TableTypeOK, ClientConnects, ClientGoesTo
<1>3. ASSUME NEW e \in Exits, ExitDrops(e) PROVE TypeOK'
  BY <1>3 DEF TypeOK, TableTypeOK, ExitDrops
<1>4. ASSUME NEW c \in Clients, ClientDrops(c) PROVE TypeOK'
  BY <1>4 DEF TypeOK, TableTypeOK, ClientDrops
<1>5. ASSUME NEW e \in Exits, Expire(e) PROVE TypeOK'
  BY <1>5 DEF TypeOK, TableTypeOK, Expire
<1>6. ASSUME CleanupExpired PROVE TypeOK'
  BY <1>6, RemoveType DEF TypeOK, TableTypeOK, CleanupExpired
<1>7. ASSUME NEW e \in Exits, NEW pref \in Codes \cup {None}, Register(e, pref) PROVE TypeOK'
  <2>1. PICK code \in CodesFor(pref) :
            CreateExitnodeSession(e, code) /\ SendExit(e, <<"REGISTERED", code>>)
    BY <1>7 DEF Register
  <2>2. code \in Codes
    BY <2>1 DEF CodesFor
  <2>3. toExit' \in [Exits -> Seq(ExitMsgs)]
    BY <2>1, <2>2, SendExitType DEF ExitMsgs
  <2>4. TableTypeOK'
    BY <2>1, <2>2 DEF TypeOK, TableTypeOK, CreateExitnodeSession
  <2> QED  BY <1>7, <2>3, <2>4 DEF TypeOK, Register, ExitGoesTo
<1>8. ASSUME NEW e \in Exits, ExitSent(e) PROVE TypeOK'
  BY <1>8 DEF TypeOK, TableTypeOK, ExitSent, ExitGoesTo
<1>9. ASSUME NEW e \in Exits, RelayFromExit(e) PROVE TypeOK'
  <2>1. toClient' \in [Clients -> Seq(ClientMsgs)]
    BY <1>9, SendClientType DEF RelayFromExit, ClientMsgs, TypeOK, TableTypeOK
  <2> QED  BY <1>9, <2>1 DEF TypeOK, TableTypeOK, RelayFromExit, ExitGoesTo
<1>10. ASSUME NEW e \in Exits, ExitClosesLinked(e) PROVE TypeOK'
  <2>1. toClient' \in [Clients -> Seq(ClientMsgs)]
    <3>1. CASE exitClient[e] \in clients
      <4>1. exitClient[e] \in Clients /\ exitTunnel[e] \in Tunnels
        BY <1>10, <3>1 DEF ExitClosesLinked, TypeOK, TableTypeOK
      <4>2. SendClient(exitClient[e], <<"PEER_DISCONNECTED", exitTunnel[e]>>)
        BY <1>10, <3>1 DEF ExitClosesLinked, TellClient
      <4> QED  BY <4>1, <4>2, SendClientType DEF ClientMsgs
    <3>2. CASE exitClient[e] \notin clients
      BY <1>10, <3>2 DEF ExitClosesLinked, TypeOK
    <3> QED  BY <3>1, <3>2
  <2>2. TableTypeOK'
    BY <1>10, UnlinkType DEF ExitClosesLinked, TypeOK, TableTypeOK
  <2> QED  BY <1>10, <2>1, <2>2 DEF TypeOK, ExitClosesLinked, ExitGoesTo
<1>11. ASSUME NEW e \in Exits, ExitClosesIdle(e) PROVE TypeOK'
  BY <1>11, RemoveType DEF TypeOK, TableTypeOK, ExitClosesIdle, ExitGoesTo
<1>12. ASSUME NEW e \in Exits, ExitRemoved(e) PROVE TypeOK'
  BY <1>12, RemoveType DEF TypeOK, TableTypeOK, ExitRemoved, ExitGoesTo
<1>13. ASSUME NEW c \in Clients, NEW code \in Codes, ConnectInvalid(c, code) PROVE TypeOK'
  <2>1. toClient' \in [Clients -> Seq(ClientMsgs)]
    BY <1>13, SendClientType DEF ConnectInvalid, Refuse, ClientMsgs
  <2>2. TableTypeOK'
    <3>1. KeyOf[code] \in Keys
      OBVIOUS
    <3> QED  BY <1>13, <3>1, DropType DEF ConnectInvalid, DropUnusable, TypeOK, TableTypeOK
  <2> QED  BY <1>13, <2>1, <2>2 DEF TypeOK, ConnectInvalid, Refuse, ClientGoesTo
<1>14. ASSUME NEW c \in Clients, NEW code \in Codes, ConnectBusy(c, code) PROVE TypeOK'
  <2>1. toClient' \in [Clients -> Seq(ClientMsgs)]
    BY <1>14, SendClientType DEF ConnectBusy, Refuse, ClientMsgs
  <2> QED  BY <1>14, <2>1 DEF TypeOK, TableTypeOK, ConnectBusy, Refuse, ClientGoesTo
<1>23. ASSUME NEW c \in Clients, NEW code \in Codes, ConnectUnreachable(c, code) PROVE TypeOK'
  <2>1. toClient' \in [Clients -> Seq(ClientMsgs)]
    BY <1>23, SendClientType DEF ConnectUnreachable, Refuse, ClientMsgs
  <2> QED  BY <1>23, <2>1 DEF TypeOK, TableTypeOK, ConnectUnreachable, Refuse, ClientGoesTo
<1>15. ASSUME NEW c \in Clients, NEW code \in Codes, Connect(c, code) PROVE TypeOK'
  <2> DEFINE e == codes[KeyOf[code]]
  <2>1. e \in Exits
    BY <1>15 DEF Connect, Found, TypeOK, TableTypeOK
  <2>2. PICK t \in Tunnels : /\ target' = [target EXCEPT ![c] = e]
                             /\ minted' = [minted EXCEPT ![c] = t]
                             /\ SendExit(e, <<"PEER_CONNECTING", t>>) /\ joined' = joined
    BY <1>15 DEF Connect
  <2>3. toExit' \in [Exits -> Seq(ExitMsgs)]
    BY <2>1, <2>2, SendExitType DEF ExitMsgs
  <2>4. /\ target' \in [Clients -> Exits \cup {None}]
        /\ minted' \in [Clients -> Tunnels \cup {None}]
    BY <2>1, <2>2 DEF TypeOK
  <2> HIDE DEF e
  <2> QED  BY <1>15, <2>3, <2>4 DEF TypeOK, TableTypeOK, Connect, ClientGoesTo
<1>16. ASSUME NEW c \in Clients, LinkFails(c) PROVE TypeOK'
  <2>1. toClient' \in [Clients -> Seq(ClientMsgs)]
    BY <1>16, SendClientType DEF LinkFails, Refuse, ClientMsgs
  <2> QED  BY <1>16, <2>1 DEF TypeOK, TableTypeOK, LinkFails, Refuse, ClientGoesTo
<1>17. ASSUME NEW c \in Clients, LinkSucceeds(c) PROVE TypeOK'
  <2>1. target[c] \in Exits /\ minted[c] \in Tunnels
    BY <1>17 DEF LinkSucceeds, HandlerInv, TypeOK
  <2>2. toClient' \in [Clients -> Seq(ClientMsgs)]
    BY <1>17, <2>1, SendClientType DEF LinkSucceeds, ClientMsgs
  <2>3. TableTypeOK'
    BY <1>17, <2>1 DEF LinkSucceeds, LinkSessions, TypeOK, TableTypeOK
  <2> QED  BY <1>17, <2>2, <2>3 DEF TypeOK, LinkSucceeds, ClientGoesTo
<1>18. ASSUME NEW c \in Clients, ClientSent(c) PROVE TypeOK'
  BY <1>18 DEF TypeOK, TableTypeOK, ClientSent, ClientGoesTo
<1>19. ASSUME NEW c \in Clients, RelayFromClient(c) PROVE TypeOK'
  <2>1. toExit' \in [Exits -> Seq(ExitMsgs)]
    BY <1>19, SendExitType DEF RelayFromClient, ExitMsgs, TypeOK, TableTypeOK
  <2> QED  BY <1>19, <2>1 DEF TypeOK, TableTypeOK, RelayFromClient, ClientGoesTo
<1>20. ASSUME NEW c \in Clients, ClientClosesLinked(c) PROVE TypeOK'
  <2>1. toExit' \in [Exits -> Seq(ExitMsgs)]
    BY <1>20, SendExitType DEF ClientClosesLinked, Holders, ExitMsgs, TypeOK, TableTypeOK
  <2>2. TableTypeOK'
    BY <1>20, UnlinkType DEF ClientClosesLinked, TypeOK, TableTypeOK
  <2> QED  BY <1>20, <2>1, <2>2 DEF TypeOK, ClientClosesLinked, ClientGoesTo
<1>21. ASSUME NEW c \in Clients, ClientClosesIdle(c) PROVE TypeOK'
  BY <1>21 DEF TypeOK, TableTypeOK, ClientClosesIdle, ClientGoesTo
<1>27. ASSUME NEW c \in Clients, ClientRemoved(c) PROVE TypeOK'
  BY <1>27 DEF TypeOK, TableTypeOK, ClientRemoved, ClientGoesTo
<1>22. CASE UNCHANGED vars
  BY <1>22 DEF TypeOK, TableTypeOK, vars
<1>24. ASSUME NEW e \in Exits, ExitHandler(e) PROVE TypeOK'
  BY <1>7, <1>8, <1>9, <1>10, <1>11, <1>12, <1>24 DEF ExitHandler
<1>25. ASSUME NEW c \in Clients, ClientHandler(c) PROVE TypeOK'
  BY <1>13, <1>14, <1>15, <1>16, <1>17, <1>18, <1>19, <1>20, <1>21, <1>23, <1>25, <1>27
     DEF ClientHandler
<1>26. CASE Environment
  BY <1>1, <1>2, <1>3, <1>4, <1>5, <1>26 DEF Environment
<1> QED
  BY <1>6, <1>22, <1>24, <1>25, <1>26 DEF Next

(***************************************************************************)
(* Links                                                                   *)
(***************************************************************************)

\* In a state of the invariant a tunnel id is held by one exit node at most.
LEMMA OneHolder ==
    ASSUME TypeOK, LinkInv, NEW e \in exitnodes, exitTunnel[e] # None,
           NEW x \in Holders(exitTunnel[e])
    PROVE  x = e
<1>1. e \in Exits /\ x \in Exits /\ x \in exitnodes /\ exitTunnel[x] = exitTunnel[e]
  BY DEF TypeOK, TableTypeOK, Holders
<1>2. exitClient[e] \in Clients /\ exitClient[x] \in Clients
  BY <1>1 DEF LinkInv, HalfLinkInv, TypeOK, TableTypeOK
<1>3. exitClient[e] # None /\ exitClient[x] # None
  BY <1>1 DEF LinkInv, HalfLinkInv
<1>4. /\ clientTunnel[exitClient[e]] = exitTunnel[e] /\ clientExit[exitClient[e]] = e
      /\ clientTunnel[exitClient[x]] = exitTunnel[e] /\ clientExit[exitClient[x]] = x
  BY <1>1, <1>3 DEF LinkInv, LinkAgreement
<1>5. exitClient[e] = exitClient[x]
  BY <1>2, <1>4 DEF LinkInv, MintedInv
<1> QED  BY <1>4, <1>5

\* Unlinking the tunnel of a linked exit node resets it and its client, and
\* touches no other session.
LEMMA UnlinkExact ==
    ASSUME TypeOK, LinkInv, NEW e \in exitnodes, exitTunnel[e] # None,
           UnlinkSessions(exitTunnel[e])
    PROVE  /\ exitClient' = [exitClient EXCEPT ![e] = None]
           /\ exitTunnel' = [exitTunnel EXCEPT ![e] = None]
           /\ clientExit' = [clientExit EXCEPT ![exitClient[e]] = None]
           /\ clientTunnel' = [clientTunnel EXCEPT ![exitClient[e]] = None]
<1>1. e \in Exits
  BY DEF TypeOK, TableTypeOK
<1>2. Holders(exitTunnel[e]) = {e}
  BY OneHolder DEF Holders
<1>3. exitClient[e] # None
  BY <1>1 DEF LinkInv, HalfLinkInv
<1>4. exitClient[e] \in clients /\ exitClient[e] \in Clients
  BY <1>3 DEF LinkInv, LinkAgreement, TypeOK, TableTypeOK
<1>5. {exitClient[x] : x \in Holders(exitTunnel[e])} \cap clients = {exitClient[e]}
  BY <1>2, <1>4
<1> QED  BY <1>1, <1>2, <1>4, <1>5 DEF UnlinkSessions, TypeOK, TableTypeOK

\* Removing exit-node sessions from the table disturbs no link between two
\* sessions that stay.
LEMMA RemoveKeepsLinks ==
    ASSUME TypeOK, LinkInv, exitnodes' \subseteq exitnodes, UNCHANGED <<linkVars, clients>>
    PROVE  LinkAgreement'
BY DEF LinkInv, LinkAgreement

\* A lookup that finds nothing it can use removes the session its code named, if that
\* was there, and no other.
LEMMA DropRemoves ==
    ASSUME NEW k, DropUnusable(k)
    PROVE  exitnodes \ {codes[k]} \subseteq exitnodes' /\ exitnodes' \subseteq exitnodes
BY DEF DropUnusable, RemoveExitnodeSessions

LEMMA LinkStep == TypeOK /\ LinkInv /\ [Next]_vars => LinkInv'
<1> SUFFICES ASSUME TypeOK, LinkInv, [Next]_vars PROVE LinkInv'
  OBVIOUS
<1> USE SessionAssumption
<1>1. ASSUME NEW e \in Exits, ExitConnects(e) PROVE LinkInv'
  BY <1>1 DEF LinkInv, HandlerInv, MintedInv, HalfLinkInv, LinkAgreement, TypeOK, TableTypeOK,
              ExitConnects, ExitGoesTo
<1>2. ASSUME NEW c \in Clients, ClientConnects(c) PROVE LinkInv'
  <2>1. c \notin clients /\ clientExit[c] = None
    BY <1>2 DEF ClientConnects, LinkInv, HandlerInv
  <2>2. HandlerInv'
    BY <1>2, <2>1 DEF ClientConnects, ClientGoesTo, LinkInv, HandlerInv, TypeOK, TableTypeOK
  <2>3. LinkAgreement'
    BY <1>2, <2>1 DEF ClientConnects, LinkInv, LinkAgreement, TypeOK, TableTypeOK
  <2> QED  BY <1>2, <2>2, <2>3 DEF ClientConnects, LinkInv, MintedInv, HalfLinkInv
<1>3. ASSUME NEW e \in Exits, ExitDrops(e) PROVE LinkInv'
  BY <1>3 DEF LinkInv, HandlerInv, MintedInv, HalfLinkInv, LinkAgreement, ExitDrops
<1>4. ASSUME NEW c \in Clients, ClientDrops(c) PROVE LinkInv'
  BY <1>4 DEF LinkInv, HandlerInv, MintedInv, HalfLinkInv, LinkAgreement, ClientDrops
<1>5. ASSUME NEW e \in Exits, Expire(e) PROVE LinkInv'
  BY <1>5 DEF LinkInv, HandlerInv, MintedInv, HalfLinkInv, LinkAgreement, Expire
<1>6. ASSUME CleanupExpired PROVE LinkInv'
  <2>1. LinkAgreement'
    BY <1>6, RemoveKeepsLinks DEF CleanupExpired, RemoveExitnodeSessions
  <2> QED  BY <1>6, <2>1 DEF CleanupExpired, RemoveExitnodeSessions, LinkInv, HandlerInv,
                             MintedInv, HalfLinkInv
<1>7. ASSUME NEW e \in Exits, NEW pref \in Codes \cup {None}, Register(e, pref) PROVE LinkInv'
  <2>1. exitnodes' = exitnodes \cup {e} /\ UNCHANGED <<linkVars, clients, attemptVars>>
    BY <1>7 DEF Register, CreateExitnodeSession
  <2>2. exitClient[e] = None /\ exitTunnel[e] = None
    BY <1>7 DEF Register, LinkInv, HandlerInv
  <2>3. \A c \in clients : clientExit[c] # e
    BY <1>7 DEF Register, LinkInv, HandlerInv, TypeOK, TableTypeOK
  <2>4. HandlerInv'
    BY <1>7, <2>1 DEF Register, ExitGoesTo, LinkInv, HandlerInv, TypeOK
  <2>5. LinkAgreement'
    BY <2>1, <2>2, <2>3 DEF LinkInv, LinkAgreement
  <2> QED  BY <2>1, <2>4, <2>5 DEF LinkInv, MintedInv, HalfLinkInv
<1>8. ASSUME NEW e \in Exits, ExitSent(e) PROVE LinkInv'
  BY <1>8 DEF LinkInv, HandlerInv, MintedInv, HalfLinkInv, LinkAgreement, TypeOK, TableTypeOK,
              ExitSent, ExitGoesTo
<1>9. ASSUME NEW e \in Exits, RelayFromExit(e) PROVE LinkInv'
  BY <1>9 DEF LinkInv, HandlerInv, MintedInv, HalfLinkInv, LinkAgreement, TypeOK, TableTypeOK,
              RelayFromExit, ExitGoesTo
<1>10. ASSUME NEW e \in Exits, ExitClosesLinked(e) PROVE LinkInv'
  <2>1. /\ e \in exitnodes /\ exitTunnel[e] # None /\ exitClient[e] # None
        /\ UnlinkSessions(exitTunnel[e])
        /\ UNCHANGED <<exitnodes, clients, clientPc, attemptVars>>
        /\ exitPc' = [exitPc EXCEPT ![e] = "closing"]
    BY <1>10 DEF ExitClosesLinked, ExitGoesTo, LinkInv, HalfLinkInv
  <2>2. exitClient[e] \in Clients /\ exitClient[e] \in clients
    BY <2>1 DEF LinkInv, LinkAgreement, TypeOK, TableTypeOK
  <2>3. /\ exitClient' = [exitClient EXCEPT ![e] = None]
        /\ exitTunnel' = [exitTunnel EXCEPT ![e] = None]
        /\ clientExit' = [clientExit EXCEPT ![exitClient[e]] = None]
        /\ clientTunnel' = [clientTunnel EXCEPT ![exitClient[e]] = None]
    BY <2>1, UnlinkExact
  <2>4. HandlerInv'
    BY <2>1, <2>2, <2>3 DEF LinkInv, HandlerInv, TypeOK, TableTypeOK
  <2>5. MintedInv' /\ HalfLinkInv'
    BY <2>1, <2>2, <2>3 DEF LinkInv, MintedInv, HalfLinkInv, TypeOK, TableTypeOK
  <2>6. LinkAgreement'
    BY <2>1, <2>2, <2>3 DEF LinkInv, LinkAgreement, TypeOK, TableTypeOK
  <2> QED  BY <2>4, <2>5, <2>6 DEF LinkInv
<1>11. ASSUME NEW e \in Exits, ExitClosesIdle(e) PROVE LinkInv'
  <2>1. LinkAgreement'
    BY <1>11, RemoveKeepsLinks DEF ExitClosesIdle, RemoveExitnodeSessions
  <2>2. HandlerInv'
    BY <1>11 DEF ExitClosesIdle, RemoveExitnodeSessions, ExitGoesTo, LinkInv, HandlerInv,
                 TypeOK, TableTypeOK
  <2> QED  BY <1>11, <2>1, <2>2 DEF ExitClosesIdle, LinkInv, MintedInv, HalfLinkInv
<1>12. ASSUME NEW e \in Exits, ExitRemoved(e) PROVE LinkInv'
  <2>1. LinkAgreement'
    BY <1>12, RemoveKeepsLinks DEF ExitRemoved, RemoveExitnodeSessions
  <2>2. HandlerInv'
    BY <1>12 DEF ExitRemoved, RemoveExitnodeSessions, ExitGoesTo, LinkInv, HandlerInv,
                 TypeOK, TableTypeOK
  <2> QED  BY <1>12, <2>1, <2>2 DEF ExitRemoved, LinkInv, MintedInv, HalfLinkInv
<1>13. ASSUME NEW c \in Clients, NEW code \in Codes, ConnectInvalid(c, code) PROVE LinkInv'
  <2>1. LinkAgreement'
    BY <1>13, DropRemoves, RemoveKeepsLinks DEF ConnectInvalid, DropUnusable
  <2>2. HandlerInv'
    <3>1. exitnodes' \subseteq exitnodes /\ UNCHANGED <<linkVars, clients, attemptVars>>
      BY <1>13, DropRemoves DEF ConnectInvalid, DropUnusable
    <3> QED  BY <1>13, <3>1 DEF ConnectInvalid, Refuse, ClientGoesTo, LinkInv, HandlerInv,
                                TypeOK, TableTypeOK
  <2> QED  BY <1>13, <2>1, <2>2 DEF ConnectInvalid, DropUnusable, LinkInv, MintedInv, HalfLinkInv
<1>14. ASSUME NEW c \in Clients, NEW code \in Codes, ConnectBusy(c, code) PROVE LinkInv'
  BY <1>14 DEF ConnectBusy, Refuse, ClientGoesTo, LinkInv, HandlerInv, MintedInv, HalfLinkInv,
               LinkAgreement, TypeOK, TableTypeOK
<1>15. ASSUME NEW c \in Clients, NEW code \in Codes, ConnectUnreachable(c, code) PROVE LinkInv'
  BY <1>15 DEF ConnectUnreachable, Refuse, ClientGoesTo, LinkInv, HandlerInv, MintedInv,
               HalfLinkInv, LinkAgreement, TypeOK, TableTypeOK
<1>16. ASSUME NEW c \in Clients, NEW code \in Codes, Connect(c, code) PROVE LinkInv'
  <2> DEFINE e == codes[KeyOf[code]]
  <2>1. PICK t \in Tunnels : /\ \A d \in Clients : minted[d] # t
                             /\ target' = [target EXCEPT ![c] = e]
                             /\ minted' = [minted EXCEPT ![c] = t]
    BY <1>16 DEF Connect
  <2>2. /\ e \in Exits /\ t # None
        /\ clientPc[c] = "fresh" /\ clientPc' = [clientPc EXCEPT ![c] = "notifying"]
        /\ UNCHANGED <<exitPc, tableVars>>
    BY <1>16 DEF Connect, ClientGoesTo, Found, TypeOK, TableTypeOK
  <2> HIDE DEF e
  <2>3. clientExit[c] = None /\ clientTunnel[c] = None
    BY <2>2 DEF LinkInv, HandlerInv, MintedInv
  <2>4. HandlerInv'
    BY <2>1, <2>2 DEF LinkInv, HandlerInv, TypeOK, TableTypeOK
  <2>5. MintedInv'
    BY <2>1, <2>2, <2>3 DEF LinkInv, MintedInv, TypeOK, TableTypeOK
  <2>6. HalfLinkInv' /\ LinkAgreement'
    BY <2>2 DEF LinkInv, HalfLinkInv, LinkAgreement
  <2> QED  BY <2>4, <2>5, <2>6 DEF LinkInv
<1>17. ASSUME NEW c \in Clients, LinkSucceeds(c) PROVE LinkInv'
  <2> DEFINE e == target[c]
  <2>1. /\ clientPc[c] = "notifying" /\ clientPc' = [clientPc EXCEPT ![c] = "sending"]
        /\ e \in exitnodes /\ c \in clients /\ exitClient[e] = None
        /\ exitClient' = [exitClient EXCEPT ![e] = c]
        /\ exitTunnel' = [exitTunnel EXCEPT ![e] = minted[c]]
        /\ clientExit' = [clientExit EXCEPT ![c] = e]
        /\ clientTunnel' = [clientTunnel EXCEPT ![c] = minted[c]]
        /\ UNCHANGED <<exitPc, exitnodes, clients, target, minted>>
    BY <1>17 DEF LinkSucceeds, CanLink, IsAvailable, LinkSessions, ClientGoesTo
  <2>2. e \in Exits /\ minted[c] \in Tunnels /\ minted[c] # None /\ clientExit[c] = None
    BY <2>1 DEF LinkInv, HandlerInv, TypeOK, TableTypeOK
  <2> HIDE DEF e
  <2>3. \A d \in clients : clientExit[d] # e
    BY <2>1, <2>2 DEF LinkInv, LinkAgreement, TypeOK, TableTypeOK
  <2>4. ASSUME NEW x \in exitnodes, exitClient[x] = c PROVE FALSE
    <3>1. c # None /\ x # None
      BY DEF TypeOK, TableTypeOK
    <3>2. clientExit[c] = x
      BY <2>4, <3>1 DEF LinkInv, LinkAgreement
    <3> QED  BY <2>2, <3>1, <3>2
  <2>5. HandlerInv'
    BY <2>1, <2>2 DEF LinkInv, HandlerInv, TypeOK, TableTypeOK
  <2>6. MintedInv' /\ HalfLinkInv'
    BY <2>1, <2>2 DEF LinkInv, MintedInv, HalfLinkInv, TypeOK, TableTypeOK
  <2>7. LinkAgreement'
    BY <2>1, <2>2, <2>3, <2>4 DEF LinkInv, LinkAgreement, TypeOK, TableTypeOK
  <2> QED  BY <2>5, <2>6, <2>7 DEF LinkInv
<1>18. ASSUME NEW c \in Clients, LinkFails(c) PROVE LinkInv'
  BY <1>18 DEF LinkFails, Refuse, ClientGoesTo, LinkInv, HandlerInv, MintedInv, HalfLinkInv,
               LinkAgreement, TypeOK, TableTypeOK
<1>19. ASSUME NEW c \in Clients, ClientSent(c) PROVE LinkInv'
  BY <1>19 DEF ClientSent, ClientGoesTo, LinkInv, HandlerInv, MintedInv, HalfLinkInv,
               LinkAgreement, TypeOK, TableTypeOK
<1>20. ASSUME NEW c \in Clients, RelayFromClient(c) PROVE LinkInv'
  BY <1>20 DEF RelayFromClient, ClientGoesTo, LinkInv, HandlerInv, MintedInv, HalfLinkInv,
               LinkAgreement, TypeOK, TableTypeOK
<1>21. ASSUME NEW c \in Clients, ClientClosesLinked(c) PROVE LinkInv'
  <2>1. PICK e \in exitnodes : exitTunnel[e] = clientTunnel[c]
    BY <1>21 DEF ClientClosesLinked, Holders
  <2>2. /\ clientTunnel[c] # None /\ exitTunnel[e] # None
        /\ UnlinkSessions(exitTunnel[e])
        /\ clientPc[c] \in {"fresh", "serving"}
        /\ clientPc' = [clientPc EXCEPT ![c] = "closing"]
        /\ UNCHANGED <<exitnodes, clients, exitPc, attemptVars>>
    BY <1>21, <2>1 DEF ClientClosesLinked, ClientGoesTo
  <2>3. /\ e \in Exits /\ exitClient[e] # None
        /\ exitClient[e] \in clients /\ exitClient[e] \in Clients
        /\ clientTunnel[exitClient[e]] = exitTunnel[e]
    BY <2>1, <2>2 DEF LinkInv, HalfLinkInv, LinkAgreement, TypeOK, TableTypeOK
  <2>4. exitClient[e] = c
    BY <2>1, <2>2, <2>3 DEF LinkInv, MintedInv
  <2>5. /\ exitClient' = [exitClient EXCEPT ![e] = None]
        /\ exitTunnel' = [exitTunnel EXCEPT ![e] = None]
        /\ clientExit' = [clientExit EXCEPT ![c] = None]
        /\ clientTunnel' = [clientTunnel EXCEPT ![c] = None]
    BY <2>2, <2>4, UnlinkExact
  <2>6. HandlerInv'
    BY <2>2, <2>3, <2>5 DEF LinkInv, HandlerInv, TypeOK, TableTypeOK
  <2>7. MintedInv' /\ HalfLinkInv'
    BY <2>2, <2>3, <2>5 DEF LinkInv, MintedInv, HalfLinkInv, TypeOK, TableTypeOK
  <2>8. LinkAgreement'
    BY <2>2, <2>3, <2>4, <2>5 DEF LinkInv, LinkAgreement, TypeOK, TableTypeOK
  <2> QED  BY <2>6, <2>7, <2>8 DEF LinkInv
<1>22. ASSUME NEW c \in Clients, ClientClosesIdle(c) PROVE LinkInv'
  <2>1. \A e \in exitnodes : exitClient[e] # c
    <3>1. c \in clients /\ clients \subseteq Clients
      BY <1>22 DEF ClientClosesIdle, LinkInv, HandlerInv, TypeOK, TableTypeOK
    <3> SUFFICES ASSUME NEW e \in exitnodes, exitClient[e] = c PROVE FALSE
      OBVIOUS
    <3>2. clientTunnel[c] = exitTunnel[e] /\ clientTunnel[c] # None
      BY <3>1 DEF LinkInv, LinkAgreement, HalfLinkInv, TypeOK, TableTypeOK
    <3> QED  BY <1>22, <3>2 DEF ClientClosesIdle, Holders
  <2>2. HandlerInv'
    BY <1>22 DEF ClientClosesIdle, ClientGoesTo, LinkInv, HandlerInv, TypeOK, TableTypeOK
  <2>3. LinkAgreement'
    BY <1>22, <2>1 DEF ClientClosesIdle, LinkInv, LinkAgreement
  <2> QED  BY <1>22, <2>2, <2>3 DEF ClientClosesIdle, LinkInv, MintedInv, HalfLinkInv
<1>23. ASSUME NEW c \in Clients, ClientRemoved(c) PROVE LinkInv'
  <2>1. ASSUME NEW e \in exitnodes, exitClient[e] = c PROVE FALSE
    <3>1. c # None /\ e # None
      BY DEF TypeOK, TableTypeOK
    <3>2. clientExit[c] = e
      BY <2>1, <3>1 DEF LinkInv, LinkAgreement
    <3>3. clientExit[c] = None
      BY <1>23 DEF ClientRemoved, LinkInv, HandlerInv
    <3> QED  BY <3>1, <3>2, <3>3
  <2>2. HandlerInv'
    BY <1>23 DEF ClientRemoved, ClientGoesTo, LinkInv, HandlerInv, TypeOK, TableTypeOK
  <2>3. LinkAgreement'
    BY <1>23, <2>1 DEF ClientRemoved, LinkInv, LinkAgreement
  <2> QED  BY <1>23, <2>2, <2>3 DEF ClientRemoved, LinkInv, MintedInv, HalfLinkInv
<1>24. CASE UNCHANGED vars
  BY <1>24 DEF vars, LinkInv, HandlerInv, MintedInv, HalfLinkInv, LinkAgreement
<1>25. ASSUME NEW e \in Exits, ExitHandler(e) PROVE LinkInv'
  BY <1>7, <1>8, <1>9, <1>10, <1>11, <1>12, <1>25 DEF ExitHandler
<1>26. ASSUME NEW c \in Clients, ClientHandler(c) PROVE LinkInv'
  BY <1>13, <1>14, <1>15, <1>16, <1>17, <1>18, <1>19, <1>20, <1>21, <1>22, <1>23, <1>26
     DEF ClientHandler
<1>27. CASE Environment
  BY <1>1, <1>2, <1>3, <1>4, <1>5, <1>27 DEF Environment
<1> QED
  BY <1>6, <1>24, <1>25, <1>26, <1>27 DEF Next

\* The invariant holds of the initial states.
LEMMA LinkInit == Init => TypeOK /\ LinkInv
<1> SUFFICES ASSUME Init PROVE TypeOK /\ LinkInv
  OBVIOUS
<1>1. TypeOK
  BY EmptySeq DEF Init, TableInit, TypeOK, TableTypeOK
<1>2. LinkInv
  BY SessionAssumption
     DEF Init, TableInit, LinkInv, HandlerInv, MintedInv, HalfLinkInv, LinkAgreement
<1> QED  BY <1>1, <1>2

\* Every variable of the relay, its tables, handlers and wires, keeps its type
\* (relay/session.py:62-113), whichever handlers are suspended.
THEOREM TypeCorrect == Spec => []TypeOK
<1>1. TypeOK /\ LinkInv /\ [Next]_vars => (TypeOK /\ LinkInv)'
  BY TypeStep, LinkStep DEF LinkInv
<1> QED  BY <1>1, LinkInit, PTL DEF Spec

\* What is true of links, handlers and tunnel ids in every reachable state.
LEMMA LinkInvariant == Spec => [](TypeOK /\ LinkInv)
<1>1. TypeOK /\ LinkInv /\ [Next]_vars => (TypeOK /\ LinkInv)'
  BY TypeStep, LinkStep DEF LinkInv
<1> QED  BY <1>1, LinkInit, PTL DEF Spec

\* Both ends of every link agree on each other and on the tunnel, across every
\* suspension of the broker's coroutines (relay/session.py:233-291).
THEOREM LinksAgree == Spec => []LinkAgreement
<1>1. LinkInv => LinkAgreement
  BY DEF LinkInv
<1> QED  BY <1>1, LinkInvariant, PTL

(***************************************************************************)
(* Codes                                                                   *)
(***************************************************************************)

CodeInv == CodeTableSound /\ \A e \in exitnodes : exitCode[e] \in Codes

\* The steps that change neither the sessions nor the codes.
LEMMA CodesUntouched ==
    ASSUME CodeInv, UNCHANGED <<exitnodes, exitCode, codes>>
    PROVE  CodeInv'
BY DEF CodeInv, CodeTableSound

\* Removing sessions takes their codes with them.
LEMMA RemoveKeepsCodes ==
    ASSUME TypeOK, CodeInv, NEW S, RemoveExitnodeSessions(S), UNCHANGED exitCode
    PROVE  CodeInv'
<1>1. ASSUME NEW k \in Keys, codes'[k] # None
      PROVE  codes'[k] = codes[k] /\ codes[k] \in exitnodes' /\ KeyOf[exitCode[codes[k]]] = k
  <2>1. /\ codes'[k] = codes[k]
        /\ ~ \E e \in S \cap exitnodes : KeyOf[exitCode[e]] = k
    BY <1>1 DEF RemoveExitnodeSessions
  <2>2. codes[k] \in exitnodes /\ KeyOf[exitCode[codes[k]]] = k
    BY <1>1, <2>1 DEF CodeInv, CodeTableSound
  <2> QED  BY <2>1, <2>2 DEF RemoveExitnodeSessions
<1>2. \A e \in exitnodes' : exitCode[e] \in Codes
  BY DEF CodeInv, RemoveExitnodeSessions
<1> QED  BY <1>1, <1>2, SessionAssumption DEF CodeInv, CodeTableSound, TypeOK, TableTypeOK

\* A registration enters its session and its code together.
LEMMA RegisterKeepsCodes ==
    ASSUME TypeOK, CodeInv, NEW e \in Exits, e \notin exitnodes, NEW code \in Codes,
           CreateExitnodeSession(e, code)
    PROVE  CodeInv'
<1> USE SessionAssumption
<1>1. KeyOf[code] \in Keys /\ e # None /\ code # None
  OBVIOUS
<1>2. /\ exitnodes' = exitnodes \cup {e}
      /\ exitCode' = [exitCode EXCEPT ![e] = code]
      /\ codes' = [codes EXCEPT ![KeyOf[code]] = e]
  BY DEF CreateExitnodeSession
<1>3. exitCode'[e] = code /\ \A x \in exitnodes : exitCode'[x] = exitCode[x]
  BY <1>2 DEF TypeOK, TableTypeOK
<1>4. ASSUME NEW k \in Keys, codes'[k] # None
      PROVE  /\ codes'[k] \in exitnodes' /\ exitCode'[codes'[k]] # None
             /\ KeyOf[exitCode'[codes'[k]]] = k
  <2>1. CASE k = KeyOf[code]
    BY <1>1, <1>2, <1>3, <2>1 DEF TypeOK, TableTypeOK
  <2>2. CASE k # KeyOf[code]
    <3>1. codes'[k] = codes[k]
      BY <1>2, <2>2 DEF TypeOK, TableTypeOK
    <3> QED  BY <1>2, <1>3, <1>4, <3>1 DEF CodeInv, CodeTableSound
  <2> QED  BY <2>1, <2>2
<1>5. \A x \in exitnodes' : exitCode'[x] \in Codes
  BY <1>2, <1>3 DEF CodeInv
<1> QED  BY <1>4, <1>5 DEF CodeInv, CodeTableSound

\* A lookup that finds nothing removes a session or, as no code is an orphan, does nothing.
LEMMA DropIsRemoval ==
    ASSUME TypeOK, CodeInv, NEW k \in Keys, DropUnusable(k)
    PROVE  /\ UNCHANGED exitCode
           /\ RemoveExitnodeSessions({codes[k]}) \/ UNCHANGED <<exitnodes, codes>>
<1>1. CASE codes[k] \in exitnodes
  BY <1>1 DEF DropUnusable
<1>2. CASE codes[k] \notin exitnodes
  <2>1. codes[k] = None /\ codes' = [codes EXCEPT ![k] = None]
    BY <1>2 DEF DropUnusable, CodeInv, CodeTableSound
  <2>2. codes' = codes
    BY <2>1 DEF TypeOK, TableTypeOK
  <2> QED  BY <1>2, <2>2 DEF DropUnusable
<1> QED  BY <1>1, <1>2

LEMMA CodeStep == TypeOK /\ LinkInv /\ CodeInv /\ [Next]_vars => CodeInv'
<1> SUFFICES ASSUME TypeOK, LinkInv, CodeInv, [Next]_vars PROVE CodeInv'
  OBVIOUS
<1>1. ASSUME NEW e \in Exits, ExitHandler(e) PROVE CodeInv'
  <2>1. ASSUME NEW pref \in Codes \cup {None}, Register(e, pref) PROVE CodeInv'
    <3>1. PICK code \in CodesFor(pref) : CreateExitnodeSession(e, code)
      BY <2>1 DEF Register
    <3>2. code \in Codes
      BY SessionAssumption DEF CodesFor
    <3>3. e \notin exitnodes
      BY <2>1 DEF Register, LinkInv, HandlerInv
    <3> QED  BY <3>1, <3>2, <3>3, RegisterKeepsCodes
  <2>2. CASE ExitSent(e) \/ RelayFromExit(e) \/ ExitClosesLinked(e)
    BY <2>2, CodesUntouched DEF ExitSent, RelayFromExit, ExitClosesLinked
  <2>3. CASE ExitClosesIdle(e) \/ ExitRemoved(e)
    BY <2>3, RemoveKeepsCodes DEF ExitClosesIdle, ExitRemoved
  <2> QED  BY <1>1, <2>1, <2>2, <2>3 DEF ExitHandler
<1>2. ASSUME NEW c \in Clients, ClientHandler(c) PROVE CodeInv'
  <2>1. ASSUME NEW code \in Codes, ConnectInvalid(c, code) PROVE CodeInv'
    <3>1. KeyOf[code] \in Keys /\ DropUnusable(KeyOf[code])
      BY <2>1, SessionAssumption DEF ConnectInvalid
    <3> QED  BY <3>1, DropIsRemoval, RemoveKeepsCodes, CodesUntouched
  <2>2. ASSUME NEW code \in Codes,
               ConnectBusy(c, code) \/ ConnectUnreachable(c, code) \/ Connect(c, code)
        PROVE  CodeInv'
    BY <2>2, CodesUntouched DEF ConnectBusy, ConnectUnreachable, Connect
  <2>3. CASE LinkSucceeds(c) \/ LinkFails(c) \/ ClientSent(c) \/ RelayFromClient(c)
    BY <2>3, CodesUntouched DEF LinkSucceeds, LinkFails, ClientSent, RelayFromClient
  <2>4. CASE ClientClosesLinked(c) \/ ClientClosesIdle(c) \/ ClientRemoved(c)
    BY <2>4, CodesUntouched DEF ClientClosesLinked, ClientClosesIdle, ClientRemoved
  <2> QED  BY <1>2, <2>1, <2>2, <2>3, <2>4 DEF ClientHandler
<1>3. CASE CleanupExpired
  BY <1>3, RemoveKeepsCodes DEF CleanupExpired
<1>4. CASE Environment
  BY <1>4, CodesUntouched
     DEF Environment, ExitConnects, ExitDrops, Expire, ClientConnects, ClientDrops
<1>5. CASE UNCHANGED vars
  BY <1>5, CodesUntouched DEF vars
<1> QED  BY <1>1, <1>2, <1>3, <1>4, <1>5 DEF Next

LEMMA CodeInvariant == Spec => []CodeInv
<1>1. Init => CodeInv
  BY SessionAssumption DEF Init, TableInit, CodeInv, CodeTableSound
<1> QED  BY <1>1, CodeStep, LinkInvariant, PTL DEF Spec

\* No code ever names a session that has left the table: the orphan branch of
\* get_exitnode_by_code (relay/session.py:195-198) is never taken.
THEOREM CodesAreSound == Spec => []CodeTableSound
<1>1. CodeInv => CodeTableSound
  BY DEF CodeInv
<1> QED  BY <1>1, CodeInvariant, PTL

\* A code that may be given to a new session is no session's code yet.
LEMMA GivenCodeIsFree ==
    ASSUME TypeOK, GeneratedAreKeys, NEW pref \in Codes \cup {None}, NEW code \in CodesFor(pref)
    PROVE  code \in Codes /\ KeyOf[code] \in Keys /\ codes[KeyOf[code]] = None
BY SessionAssumption DEF CodesFor, PreferredIsFree, DrawnIsFree, GeneratedAreKeys

LEMMA ReachStep ==
    ASSUME TypeOK, LinkInv, CodeInv, GeneratedAreKeys, RegisteredIsReachable, [Next]_vars
    PROVE  RegisteredIsReachable'
<1>1. ASSUME NEW S, RemoveExitnodeSessions(S), UNCHANGED exitCode
      PROVE  RegisteredIsReachable'
  <2> SUFFICES ASSUME NEW e \in exitnodes' PROVE codes'[KeyOf[exitCode[e]]] = e
    BY <1>1 DEF RegisteredIsReachable
  <2>1. e \in exitnodes /\ e \notin S /\ e \in Exits
    BY <1>1 DEF RemoveExitnodeSessions, TypeOK, TableTypeOK
  <2>2. KeyOf[exitCode[e]] \in Keys
    BY <2>1, SessionAssumption DEF CodeInv
  <2>3. codes[KeyOf[exitCode[e]]] = e
    BY <2>1 DEF RegisteredIsReachable
  <2>4. ASSUME NEW x \in S \cap exitnodes, KeyOf[exitCode[x]] = KeyOf[exitCode[e]] PROVE FALSE
    BY <2>1, <2>3, <2>4 DEF RegisteredIsReachable
  <2> QED  BY <1>1, <2>2, <2>3, <2>4 DEF RemoveExitnodeSessions
<1>2. ASSUME UNCHANGED <<exitnodes, exitCode, codes>> PROVE RegisteredIsReachable'
  BY <1>2 DEF RegisteredIsReachable
<1>3. ASSUME NEW e \in Exits, ExitHandler(e) PROVE RegisteredIsReachable'
  <2>1. ASSUME NEW pref \in Codes \cup {None}, Register(e, pref) PROVE RegisteredIsReachable'
    <3>1. PICK code \in CodesFor(pref) : CreateExitnodeSession(e, code)
      BY <2>1 DEF Register
    <3>2. code \in Codes /\ KeyOf[code] \in Keys /\ codes[KeyOf[code]] = None
      BY GivenCodeIsFree
    <3>3. e \notin exitnodes
      BY <2>1 DEF Register, LinkInv, HandlerInv
    <3>4. /\ exitnodes' = exitnodes \cup {e}
          /\ exitCode' = [exitCode EXCEPT ![e] = code]
          /\ codes' = [codes EXCEPT ![KeyOf[code]] = e]
      BY <3>1 DEF CreateExitnodeSession
    <3>5. codes'[KeyOf[exitCode'[e]]] = e
      BY <3>2, <3>4 DEF TypeOK, TableTypeOK
    <3>6. ASSUME NEW x \in exitnodes PROVE codes'[KeyOf[exitCode'[x]]] = x
      <4>1. x # None /\ x # e /\ x \in Exits
        BY <3>3, SessionAssumption DEF TypeOK, TableTypeOK
      <4>2. codes[KeyOf[exitCode[x]]] = x /\ KeyOf[exitCode[x]] \in Keys
        BY SessionAssumption DEF RegisteredIsReachable, CodeInv
      <4>3. KeyOf[exitCode[x]] # KeyOf[code]
        BY <3>2, <4>1, <4>2
      <4> QED  BY <3>4, <4>1, <4>2, <4>3 DEF TypeOK, TableTypeOK
    <3> QED  BY <3>4, <3>5, <3>6 DEF RegisteredIsReachable
  <2>2. CASE ExitSent(e) \/ RelayFromExit(e) \/ ExitClosesLinked(e)
    BY <1>2, <2>2 DEF ExitSent, RelayFromExit, ExitClosesLinked
  <2>3. CASE ExitClosesIdle(e) \/ ExitRemoved(e)
    BY <1>1, <2>3 DEF ExitClosesIdle, ExitRemoved
  <2> QED  BY <1>3, <2>1, <2>2, <2>3 DEF ExitHandler
<1>4. ASSUME NEW c \in Clients, ClientHandler(c) PROVE RegisteredIsReachable'
  <2>1. ASSUME NEW code \in Codes, ConnectInvalid(c, code) PROVE RegisteredIsReachable'
    <3>1. KeyOf[code] \in Keys /\ DropUnusable(KeyOf[code])
      BY <2>1, SessionAssumption DEF ConnectInvalid
    <3> QED  BY <1>1, <1>2, <3>1, DropIsRemoval
  <2>2. ASSUME NEW code \in Codes,
               ConnectBusy(c, code) \/ ConnectUnreachable(c, code) \/ Connect(c, code)
        PROVE  RegisteredIsReachable'
    BY <1>2, <2>2 DEF ConnectBusy, ConnectUnreachable, Connect
  <2>3. CASE LinkSucceeds(c) \/ LinkFails(c) \/ ClientSent(c) \/ RelayFromClient(c)
    BY <1>2, <2>3 DEF LinkSucceeds, LinkFails, ClientSent, RelayFromClient
  <2>4. CASE ClientClosesLinked(c) \/ ClientClosesIdle(c) \/ ClientRemoved(c)
    BY <1>2, <2>4 DEF ClientClosesLinked, ClientClosesIdle, ClientRemoved
  <2> QED  BY <1>4, <2>1, <2>2, <2>3, <2>4 DEF ClientHandler
<1>5. CASE CleanupExpired
  BY <1>1, <1>5 DEF CleanupExpired
<1>6. CASE Environment
  BY <1>2, <1>6
     DEF Environment, ExitConnects, ExitDrops, Expire, ClientConnects, ClientDrops
<1>7. CASE UNCHANGED vars
  BY <1>2, <1>7 DEF vars
<1> QED  BY <1>3, <1>4, <1>5, <1>6, <1>7 DEF Next

\* If generated codes were their own keys, every registered exit node could be
\* reached by its code for as long as it is registered: _generate_unique_code
\* (relay/session.py:293-299) would then compare like with like.
THEOREM CodesReachTheirSessions == GeneratedAreKeys => (Spec => []RegisteredIsReachable)
<1> SUFFICES ASSUME GeneratedAreKeys PROVE Spec => []RegisteredIsReachable
  OBVIOUS
<1>1. Init => RegisteredIsReachable
  BY DEF Init, TableInit, RegisteredIsReachable
<1>2. TypeOK /\ LinkInv /\ CodeInv /\ RegisteredIsReachable /\ [Next]_vars
          => RegisteredIsReachable'
  BY ReachStep
<1> QED  BY <1>1, <1>2, LinkInvariant, CodeInvariant, PTL DEF Spec

(***************************************************************************)
(* The relay implements TunnelPairing                                      *)
(***************************************************************************)

\* The refinement mapping's last component.
Pairs == {p \in Exits \X Clients : p[1] \in exitnodes /\ exitClient[p[1]] = p[2]}

\* A step that leaves these variables alone changes nothing TunnelPairing sees.
LEMMA PairsUntouched ==
    ASSUME UNCHANGED <<exitnodes, clients, exitClient>>
    PROVE  UNCHANGED Pairing!pairingVars
BY DEF Pairing!pairingVars

\* Removing sessions withdraws those that were in the table, or is a stutter.
LEMMA RemoveWithdraws ==
    ASSUME TypeOK, exitnodes' \subseteq exitnodes, UNCHANGED <<clients, exitClient>>
    PROVE  [Pairing!PairingNext]_(Pairing!pairingVars)
<1>0. PICK W : W = exitnodes \ exitnodes'
  OBVIOUS
<1>1. exitnodes' = exitnodes \ W /\ W \in SUBSET Exits /\ W \subseteq exitnodes
  BY <1>0 DEF TypeOK, TableTypeOK
<1>2. CASE W = {}
  BY <1>1, <1>2, PairsUntouched
<1>3. CASE W # {}
  <2>1. Pairs' = {p \in Pairs : p[1] \notin W}
    BY <1>1 DEF Pairs
  <2>2. Pairing!Withdraw(W)
    BY <1>1, <1>3, <2>1 DEF Pairing!Withdraw, Pairs
  <2> QED  BY <1>1, <2>2 DEF Pairing!PairingNext
<1> QED  BY <1>2, <1>3

\* Unlinking a linked exit node's tunnel ends one pair.
LEMMA UnlinkUnpairs ==
    ASSUME TypeOK, LinkInv, NEW e \in exitnodes, exitTunnel[e] # None,
           UnlinkSessions(exitTunnel[e]), UNCHANGED <<exitnodes, clients>>
    PROVE  Pairing!PairingNext
<1>0. PICK c : c = exitClient[e]
  OBVIOUS
<1>1. e \in Exits /\ c # None
  BY <1>0 DEF LinkInv, HalfLinkInv, TypeOK, TableTypeOK
<1>2. c \in Clients
  BY <1>0, <1>1 DEF TypeOK, TableTypeOK
<1>3. exitClient' = [exitClient EXCEPT ![e] = None]
  BY UnlinkExact
<1>4. <<e, c>> \in Pairs
  BY <1>0, <1>1, <1>2 DEF Pairs
<1>5. Pairs' = Pairs \ {<<e, c>>}
  <2>1. ASSUME NEW x \in Exits, NEW d \in Clients
        PROVE  <<x, d>> \in Pairs' <=> <<x, d>> \in Pairs /\ <<x, d>> # <<e, c>>
    <3>1. d # None
      BY SessionAssumption
    <3> QED  BY <1>0, <1>1, <1>3, <3>1 DEF Pairs, TypeOK, TableTypeOK
  <2> QED  BY <2>1 DEF Pairs
<1>6. Pairing!Unpair(e, c)
  BY <1>4, <1>5 DEF Pairing!Unpair, Pairs
<1> QED  BY <1>1, <1>2, <1>6 DEF Pairing!PairingNext

LEMMA PairingStep ==
    ASSUME TypeOK, LinkInv, [Next]_vars
    PROVE  [Pairing!PairingNext]_(Pairing!pairingVars)
<1>1. ASSUME NEW e \in Exits, ExitHandler(e)
      PROVE  [Pairing!PairingNext]_(Pairing!pairingVars)
  <2>1. ASSUME NEW pref \in Codes \cup {None}, Register(e, pref)
        PROVE  Pairing!PairingNext
    <3>1. /\ exitnodes' = exitnodes \cup {e} /\ UNCHANGED <<clients, exitClient>>
          /\ exitClient[e] = None /\ e \notin exitnodes
      BY <2>1 DEF Register, CreateExitnodeSession, LinkInv, HandlerInv
    <3>2. Pairs' = Pairs
      BY <3>1, SessionAssumption DEF Pairs
    <3>3. Pairing!Offer(e)
      BY <3>1, <3>2 DEF Pairing!Offer, Pairs
    <3> QED  BY <3>3 DEF Pairing!PairingNext
  <2>2. CASE ExitSent(e) \/ RelayFromExit(e)
    BY <2>2, PairsUntouched DEF ExitSent, RelayFromExit
  <2>3. CASE ExitClosesLinked(e)
    BY <2>3, UnlinkUnpairs DEF ExitClosesLinked
  <2>4. CASE ExitClosesIdle(e) \/ ExitRemoved(e)
    BY <2>4, RemoveWithdraws DEF ExitClosesIdle, ExitRemoved, RemoveExitnodeSessions
  <2> QED  BY <1>1, <2>1, <2>2, <2>3, <2>4 DEF ExitHandler
<1>2. ASSUME NEW c \in Clients, ClientHandler(c)
      PROVE  [Pairing!PairingNext]_(Pairing!pairingVars)
  <2>1. ASSUME NEW code \in Codes, ConnectInvalid(c, code)
        PROVE  [Pairing!PairingNext]_(Pairing!pairingVars)
    BY <2>1, DropRemoves, RemoveWithdraws DEF ConnectInvalid, DropUnusable
  <2>2. ASSUME NEW code \in Codes,
               ConnectBusy(c, code) \/ ConnectUnreachable(c, code) \/ Connect(c, code)
        PROVE  UNCHANGED Pairing!pairingVars
    BY <2>2, PairsUntouched DEF ConnectBusy, ConnectUnreachable, Connect
  <2>3. CASE LinkFails(c) \/ ClientSent(c) \/ RelayFromClient(c)
    BY <2>3, PairsUntouched DEF LinkFails, ClientSent, RelayFromClient
  <2>4. ASSUME LinkSucceeds(c) PROVE Pairing!PairingNext
    <3> DEFINE e == target[c]
    <3>1. /\ e \in exitnodes /\ c \in clients /\ exitClient[e] = None
          /\ exitClient' = [exitClient EXCEPT ![e] = c]
          /\ UNCHANGED <<exitnodes, clients>>
          /\ clientPc[c] = "notifying"
      BY <2>4 DEF LinkSucceeds, CanLink, IsAvailable, LinkSessions
    <3>2. e \in Exits /\ e # None /\ c # None /\ clientExit[c] = None
      BY <3>1, SessionAssumption DEF LinkInv, HandlerInv, TypeOK, TableTypeOK
    <3> HIDE DEF e
    <3>3. ASSUME NEW p \in Pairs PROVE p[1] # e /\ p[2] # c
      <4>1. p[1] \in exitnodes /\ p[1] # None /\ exitClient[p[1]] = p[2] /\ p[2] # None
        BY SessionAssumption DEF Pairs
      <4>2. clientExit[p[2]] = p[1]
        BY <4>1 DEF LinkInv, LinkAgreement
      <4> QED  BY <3>1, <3>2, <4>1, <4>2
    <3>4. Pairs' = Pairs \cup {<<e, c>>}
      <4>1. ASSUME NEW x \in Exits, NEW d \in Clients
            PROVE  <<x, d>> \in Pairs' <=> <<x, d>> \in Pairs \/ <<x, d>> = <<e, c>>
        <5>1. d # None
          BY SessionAssumption
        <5> QED  BY <3>1, <3>2, <5>1 DEF Pairs, TypeOK, TableTypeOK
      <4> QED  BY <3>2, <4>1 DEF Pairs
    <3>5. Pairing!Pair(e, c)
      BY <3>1, <3>3, <3>4 DEF Pairing!Pair, Pairs
    <3> QED  BY <3>2, <3>5 DEF Pairing!PairingNext
  <2>5. ASSUME ClientClosesLinked(c) PROVE Pairing!PairingNext
    <3>1. PICK e \in exitnodes : exitTunnel[e] = clientTunnel[c]
      BY <2>5 DEF ClientClosesLinked, Holders
    <3> QED  BY <2>5, <3>1, UnlinkUnpairs DEF ClientClosesLinked
  <2>6. ASSUME ClientClosesIdle(c) \/ ClientRemoved(c) PROVE Pairing!PairingNext
    <3>1. c \in clients /\ clients' = clients \ {c} /\ UNCHANGED <<exitnodes, exitClient>>
      BY <2>6 DEF ClientClosesIdle, ClientRemoved, LinkInv, HandlerInv
    <3>2. ASSUME NEW e \in exitnodes, exitClient[e] = c PROVE FALSE
      <4>1. c # None /\ e # None
        BY SessionAssumption DEF TypeOK, TableTypeOK
      <4>2. clientExit[c] = e /\ clientTunnel[c] = exitTunnel[e] /\ exitTunnel[e] # None
        BY <3>2, <4>1 DEF LinkInv, LinkAgreement
      <4> QED  BY <2>6, <4>1, <4>2
               DEF ClientClosesIdle, ClientRemoved, Holders, LinkInv, HandlerInv
    <3>3. Pairs' = Pairs /\ \A p \in Pairs : p[2] # c
      BY <3>1, <3>2 DEF Pairs
    <3>4. Pairing!Leave(c)
      BY <3>1, <3>3 DEF Pairing!Leave, Pairs
    <3> QED  BY <3>4 DEF Pairing!PairingNext
  <2> QED  BY <1>2, <2>1, <2>2, <2>3, <2>4, <2>5, <2>6 DEF ClientHandler
<1>3. CASE CleanupExpired
  BY <1>3, RemoveWithdraws DEF CleanupExpired, RemoveExitnodeSessions
<1>4. CASE Environment
  <2>1. ASSUME NEW c \in Clients, ClientConnects(c) PROVE Pairing!PairingNext
    <3>1. Pairing!Arrive(c)
      BY <2>1 DEF ClientConnects, Pairing!Arrive, LinkInv, HandlerInv
    <3> QED  BY <3>1 DEF Pairing!PairingNext
  <2>2. ASSUME NEW c \in Clients, ClientDrops(c) PROVE UNCHANGED Pairing!pairingVars
    BY <2>2, PairsUntouched DEF ClientDrops
  <2>3. ASSUME NEW e \in Exits, ExitConnects(e) \/ ExitDrops(e) \/ Expire(e)
        PROVE  UNCHANGED Pairing!pairingVars
    BY <2>3, PairsUntouched DEF ExitConnects, ExitDrops, Expire
  <2> QED  BY <1>4, <2>1, <2>2, <2>3 DEF Environment
<1>5. CASE UNCHANGED vars
  BY <1>5, PairsUntouched DEF vars
<1> QED  BY <1>1, <1>2, <1>3, <1>4, <1>5 DEF Next

\* The relay pairs clients and exit nodes one to one, and never otherwise:
\* broker, session table, handlers and cleanup loop together implement
\* TunnelPairing.
THEOREM RelayRefinesPairing == Spec => RelayImplementsPairing
<1>1. Init => Pairing!PairingInit
  BY SessionAssumption DEF Init, TableInit, Pairing!PairingInit
<1>2. TypeOK /\ LinkInv /\ [Next]_vars => [Pairing!PairingNext]_(Pairing!pairingVars)
  BY PairingStep
<1> QED  BY <1>1, <1>2, LinkInvariant, PTL
         DEF Spec, RelayImplementsPairing, Pairing!PairingSpec

\* The invariant of TunnelPairing.
PairingInv == Pairing!PairingTypeOK /\ Pairing!OneToOne /\ Pairing!PairsArePresent

\* What TunnelPairing promises follows from its own actions alone.
LEMMA PairingInductive == PairingInv /\ [Pairing!PairingNext]_(Pairing!pairingVars) => PairingInv'
<1> SUFFICES ASSUME PairingInv, [Pairing!PairingNext]_(Pairing!pairingVars) PROVE PairingInv'
  OBVIOUS
<1> USE DEF PairingInv, Pairing!PairingTypeOK, Pairing!OneToOne, Pairing!PairsArePresent
<1>1. ASSUME NEW e \in Exits, Pairing!Offer(e) PROVE PairingInv'
  BY <1>1 DEF Pairing!Offer
<1>2. ASSUME NEW c \in Clients, Pairing!Arrive(c) PROVE PairingInv'
  BY <1>2 DEF Pairing!Arrive
<1>3. ASSUME NEW c \in Clients, Pairing!Leave(c) PROVE PairingInv'
  BY <1>3 DEF Pairing!Leave
<1>4. ASSUME NEW e \in Exits, NEW c \in Clients, Pairing!Pair(e, c) PROVE PairingInv'
  <2>1. Pairing!PairingTypeOK'
    BY <1>4 DEF Pairing!Pair
  <2>2. Pairing!OneToOne'
    BY <1>4 DEF Pairing!Pair
  <2>3. Pairing!PairsArePresent'
    BY <1>4 DEF Pairing!Pair
  <2> QED
    BY <2>1, <2>2, <2>3
<1>5. ASSUME NEW e \in Exits, NEW c \in Clients, Pairing!Unpair(e, c) PROVE PairingInv'
  BY <1>5 DEF Pairing!Unpair
<1>6. ASSUME NEW S \in SUBSET Exits, Pairing!Withdraw(S) PROVE PairingInv'
  BY <1>6 DEF Pairing!Withdraw
<1>7. CASE UNCHANGED Pairing!pairingVars
  BY <1>7 DEF Pairing!pairingVars
<1> QED
  BY <1>1, <1>2, <1>3, <1>4, <1>5, <1>6, <1>7 DEF Pairing!PairingNext

LEMMA PairingPromises == Pairing!PairingSpec => []PairingInv
<1>1. Pairing!PairingInit => PairingInv
  BY DEF Pairing!PairingInit, PairingInv, Pairing!PairingTypeOK, Pairing!OneToOne,
         Pairing!PairsArePresent
<1> QED  BY <1>1, PairingInductive, PTL DEF Pairing!PairingSpec

\* So an exit node of the relay serves one client at a time and a client has one exit
\* node (README.md:122): TunnelPairing promises it and the relay implements it.
THEOREM PairsAreOneToOne == Spec => []Pairing!OneToOne
<1>1. PairingInv => Pairing!OneToOne
  BY DEF PairingInv
<1> QED  BY <1>1, PairingPromises, RelayRefinesPairing, PTL DEF RelayImplementsPairing

\* ... and both ends of a tunnel are in the relay's tables, however its handlers are
\* suspended.
THEOREM PairsHaveBothEnds == Spec => []Pairing!PairsArePresent
<1>1. PairingInv => Pairing!PairsArePresent
  BY DEF PairingInv
<1> QED  BY <1>1, PairingPromises, RelayRefinesPairing, PTL DEF RelayImplementsPairing

(***************************************************************************)
(* Who ends a tunnel                                                       *)
(***************************************************************************)

\* A handler that is closing, or has returned, has found its websocket closed.
DownInv == \A e \in Exits : exitPc[e] \in {"closing", "gone"} => ~exitUp[e]

LEMMA DownStep ==
    ASSUME TypeOK, DownInv, [Next]_vars
    PROVE  DownInv'
<1> USE DEF DownInv
<1>1. ASSUME NEW e \in Exits, ExitHandler(e) PROVE DownInv'
  <2>1. exitUp' = exitUp
    BY <1>1 DEF ExitHandler, Register, ExitSent, RelayFromExit, ExitClosesLinked, ExitClosesIdle,
                ExitRemoved
  <2>2. \E pc : /\ exitPc' = [exitPc EXCEPT ![e] = pc]
                /\ pc \in {"closing", "gone"} => ~exitUp[e] \/ exitPc[e] = "closing"
    BY <1>1 DEF ExitHandler, Register, ExitSent, RelayFromExit, ExitClosesLinked, ExitClosesIdle,
                ExitRemoved, ExitGoesTo
  <2> QED  BY <2>1, <2>2 DEF TypeOK
<1>2. ASSUME NEW c \in Clients, ClientHandler(c) PROVE DownInv'
  BY <1>2 DEF ClientHandler, ConnectInvalid, ConnectBusy, ConnectUnreachable, Connect, LinkSucceeds,
     LinkFails, ClientSent, RelayFromClient, ClientClosesLinked, ClientClosesIdle, ClientRemoved,
     Refuse, ClientGoesTo
<1>3. CASE CleanupExpired
  BY <1>3 DEF CleanupExpired
<1>4. CASE Environment
  <2>1. ASSUME NEW e \in Exits, ExitConnects(e) \/ ExitDrops(e) \/ Expire(e) PROVE DownInv'
    <3>1. CASE ExitConnects(e)
      BY <3>1 DEF ExitConnects, ExitGoesTo, TypeOK
    <3>2. CASE ExitDrops(e)
      BY <3>2 DEF ExitDrops, TypeOK
    <3>3. CASE Expire(e)
      BY <3>3 DEF Expire
    <3> QED  BY <2>1, <3>1, <3>2, <3>3
  <2>2. ASSUME NEW c \in Clients, ClientConnects(c) \/ ClientDrops(c) PROVE DownInv'
    BY <2>2 DEF ClientConnects, ClientDrops, ClientGoesTo
  <2> QED  BY <1>4, <2>1, <2>2 DEF Environment
<1>5. CASE UNCHANGED vars
  BY <1>5 DEF vars
<1> QED  BY <1>1, <1>2, <1>3, <1>4, <1>5 DEF Next

LEMMA DownInvariant == Spec => []DownInv
<1>1. Init => DownInv
  BY DEF Init, DownInv
<1> QED  BY <1>1, DownStep, LinkInvariant, PTL DEF Spec

\* What TunnelEndsForCause says of one step.
OthersLeaveItAlone ==
    \A e \in exitnodes :
        /\ exitClient[e] # None
        /\ exitClient'[e] # exitClient[e] \/ e \notin exitnodes'
        => ~exitUp[e] \/ ~clientUp[exitClient[e]] \/ expired[e]

\* The steps that unlink are those of the two closing handlers; those that remove a
\* session are its own handler's and the ones that find it expired; and the one that
\* links finds an exit node that is free.
LEMMA CauseStep == TypeOK /\ LinkInv /\ DownInv /\ [Next]_vars => OthersLeaveItAlone
<1> SUFFICES ASSUME TypeOK, LinkInv, DownInv, [Next]_vars PROVE OthersLeaveItAlone
  OBVIOUS
<1>1. ASSUME NEW e \in Exits, ExitClosesLinked(e) PROVE OthersLeaveItAlone
  <2>1. exitClient' = [exitClient EXCEPT ![e] = None] /\ ~exitUp[e] /\ exitnodes' = exitnodes
    BY <1>1, UnlinkExact DEF ExitClosesLinked
  <2> QED  BY <2>1 DEF OthersLeaveItAlone, TypeOK, TableTypeOK
<1>2. ASSUME NEW c \in Clients, ClientClosesLinked(c) PROVE OthersLeaveItAlone
  <2>1. PICK e \in exitnodes : exitTunnel[e] = clientTunnel[c]
    BY <1>2 DEF ClientClosesLinked, Holders
  <2>2. e \in Exits /\ exitTunnel[e] # None
    BY <1>2, <2>1 DEF ClientClosesLinked, TypeOK, TableTypeOK
  <2>3. exitClient' = [exitClient EXCEPT ![e] = None] /\ ~clientUp[c] /\ exitnodes' = exitnodes
    BY <1>2, <2>1, <2>2, UnlinkExact DEF ClientClosesLinked
  <2>4. exitClient[e] \in Clients /\ clientTunnel[exitClient[e]] = exitTunnel[e]
    BY <2>1, <2>2 DEF LinkInv, HalfLinkInv, LinkAgreement, TypeOK, TableTypeOK
  <2>5. exitClient[e] = c
    BY <2>1, <2>2, <2>4 DEF LinkInv, MintedInv
  <2> QED  BY <2>3, <2>5 DEF OthersLeaveItAlone, TypeOK, TableTypeOK
<1>3. ASSUME NEW c \in Clients, LinkSucceeds(c) PROVE OthersLeaveItAlone
  BY <1>3 DEF LinkSucceeds, CanLink, IsAvailable, LinkSessions, OthersLeaveItAlone,
              TypeOK, TableTypeOK
<1>4. ASSUME exitClient' = exitClient, exitnodes \subseteq exitnodes' PROVE OthersLeaveItAlone
  BY <1>4 DEF OthersLeaveItAlone
<1>5. ASSUME exitClient' = exitClient, \A x \in exitnodes \ exitnodes' : ~exitUp[x] \/ expired[x]
      PROVE  OthersLeaveItAlone
  BY <1>5 DEF OthersLeaveItAlone
<1>6. ASSUME NEW e \in Exits, ExitHandler(e) PROVE OthersLeaveItAlone
  <2>1. CASE ExitClosesIdle(e) \/ ExitRemoved(e)
    <3>1. ~exitUp[e] /\ exitnodes' = exitnodes \ {e} /\ exitClient' = exitClient
      BY <2>1 DEF ExitClosesIdle, ExitRemoved, RemoveExitnodeSessions, DownInv
    <3> QED  BY <1>5, <3>1
  <2> QED  BY <1>1, <1>4, <1>6, <2>1 DEF ExitHandler, Register, CreateExitnodeSession, ExitSent,
              RelayFromExit
<1>7. ASSUME NEW c \in Clients, ClientHandler(c) PROVE OthersLeaveItAlone
  <2>1. ASSUME NEW code \in Codes, ConnectInvalid(c, code) PROVE OthersLeaveItAlone
    <3>1. ~Found(KeyOf[code]) /\ DropUnusable(KeyOf[code]) /\ exitClient' = exitClient
      BY <2>1 DEF ConnectInvalid, DropUnusable
    <3>2. ASSUME NEW x \in exitnodes \ exitnodes' PROVE expired[x]
      BY <3>1, DropRemoves DEF Found
    <3> QED  BY <1>5, <3>1, <3>2
  <2> QED  BY <1>2, <1>3, <1>4, <1>7, <2>1 DEF ClientHandler, ConnectBusy,
     ConnectUnreachable, Connect, LinkFails, ClientSent, RelayFromClient, ClientClosesIdle,
     ClientRemoved
<1>8. CASE CleanupExpired
  BY <1>5, <1>8 DEF CleanupExpired, RemoveExitnodeSessions
<1>9. CASE Environment
  BY <1>4, <1>9 DEF Environment, ExitConnects, ExitDrops, Expire, ClientConnects, ClientDrops
<1>10. CASE UNCHANGED vars
  BY <1>4, <1>10 DEF vars
<1> QED  BY <1>6, <1>7, <1>8, <1>9, <1>10 DEF Next

\* A tunnel ends when one of its own two peers has dropped or its own session has
\* expired; no other client, exit node or clean-up takes it down (relay/server.py:194-196,
\* 235-237; relay/session.py:200-203, 310).
THEOREM NobodyElseEndsTunnels == Spec => TunnelEndsForCause
<1>1. TypeOK /\ LinkInv /\ DownInv /\ [Next]_vars => [OthersLeaveItAlone]_vars
  BY CauseStep
<1> QED  BY <1>1, LinkInvariant, DownInvariant, PTL
         DEF Spec, TunnelEndsForCause, OthersLeaveItAlone

(***************************************************************************)
(* What is on the wires                                                    *)
(***************************************************************************)

\* The two log-level halves of the wire orders; mt is "minted".
ClientLogOK(log) ==
    \A i \in DOMAIN log : log[i][1] = "DATA" =>
        /\ \E j \in 1 .. i - 1 : log[j][1] = "CONNECTED"
        /\ \A j \in 1 .. i - 1 : log[j][1] # "PEER_DISCONNECTED"

EndedIn(log, t, from, to) == \E k \in from .. to : log[k] = <<"PEER_DISCONNECTED", t>>

ExitLogOK(log, mt) ==
    \A i \in DOMAIN log : log[i][1] = "DATA" =>
        /\ \E j \in 1 .. i - 1 : log[j] = <<"PEER_CONNECTING", mt[log[i][2]]>>
        /\ ~EndedIn(log, mt[log[i][2]], 1, i - 1)
        /\ \A j \in 1 .. i - 1 :
            log[j][1] = "DATA" /\ log[j][2] # log[i][2] => EndedIn(log, mt[log[j][2]], j, i - 1)

\* No end of a tunnel has been written to a log; every frame of c in it is followed
\* by the end of tunnel t.
Endless(log) == \A i \in DOMAIN log : log[i][1] # "PEER_DISCONNECTED"
Closed(log, c, t) ==
    \A j \in DOMAIN log : log[j] = <<"DATA", c>> => EndedIn(log, t, j, Len(log))

\* The locals of connect_client_to_exitnode outlive the link they made.
AttemptInv ==
    \A c \in Clients :
        /\ clientPc[c] \in {"none", "fresh"} => minted[c] = None /\ target[c] = None
        /\ clientExit[c] # None => clientExit[c] = target[c]
        /\ target[c] # None => minted[c] # None
        /\ target[c] # None => exitPc[target[c]] \notin {"none", "fresh"}

\* A client's wire: nothing before the answer to CONNECT, CONNECTED and no end
\* while it is linked, the end of its tunnel once it is not.
ClientWire(c) ==
    /\ ~clientUp[c] => toClient[c] = <<>>
    /\ clientPc[c] \in {"none", "fresh", "notifying"} => toClient[c] = <<>> /\ c \notin joined
    /\ clientTunnel[c] # None => c \in joined
    /\ clientTunnel[c] # None /\ clientUp[c] =>
        Sent(toClient[c], <<"CONNECTED", minted[c]>>) /\ Endless(toClient[c])
    /\ c \in joined => target[c] # None
    /\ clientTunnel[c] = None /\ clientUp[c] /\ c \in joined =>
        Sent(toClient[c], <<"PEER_DISCONNECTED", minted[c]>>)
    /\ ClientLogOK(toClient[c])

\* An exit node's wire: only tunnels of clients that have left are ended.
ExitWire(e) ==
    /\ ~exitUp[e] => toExit[e] = <<>>
    /\ \A t \in Tunnels : Sent(toExit[e], <<"PEER_DISCONNECTED", t>>) =>
        \E d \in Clients : minted[d] = t /\ clientPc[d] \in {"closing", "gone"}
    /\ ExitLogOK(toExit[e], minted)

\* What it says of one client: its tunnel was announced, its frames came after that,
\* and a tunnel the exit node has left was ended.
Story(e, c) ==
    /\ target[c] = e /\ exitUp[e] => Sent(toExit[e], <<"PEER_CONNECTING", minted[c]>>)
    /\ Sent(toExit[e], <<"DATA", c>>) => target[c] = e
    /\ exitTunnel[e] # minted[c] => Closed(toExit[e], c, minted[c])
    /\ /\ target[c] = e /\ exitUp[e] /\ exitTunnel[e] # minted[c]
       /\ c \in joined
       => Sent(toExit[e], <<"PEER_DISCONNECTED", minted[c]>>)

WireInv ==
    /\ AttemptInv
    /\ \A c \in Clients : ClientWire(c)
    /\ \A e \in Exits : ExitWire(e)
    /\ \A e \in Exits, c \in Clients : Story(e, c)

\* The two halves of the wire order that the logs decide by themselves.
LEMMA WireFromLogs ==
    ASSUME TypeOK, LinkInv, WireInv
    PROVE  WireOrder
<1>1. ClientWireOrder
  BY DEF ClientWireOrder, WireInv, ClientWire, ClientLogOK
<1>2. ExitWireOrder
  BY DEF ExitWireOrder, WireInv, ExitWire, ExitLogOK, EndedIn
<1>3. ASSUME NEW c \in joined
      PROVE  /\ clientUp[c] /\ clientTunnel[c] = None
                 => Sent(toClient[c], <<"PEER_DISCONNECTED", minted[c]>>)
             /\ exitUp[target[c]] /\ (\/ exitTunnel[target[c]] # minted[c]
                                      \/ target[c] \in exitnodes /\ clientPc[c] = "gone")
                 => Sent(toExit[target[c]], <<"PEER_DISCONNECTED", minted[c]>>)
  <2>0. c \in Clients
    BY DEF TypeOK
  <2>1. clientUp[c] /\ clientTunnel[c] = None => Sent(toClient[c], <<"PEER_DISCONNECTED", minted[c]>>)
    BY <2>0 DEF WireInv, ClientWire
  <2>2. target[c] \in Exits /\ minted[c] # None
    BY <2>0 DEF WireInv, ClientWire, AttemptInv, TypeOK
  <2>3. exitUp[target[c]] /\ exitTunnel[target[c]] # minted[c]
           => Sent(toExit[target[c]], <<"PEER_DISCONNECTED", minted[c]>>)
    BY <2>0, <2>2 DEF WireInv, Story
  <2>4. ASSUME target[c] \in exitnodes, exitTunnel[target[c]] = minted[c], clientPc[c] = "gone"
        PROVE  FALSE
    <3>1. PICK d : d = exitClient[target[c]]
      OBVIOUS
    <3>2. d # None
      BY <2>2, <2>4, <3>1 DEF LinkInv, HalfLinkInv
    <3>3. d \in Clients /\ d \in clients /\ clientTunnel[d] = minted[c]
      BY <2>4, <3>1, <3>2 DEF LinkInv, LinkAgreement, TypeOK, TableTypeOK
    <3>4. d = c
      BY <2>0, <2>2, <3>3 DEF LinkInv, MintedInv
    <3> QED  BY <2>0, <2>4, <3>3, <3>4 DEF LinkInv, HandlerInv
  <2> QED  BY <2>1, <2>3, <2>4
<1> QED  BY <1>1, <1>2, <1>3 DEF WireOrder, UnlinkIsTold

(* Logs *)

LEMMA SentAppend ==
    ASSUME NEW S, NEW s \in Seq(S), NEW m \in S, NEW x
    PROVE  Sent(Append(s, m), x) <=> Sent(s, x) \/ x = m
BY AppendProperties DEF Sent

LEMMA EndlessAppend ==
    ASSUME NEW S, NEW s \in Seq(S), NEW m \in S, Endless(s), m[1] # "PEER_DISCONNECTED"
    PROVE  Endless(Append(s, m))
BY AppendProperties DEF Endless

\* A frame may follow CONNECTED until the end of the tunnel.
LEMMA ClientLogAppend ==
    ASSUME NEW s \in Seq(ClientMsgs), NEW m \in ClientMsgs, ClientLogOK(s),
           m[1] = "DATA" => (\E t : Sent(s, <<"CONNECTED", t>>)) /\ Endless(s)
    PROVE  ClientLogOK(Append(s, m))
<1>1. /\ Len(s) \in Nat /\ DOMAIN s = 1 .. Len(s) /\ Len(Append(s, m)) = Len(s) + 1
      /\ DOMAIN Append(s, m) = 1 .. Len(s) + 1 /\ Append(s, m)[Len(s) + 1] = m
      /\ \A i \in 1 .. Len(s) : Append(s, m)[i] = s[i]
  BY AppendProperties
<1> DEFINE log == Append(s, m)
<1> HIDE DEF log
<1> SUFFICES ASSUME NEW i \in DOMAIN log, log[i][1] = "DATA"
             PROVE  /\ \E j \in 1 .. i - 1 : log[j][1] = "CONNECTED"
                    /\ \A j \in 1 .. i - 1 : log[j][1] # "PEER_DISCONNECTED"
  BY DEF ClientLogOK, log
<1>2. CASE i \in 1 .. Len(s)
  <2>1. \A j \in 1 .. i : j \in 1 .. Len(s) /\ log[j] = s[j]
    BY <1>1, <1>2 DEF log
  <2> QED  BY <1>1, <1>2, <2>1 DEF ClientLogOK
<1>3. CASE i = Len(s) + 1
  <2>1. \A j \in 1 .. i - 1 : j \in DOMAIN s /\ log[j] = s[j]
    BY <1>1, <1>3 DEF log
  <2>2. m[1] = "DATA"
    BY <1>1, <1>3 DEF log
  <2>3. PICK t : Sent(s, <<"CONNECTED", t>>)
    BY <2>2
  <2>4. PICK j \in DOMAIN s : s[j] = <<"CONNECTED", t>>
    BY <2>3 DEF Sent
  <2>5. \A k \in DOMAIN s : s[k][1] # "PEER_DISCONNECTED"
    BY <2>2 DEF Endless
  <2>6. j \in 1 .. i - 1 /\ log[j][1] = "CONNECTED"
    BY <1>1, <1>3, <2>1, <2>4
  <2> QED  BY <2>1, <2>5, <2>6
<1>4. i \in 1 .. Len(s) \/ i = Len(s) + 1
  BY <1>1 DEF log
<1> QED  BY <1>2, <1>3, <1>4

\* A frame of c may follow the announcement of c's tunnel until its end, when the
\* frames of everyone else have been closed.
LEMMA ExitLogAppend ==
    ASSUME NEW s \in Seq(ExitMsgs), NEW m \in ExitMsgs, NEW mt, ExitLogOK(s, mt),
           m[1] = "DATA" => /\ Sent(s, <<"PEER_CONNECTING", mt[m[2]]>>)
                            /\ ~Sent(s, <<"PEER_DISCONNECTED", mt[m[2]]>>)
                            /\ \A d \in Clients : d # m[2] => Closed(s, d, mt[d])
    PROVE  ExitLogOK(Append(s, m), mt)
<1>1. /\ Len(s) \in Nat /\ DOMAIN s = 1 .. Len(s) /\ Len(Append(s, m)) = Len(s) + 1
      /\ DOMAIN Append(s, m) = 1 .. Len(s) + 1 /\ Append(s, m)[Len(s) + 1] = m
      /\ \A i \in 1 .. Len(s) : Append(s, m)[i] = s[i]
  BY AppendProperties
<1> DEFINE log == Append(s, m)
<1> HIDE DEF log
<1> SUFFICES ASSUME NEW i \in DOMAIN log, log[i][1] = "DATA"
             PROVE  /\ \E j \in 1 .. i - 1 : log[j] = <<"PEER_CONNECTING", mt[log[i][2]]>>
                    /\ ~EndedIn(log, mt[log[i][2]], 1, i - 1)
                    /\ \A j \in 1 .. i - 1 : log[j][1] = "DATA" /\ log[j][2] # log[i][2]
                           => EndedIn(log, mt[log[j][2]], j, i - 1)
  BY DEF ExitLogOK, log
<1>2. CASE i \in 1 .. Len(s)
  <2>1. \A j \in 1 .. i : j \in 1 .. Len(s) /\ log[j] = s[j]
    BY <1>1, <1>2 DEF log
  <2>2. i \in DOMAIN s /\ s[i][1] = "DATA" /\ log[i] = s[i]
    BY <1>1, <1>2, <2>1
  <2>3. /\ \E j \in 1 .. i - 1 : s[j] = <<"PEER_CONNECTING", mt[s[i][2]]>>
        /\ ~EndedIn(s, mt[s[i][2]], 1, i - 1)
        /\ \A j \in 1 .. i - 1 : s[j][1] = "DATA" /\ s[j][2] # s[i][2]
               => EndedIn(s, mt[s[j][2]], j, i - 1)
    BY <2>2 DEF ExitLogOK
  <2>4. \A j \in 1 .. i - 1 : log[j] = s[j]
    BY <1>1, <1>2, <2>1
  <2>5. ASSUME NEW t, NEW from \in 1 .. i PROVE EndedIn(log, t, from, i - 1) <=> EndedIn(s, t, from, i - 1)
    <3>1. \A k \in from .. i - 1 : k \in 1 .. i - 1
      BY <1>1, <1>2
    <3> QED  BY <2>4, <3>1 DEF EndedIn
  <2>6. 1 \in 1 .. i /\ \A j \in 1 .. i - 1 : j \in 1 .. i
    BY <1>1, <1>2
  <2>7. \E j \in 1 .. i - 1 : log[j] = <<"PEER_CONNECTING", mt[log[i][2]]>>
    BY <2>2, <2>3, <2>4
  <2>8. ~EndedIn(log, mt[log[i][2]], 1, i - 1)
    BY <2>2, <2>3, <2>5, <2>6
  <2>9. \A j \in 1 .. i - 1 : log[j][1] = "DATA" /\ log[j][2] # log[i][2]
            => EndedIn(log, mt[log[j][2]], j, i - 1)
    BY <2>2, <2>3, <2>4, <2>5, <2>6
  <2> QED  BY <2>7, <2>8, <2>9
<1>3. CASE i = Len(s) + 1
  <2>1. i - 1 = Len(s) /\ \A j \in 1 .. i - 1 : j \in DOMAIN s /\ log[j] = s[j]
    BY <1>1, <1>3 DEF log
  <2>2. log[i] = m /\ m[1] = "DATA"
    BY <1>1, <1>3 DEF log
  <2>3. \E j \in 1 .. i - 1 : log[j] = <<"PEER_CONNECTING", mt[m[2]]>>
    BY <1>1, <2>1, <2>2 DEF Sent
  <2>4. ~EndedIn(log, mt[m[2]], 1, i - 1)
    BY <1>1, <2>1, <2>2 DEF Sent, EndedIn
  <2>5. ASSUME NEW j \in 1 .. i - 1, log[j][1] = "DATA", log[j][2] # m[2]
        PROVE  EndedIn(log, mt[log[j][2]], j, i - 1)
    <3>1. j \in DOMAIN s /\ log[j] = s[j] /\ s[j] \in ExitMsgs
      BY <1>1, <2>1
    <3>2. s[j] = <<"DATA", s[j][2]>> /\ s[j][2] \in Clients
      BY <2>5, <3>1 DEF ExitMsgs
    <3>3. EndedIn(s, mt[s[j][2]], j, Len(s))
      BY <2>2, <2>5, <3>1, <3>2 DEF Closed
    <3>4. PICK k \in j .. Len(s) : s[k] = <<"PEER_DISCONNECTED", mt[s[j][2]]>>
      BY <3>3 DEF EndedIn
    <3>5. k \in j .. i - 1 /\ k \in 1 .. i - 1
      BY <1>1, <2>1
    <3> QED  BY <2>1, <3>1, <3>4, <3>5 DEF EndedIn
  <2>6. mt[log[i][2]] = mt[m[2]] /\ log[i][2] = m[2]
    BY <2>2
  <2>7. \E j \in 1 .. i - 1 : log[j] = <<"PEER_CONNECTING", mt[log[i][2]]>>
    BY <2>3, <2>6
  <2>8. ~EndedIn(log, mt[log[i][2]], 1, i - 1)
    BY <2>4, <2>6
  <2>9. \A j \in 1 .. i - 1 : log[j][1] = "DATA" /\ log[j][2] # log[i][2]
            => EndedIn(log, mt[log[j][2]], j, i - 1)
    BY <2>5, <2>6
  <2> QED  BY <2>7, <2>8, <2>9
<1>4. i \in 1 .. Len(s) \/ i = Len(s) + 1
  BY <1>1 DEF log
<1> QED  BY <1>2, <1>3, <1>4

\* What an exit node's log says depends on the tunnels of the clients whose frames
\* it holds.
LEMMA ExitLogMinted ==
    ASSUME NEW s \in Seq(ExitMsgs), NEW mt, NEW nt, ExitLogOK(s, mt),
           \A d \in Clients : Sent(s, <<"DATA", d>>) => nt[d] = mt[d]
    PROVE  ExitLogOK(s, nt)
<1>1. ASSUME NEW i \in DOMAIN s, s[i][1] = "DATA" PROVE nt[s[i][2]] = mt[s[i][2]]
  <2>1. s[i] \in ExitMsgs
    OBVIOUS
  <2>2. s[i] = <<"DATA", s[i][2]>> /\ s[i][2] \in Clients
    BY <1>1, <2>1 DEF ExitMsgs
  <2> QED  BY <2>2 DEF Sent
<1>2. ASSUME NEW i \in DOMAIN s, NEW j \in 1 .. i - 1 PROVE j \in DOMAIN s
  BY LenProperties
<1> SUFFICES ASSUME NEW i \in DOMAIN s, s[i][1] = "DATA"
             PROVE  /\ \E j \in 1 .. i - 1 : s[j] = <<"PEER_CONNECTING", nt[s[i][2]]>>
                    /\ ~EndedIn(s, nt[s[i][2]], 1, i - 1)
                    /\ \A j \in 1 .. i - 1 : s[j][1] = "DATA" /\ s[j][2] # s[i][2] =>
                           EndedIn(s, nt[s[j][2]], j, i - 1)
  BY DEF ExitLogOK
<1>3. nt[s[i][2]] = mt[s[i][2]]
  BY <1>1
<1>4. /\ \E j \in 1 .. i - 1 : s[j] = <<"PEER_CONNECTING", mt[s[i][2]]>>
      /\ ~EndedIn(s, mt[s[i][2]], 1, i - 1)
      /\ \A j \in 1 .. i - 1 : s[j][1] = "DATA" /\ s[j][2] # s[i][2] =>
             EndedIn(s, mt[s[j][2]], j, i - 1)
  BY DEF ExitLogOK
<1> QED  BY <1>1, <1>2, <1>3, <1>4

\* Only a frame of c reopens what was closed, and the end of its tunnel closes it.
LEMMA ClosedAppend ==
    ASSUME NEW S, NEW s \in Seq(S), NEW m \in S, NEW c, NEW t,
           m = <<"PEER_DISCONNECTED", t>> \/ (Closed(s, c, t) /\ m # <<"DATA", c>>)
    PROVE  Closed(Append(s, m), c, t)
<1>1. /\ Len(s) \in Nat /\ DOMAIN s = 1 .. Len(s) /\ Len(Append(s, m)) = Len(s) + 1
      /\ DOMAIN Append(s, m) = 1 .. Len(s) + 1 /\ Append(s, m)[Len(s) + 1] = m
      /\ \A i \in 1 .. Len(s) : Append(s, m)[i] = s[i]
  BY AppendProperties
<1> DEFINE log == Append(s, m)
<1> HIDE DEF log
<1> SUFFICES ASSUME NEW j \in DOMAIN log, log[j] = <<"DATA", c>>
             PROVE  EndedIn(log, t, j, Len(s) + 1)
  BY <1>1 DEF Closed, log
<1>2. CASE m = <<"PEER_DISCONNECTED", t>>
  <2>1. Len(s) + 1 \in j .. Len(s) + 1 /\ log[Len(s) + 1] = m
    BY <1>1 DEF log
  <2> QED  BY <1>2, <2>1 DEF EndedIn
<1>3. CASE Closed(s, c, t) /\ m # <<"DATA", c>>
  <2>0. j \in 1 .. Len(s) \/ j = Len(s) + 1
    BY <1>1 DEF log
  <2>1. j \in 1 .. Len(s) /\ s[j] = <<"DATA", c>>
    BY <1>1, <1>3, <2>0 DEF log
  <2>2. PICK k \in j .. Len(s) : s[k] = <<"PEER_DISCONNECTED", t>>
    BY <1>1, <1>3, <2>1 DEF Closed, EndedIn
  <2>3. k \in j .. Len(s) + 1 /\ k \in 1 .. Len(s)
    BY <1>1, <2>1
  <2>4. log[k] = s[k]
    BY <1>1, <2>3 DEF log
  <2> QED  BY <2>2, <2>3, <2>4 DEF EndedIn
<1> QED  BY <1>2, <1>3

LEMMA EmptyLog ==
    /\ \A x : ~Sent(<<>>, x)
    /\ \A c, t : Closed(<<>>, c, t)
    /\ Endless(<<>>) /\ ClientLogOK(<<>>) /\ \A mt : ExitLogOK(<<>>, mt)
BY DEF Sent, Closed, Endless, ClientLogOK, ExitLogOK

LEMMA NoFramesClosed == ASSUME NEW s, NEW c, NEW t, ~Sent(s, <<"DATA", c>>)
                        PROVE  Closed(s, c, t)
BY DEF Sent, Closed

(* Sends *)

LEMMA SendExitLogs ==
    ASSUME TypeOK, NEW e \in Exits, NEW m \in ExitMsgs, SendExit(e, m)
    PROVE  /\ ~exitUp[e] => toExit' = toExit
           /\ exitUp[e] => toExit'[e] = Append(toExit[e], m)
           /\ \A x \in Exits : x # e => toExit'[x] = toExit[x]
           /\ \A x \in Exits : \A y :
                Sent(toExit'[x], y) <=> Sent(toExit[x], y) \/ (x = e /\ exitUp[e] /\ y = m)
           /\ \A x \in Exits : \A c, t :
                Closed(toExit[x], c, t) /\ (x = e => m # <<"DATA", c>>) => Closed(toExit'[x], c, t)
<1>1. toExit[e] \in Seq(ExitMsgs)
  BY DEF TypeOK
<1>2. CASE exitUp[e]
  <2>1. /\ toExit'[e] = Append(toExit[e], m)
        /\ \A x \in Exits : x # e => toExit'[x] = toExit[x]
    BY <1>2 DEF SendExit, TypeOK
  <2>2. \A y : Sent(toExit'[e], y) <=> Sent(toExit[e], y) \/ y = m
    BY <1>1, <2>1, SentAppend
  <2>3. \A c, t : Closed(toExit[e], c, t) /\ m # <<"DATA", c>> => Closed(toExit'[e], c, t)
    BY <1>1, <2>1, ClosedAppend
  <2> QED  BY <1>2, <2>1, <2>2, <2>3
<1>3. CASE ~exitUp[e]
  BY <1>3 DEF SendExit
<1> QED  BY <1>2, <1>3

LEMMA SendClientLogs ==
    ASSUME TypeOK, NEW c \in Clients, NEW m \in ClientMsgs, SendClient(c, m)
    PROVE  /\ ~clientUp[c] => toClient' = toClient
           /\ clientUp[c] => toClient'[c] = Append(toClient[c], m)
           /\ \A d \in Clients : d # c => toClient'[d] = toClient[d]
           /\ \A d \in Clients : \A y :
                Sent(toClient'[d], y) <=> Sent(toClient[d], y) \/ (d = c /\ clientUp[c] /\ y = m)
<1>1. toClient[c] \in Seq(ClientMsgs)
  BY DEF TypeOK
<1>2. CASE clientUp[c]
  <2>1. /\ toClient'[c] = Append(toClient[c], m)
        /\ \A d \in Clients : d # c => toClient'[d] = toClient[d]
    BY <1>2 DEF SendClient, TypeOK
  <2>2. \A y : Sent(toClient'[c], y) <=> Sent(toClient[c], y) \/ y = m
    BY <1>1, <2>1, SentAppend
  <2> QED  BY <1>2, <2>1, <2>2
<1>3. CASE ~clientUp[c]
  BY <1>3 DEF SendClient
<1> QED  BY <1>2, <1>3

\* Handlers go forward: none comes back to the place before its first message, or to
\* an attempt it has left, and a closing one only ends.
PcsAdvance ==
    /\ \A e \in Exits : exitPc'[e] \in {"none", "fresh"} => exitPc[e] \in {"none", "fresh"}
    /\ \A c \in Clients :
        /\ clientPc'[c] \in {"none", "fresh"} => clientPc[c] \in {"none", "fresh"}
        /\ clientPc'[c] = "notifying" => clientPc[c] \in {"fresh", "notifying"}
        /\ clientPc[c] \in {"closing", "gone"} => clientPc'[c] \in {"closing", "gone"}

(* What leaves the parts of the invariant alone *)

\* A client whose locals, link and wire stay as they are.
LEMMA ClientWireKept ==
    ASSUME NEW c, ClientWire(c), PcsAdvance, c \in Clients,
           clientUp'[c] = clientUp[c], toClient'[c] = toClient[c], minted'[c] = minted[c],
           target'[c] = target[c], clientTunnel'[c] = clientTunnel[c], c \in joined' <=> c \in joined
    PROVE  ClientWire(c)'
BY DEF ClientWire, PcsAdvance

\* An exit node that is sent no end of a tunnel.
LEMMA ExitWireKept ==
    ASSUME NEW e, ExitWire(e), PcsAdvance,
           exitUp'[e] = exitUp[e], ~exitUp[e] => toExit'[e] = toExit[e],
           \A t \in Tunnels : Sent(toExit'[e], <<"PEER_DISCONNECTED", t>>)
                              => Sent(toExit[e], <<"PEER_DISCONNECTED", t>>),
           \A d \in Clients : clientPc[d] \in {"closing", "gone"} => minted'[d] = minted[d],
           ExitLogOK(toExit'[e], minted')
    PROVE  ExitWire(e)'
<1>1. ASSUME NEW t \in Tunnels, Sent(toExit'[e], <<"PEER_DISCONNECTED", t>>)
      PROVE  \E d \in Clients : minted'[d] = t /\ clientPc'[d] \in {"closing", "gone"}
  <2>1. PICK d \in Clients : minted[d] = t /\ clientPc[d] \in {"closing", "gone"}
    BY <1>1 DEF ExitWire
  <2> QED  BY <2>1 DEF PcsAdvance
<1>2. ~exitUp'[e] => toExit'[e] = <<>>
  BY DEF ExitWire
<1> QED  BY <1>1, <1>2 DEF ExitWire

\* A client whose exit node hears nothing of it and leaves no tunnel.
LEMMA StoryKept ==
    ASSUME NEW e, NEW c, Story(e, c), target'[c] = target[c], minted'[c] = minted[c],
           exitTunnel'[e] = exitTunnel[e], exitUp'[e] = exitUp[e],
           \A y : Sent(toExit[e], y) => Sent(toExit'[e], y),
           Sent(toExit'[e], <<"DATA", c>>) => Sent(toExit[e], <<"DATA", c>>),
           \A t : Closed(toExit[e], c, t) => Closed(toExit'[e], c, t),
           c \in joined' => c \in joined
    PROVE  Story(e, c)'
BY DEF Story

(* Steps *)

\* The steps that send nothing and change no link.
LEMMA WiresUntouched ==
    ASSUME TypeOK, WireInv, PcsAdvance, UNCHANGED <<linkVars, attemptVars, upVars, wireVars>>
    PROVE  WireInv'
<1>1. AttemptInv'
  BY DEF WireInv, AttemptInv, PcsAdvance, TypeOK
<1>2. \A c \in Clients : ClientWire(c)'
  BY ClientWireKept DEF WireInv
<1>3. \A e \in Exits : ExitWire(e)'
  BY ExitWireKept DEF WireInv, ExitWire
<1>4. \A e \in Exits, c \in Clients : Story(e, c)'
  BY StoryKept DEF WireInv
<1> QED  BY <1>1, <1>2, <1>3, <1>4 DEF WireInv

\* A peer that has just connected has an empty wire and no story.
LEMMA ConnectKeepsWires ==
    ASSUME TypeOK, LinkInv, WireInv,
           \/ \E e \in Exits : ExitConnects(e)
           \/ \E c \in Clients : ClientConnects(c)
    PROVE  WireInv'
<1>1. ASSUME NEW e \in Exits, ExitConnects(e) PROVE WireInv'
  <2>1. /\ exitPc[e] = "none" /\ exitPc' = [exitPc EXCEPT ![e] = "fresh"]
        /\ exitUp' = [exitUp EXCEPT ![e] = TRUE]
        /\ UNCHANGED <<clientPc, clientUp, linkVars, attemptVars, wireVars>>
    BY <1>1 DEF ExitConnects, ExitGoesTo
  <2>2. \A c \in Clients : target[c] # e
    BY <2>1, SessionAssumption DEF WireInv, AttemptInv
  <2>3. PcsAdvance
    BY <2>1 DEF PcsAdvance, TypeOK
  <2>4. exitUp'[e] = TRUE /\ \A x \in Exits : x # e => exitUp'[x] = exitUp[x]
    BY <2>1 DEF TypeOK
  <2>5. AttemptInv'
    BY <2>1 DEF WireInv, AttemptInv, TypeOK
  <2>6. \A c \in Clients : ClientWire(c)'
    BY <2>1, <2>3, ClientWireKept DEF WireInv
  <2>7. \A x \in Exits : ExitWire(x)'
    BY <2>1, <2>4 DEF WireInv, ExitWire
  <2>8. ASSUME NEW x \in Exits, NEW c \in Clients PROVE Story(x, c)'
    <3>1. Story(x, c)
      BY DEF WireInv
    <3>2. target[c] = x => exitUp'[x] = exitUp[x]
      BY <2>2, <2>4
    <3> QED  BY <2>1, <3>1, <3>2 DEF Story
  <2> QED  BY <2>5, <2>6, <2>7, <2>8 DEF WireInv
<1>2. ASSUME NEW c \in Clients, ClientConnects(c) PROVE WireInv'
  <2>1. /\ clientPc[c] = "none" /\ clientPc' = [clientPc EXCEPT ![c] = "fresh"]
        /\ clientUp' = [clientUp EXCEPT ![c] = TRUE]
        /\ UNCHANGED <<exitPc, exitUp, linkVars, attemptVars, wireVars>>
    BY <1>2 DEF ClientConnects, ClientGoesTo
  <2>2. clientTunnel[c] = None
    BY <2>1 DEF LinkInv, HandlerInv, MintedInv
  <2>3. PcsAdvance
    BY <2>1 DEF PcsAdvance, TypeOK
  <2>4. clientUp'[c] = TRUE /\ \A d \in Clients : d # c => clientUp'[d] = clientUp[d]
    BY <2>1 DEF TypeOK
  <2>5. AttemptInv'
    BY <2>1 DEF WireInv, AttemptInv, TypeOK
  <2>6. \A d \in Clients : d # c => ClientWire(d)'
    BY <2>1, <2>3, <2>4, ClientWireKept DEF WireInv
  <2>7. ClientWire(c)'
    BY <2>1, <2>2, <2>4 DEF WireInv, ClientWire
  <2>8. \A x \in Exits : ExitWire(x)'
    BY <2>1, <2>3, ExitWireKept DEF WireInv, ExitWire
  <2>9. \A x \in Exits, d \in Clients : Story(x, d)'
    BY <2>1, StoryKept DEF WireInv
  <2> QED  BY <2>5, <2>6, <2>7, <2>8, <2>9 DEF WireInv
<1> QED  BY <1>1, <1>2

\* The wire of a peer that is gone is empty.
LEMMA DropKeepsWires ==
    ASSUME TypeOK, WireInv,
           \/ \E e \in Exits : ExitDrops(e)
           \/ \E c \in Clients : ClientDrops(c)
    PROVE  WireInv'
<1>1. ASSUME NEW e \in Exits, ExitDrops(e) PROVE WireInv'
  <2>1. /\ exitUp' = [exitUp EXCEPT ![e] = FALSE] /\ toExit' = [toExit EXCEPT ![e] = <<>>]
        /\ UNCHANGED <<handlerVars, clientUp, linkVars, attemptVars, toClient>>
    BY <1>1 DEF ExitDrops
  <2>2. /\ exitUp'[e] = FALSE /\ toExit'[e] = <<>>
        /\ \A x \in Exits : x # e => exitUp'[x] = exitUp[x] /\ toExit'[x] = toExit[x]
    BY <2>1 DEF TypeOK
  <2>3. AttemptInv'
    BY <2>1 DEF WireInv, AttemptInv
  <2>4. \A c \in Clients : ClientWire(c)'
    BY <2>1 DEF WireInv, ClientWire
  <2>5. \A x \in Exits : ExitWire(x)'
    BY <2>1, <2>2, EmptyLog DEF WireInv, ExitWire
  <2>6. \A x \in Exits, c \in Clients : x # e => Story(x, c)'
    BY <2>1, <2>2, StoryKept DEF WireInv
  <2>7. ASSUME NEW c \in Clients PROVE Story(e, c)'
    <3>1. ~Sent(toExit'[e], <<"DATA", c>>) /\ Closed(toExit'[e], c, minted'[c])
      BY <2>2 DEF Sent, Closed
    <3> QED  BY <2>2, <3>1 DEF Story
  <2> QED  BY <2>3, <2>4, <2>5, <2>6, <2>7 DEF WireInv
<1>2. ASSUME NEW c \in Clients, ClientDrops(c) PROVE WireInv'
  <2>1. /\ clientUp' = [clientUp EXCEPT ![c] = FALSE] /\ toClient' = [toClient EXCEPT ![c] = <<>>]
        /\ UNCHANGED <<handlerVars, exitUp, linkVars, attemptVars, toExit>>
    BY <1>2 DEF ClientDrops
  <2>2. /\ clientUp'[c] = FALSE /\ toClient'[c] = <<>>
        /\ \A d \in Clients : d # c => clientUp'[d] = clientUp[d] /\ toClient'[d] = toClient[d]
    BY <2>1 DEF TypeOK
  <2>3. AttemptInv'
    BY <2>1 DEF WireInv, AttemptInv
  <2>4. \A d \in Clients : ClientWire(d)'
    BY <2>1, <2>2, EmptyLog DEF WireInv, ClientWire
  <2>5. \A x \in Exits : ExitWire(x)'
    BY <2>1 DEF WireInv, ExitWire
  <2>6. ASSUME NEW x \in Exits, NEW d \in Clients PROVE Story(x, d)'
    BY <2>1, StoryKept DEF WireInv
  <2> QED  BY <2>3, <2>4, <2>5, <2>6 DEF WireInv
<1> QED  BY <1>1, <1>2

\* A registration is answered before any client can have heard of the exit node.
LEMMA RegisterKeepsWires ==
    ASSUME TypeOK, LinkInv, WireInv, NEW e \in Exits, NEW pref \in Codes \cup {None},
           Register(e, pref)
    PROVE  WireInv'
<1>1. PICK code \in CodesFor(pref) :
          CreateExitnodeSession(e, code) /\ SendExit(e, <<"REGISTERED", code>>)
  BY DEF Register
<1>2. <<"REGISTERED", code>> \in ExitMsgs
  BY <1>1, SessionAssumption DEF CodesFor, ExitMsgs
<1>3. /\ exitPc[e] = "fresh" /\ exitPc' = [exitPc EXCEPT ![e] = "sending"]
      /\ UNCHANGED <<clientPc, upVars, linkVars, attemptVars, toClient>>
  BY <1>1 DEF Register, ExitGoesTo, CreateExitnodeSession
<1> DEFINE m == <<"REGISTERED", code>>
<1>4. m \in ExitMsgs /\ SendExit(e, m)
      /\ m[1] = "REGISTERED" /\ \A x, y : m # <<"PEER_DISCONNECTED", x>> /\ m # <<"DATA", y>>
  BY <1>1, <1>2
<1> HIDE DEF m
<1>5. /\ ~exitUp[e] => toExit' = toExit
      /\ exitUp[e] => toExit'[e] = Append(toExit[e], m)
      /\ \A x \in Exits : x # e => toExit'[x] = toExit[x]
      /\ \A x \in Exits : \A y :
           Sent(toExit'[x], y) <=> Sent(toExit[x], y) \/ (x = e /\ exitUp[e] /\ y = m)
      /\ \A x \in Exits : \A c, t :
           Closed(toExit[x], c, t) => Closed(toExit'[x], c, t)
  BY <1>4, SendExitLogs
<1>6. PcsAdvance
  BY <1>3 DEF PcsAdvance, TypeOK
<1>7. AttemptInv'
  BY <1>3 DEF WireInv, AttemptInv, TypeOK
<1>8. \A c \in Clients : ClientWire(c)'
  BY <1>3, <1>6, ClientWireKept DEF WireInv
<1>9. ExitLogOK(toExit'[e], minted)
  <2>1. toExit[e] \in Seq(ExitMsgs) /\ ExitLogOK(toExit[e], minted)
    BY DEF WireInv, ExitWire, TypeOK
  <2>2. ExitLogOK(Append(toExit[e], m), minted)
    BY <1>4, <2>1, ExitLogAppend
  <2> QED  BY <1>5, <2>1, <2>2
<1>10. \A x \in Exits : ExitWire(x)'
  <2>1. ASSUME NEW x \in Exits PROVE ExitLogOK(toExit'[x], minted')
    BY <1>3, <1>5, <1>9 DEF WireInv, ExitWire
  <2> QED  BY <1>3, <1>4, <1>5, <1>6, <2>1, ExitWireKept DEF WireInv
<1>11. \A x \in Exits, c \in Clients : Story(x, c)'
  BY <1>3, <1>4, <1>5, StoryKept DEF WireInv
<1> QED  BY <1>7, <1>8, <1>10, <1>11 DEF WireInv

\* A refusal is the answer to CONNECT, and the only message to that client.
LEMMA RefuseKeepsWires ==
    ASSUME TypeOK, LinkInv, WireInv, NEW c \in Clients,
           NEW error \in {"invalid_code", "server_busy", "tunnel_error"},
           clientPc[c] \in {"fresh", "notifying"}, Refuse(c, error),
           UNCHANGED <<linkVars, attemptVars>>
    PROVE  WireInv'
<1> DEFINE m == <<"ERROR", error>>
<1>1. m \in ClientMsgs /\ SendClient(c, m) /\ m[1] = "ERROR"
  BY DEF Refuse, ClientMsgs
<1>2. /\ clientPc' = [clientPc EXCEPT ![c] = "sending"]
      /\ UNCHANGED <<exitPc, upVars, linkVars, attemptVars, toExit>>
  BY DEF Refuse, ClientGoesTo
<1>3. \A t : m # <<"CONNECTED", t>> /\ m # <<"PEER_DISCONNECTED", t>>
  OBVIOUS
<1> HIDE DEF m
<1>4. toClient[c] = <<>> /\ clientTunnel[c] = None
  BY DEF WireInv, ClientWire, LinkInv, HandlerInv, MintedInv
<1>5. /\ ~clientUp[c] => toClient' = toClient
      /\ clientUp[c] => toClient'[c] = Append(toClient[c], m)
      /\ \A d \in Clients : d # c => toClient'[d] = toClient[d]
      /\ \A d \in Clients : \A y :
           Sent(toClient'[d], y) <=> Sent(toClient[d], y) \/ (d = c /\ clientUp[c] /\ y = m)
  BY <1>1, SendClientLogs
<1>6. ClientLogOK(toClient'[c])
  <2>1. toClient[c] \in Seq(ClientMsgs) /\ ClientLogOK(toClient[c])
    BY DEF WireInv, ClientWire, TypeOK
  <2>2. ClientLogOK(Append(toClient[c], m))
    BY <1>1, <2>1, ClientLogAppend
  <2> QED  BY <1>5, <2>1, <2>2
<1>7. PcsAdvance
  BY <1>2 DEF PcsAdvance, TypeOK
<1>8. AttemptInv'
  BY <1>2 DEF WireInv, AttemptInv, TypeOK
<1>9. \A d \in Clients : d # c => ClientWire(d)'
  BY <1>2, <1>5, <1>7, ClientWireKept DEF WireInv
<1>10. ClientWire(c)'
  <2>1. c \notin joined
    BY DEF WireInv, ClientWire
  <2>2. clientPc'[c] = "sending"
    BY <1>2 DEF TypeOK
  <2> QED  BY <1>2, <1>4, <1>5, <1>6, <2>1, <2>2 DEF WireInv, ClientWire
<1>11. \A x \in Exits : ExitWire(x)'
  BY <1>2, <1>7, ExitWireKept DEF WireInv, ExitWire
<1>12. \A x \in Exits, d \in Clients : Story(x, d)'
  BY <1>2, <1>3, <1>5, StoryKept DEF WireInv
<1> QED  BY <1>8, <1>9, <1>10, <1>11, <1>12 DEF WireInv

\* A new attempt is announced under a tunnel id that no wire has seen.
LEMMA ConnectAnnounces ==
    ASSUME TypeOK, LinkInv, WireInv, NEW c \in Clients, NEW code \in Codes, Connect(c, code)
    PROVE  WireInv'
<1>0. PICK e : e = codes[KeyOf[code]]
  OBVIOUS
<1>1. PICK t \in Tunnels : /\ \A d \in Clients : minted[d] # t
                           /\ target' = [target EXCEPT ![c] = e]
                           /\ minted' = [minted EXCEPT ![c] = t]
                           /\ SendExit(e, <<"PEER_CONNECTING", t>>)
  BY <1>0 DEF Connect
<1>2. /\ clientPc[c] = "fresh" /\ clientPc' = [clientPc EXCEPT ![c] = "notifying"]
      /\ UNCHANGED <<exitPc, linkVars, upVars, joined, toClient>>
      /\ e \in exitnodes /\ e \in Exits
  BY <1>0 DEF Connect, ClientGoesTo, Found, TypeOK, TableTypeOK
<1>3. /\ exitPc[e] \notin {"none", "fresh"} /\ e # None /\ t # None
      /\ clientExit[c] = None /\ clientTunnel[c] = None
      /\ minted[c] = None /\ target[c] = None /\ toClient[c] = <<>> /\ c \notin joined
  BY <1>1, <1>2, SessionAssumption
     DEF LinkInv, HandlerInv, MintedInv, WireInv, AttemptInv, ClientWire
<1>6. /\ minted'[c] = t /\ target'[c] = e /\ clientPc'[c] = "notifying"
      /\ \A d \in Clients : d # c => minted'[d] = minted[d] /\ target'[d] = target[d]
  BY <1>1, <1>2 DEF TypeOK
<1> DEFINE m == <<"PEER_CONNECTING", t>>
<1>4. /\ m \in ExitMsgs /\ SendExit(e, m) /\ m[1] = "PEER_CONNECTING"
      /\ m = <<"PEER_CONNECTING", t>>
      /\ \A x, y : m # <<"PEER_DISCONNECTED", x>> /\ m # <<"DATA", y>>
  BY <1>1 DEF ExitMsgs
<1> HIDE DEF m
<1>5. /\ ~exitUp[e] => toExit' = toExit
      /\ exitUp[e] => toExit'[e] = Append(toExit[e], m)
      /\ \A x \in Exits : x # e => toExit'[x] = toExit[x]
      /\ \A x \in Exits : \A y :
           Sent(toExit'[x], y) <=> Sent(toExit[x], y) \/ (x = e /\ exitUp[e] /\ y = m)
      /\ \A x \in Exits : \A d, u :
           Closed(toExit[x], d, u) => Closed(toExit'[x], d, u)
  <2>1. e \in Exits /\ m \in ExitMsgs /\ SendExit(e, m)
    BY <1>2, <1>4
  <2>2. \A d : m # <<"DATA", d>>
    BY <1>4
  <2> QED  BY <2>1, <2>2, SendExitLogs
<1>7. ASSUME NEW x \in Exits
      PROVE  ~Sent(toExit[x], <<"DATA", c>>) /\ ~Sent(toExit'[x], <<"DATA", c>>)
  <2>1. x # None
    BY SessionAssumption
  <2>2. ~Sent(toExit[x], <<"DATA", c>>)
    BY <1>3, <2>1 DEF WireInv, Story
  <2> QED  BY <1>4, <1>5, <2>2
<1>8. PcsAdvance
  BY <1>2 DEF PcsAdvance, TypeOK
<1>9. AttemptInv'
  BY <1>2, <1>3, <1>6 DEF WireInv, AttemptInv, TypeOK
<1>10. \A d \in Clients : d # c => ClientWire(d)'
  BY <1>2, <1>6, <1>8, ClientWireKept DEF WireInv
<1>11. ClientWire(c)'
  BY <1>2, <1>3, <1>6, EmptyLog DEF ClientWire
<1>12. \A x \in Exits : ExitWire(x)'
  <2>1. ASSUME NEW x \in Exits PROVE ExitLogOK(toExit'[x], minted')
    <3>1. toExit[x] \in Seq(ExitMsgs) /\ ExitLogOK(toExit[x], minted)
      BY DEF WireInv, ExitWire, TypeOK
    <3>2. ExitLogOK(Append(toExit[x], m), minted)
      BY <1>4, <3>1, ExitLogAppend
    <3>3. ExitLogOK(toExit'[x], minted)
      BY <1>5, <3>1, <3>2
    <3>4. toExit' \in [Exits -> Seq(ExitMsgs)]
      BY <1>2, <1>4, SendExitType
    <3>5. \A d \in Clients : Sent(toExit'[x], <<"DATA", d>>) => minted'[d] = minted[d]
      BY <1>6, <1>7
    <3> QED  BY <3>3, <3>4, <3>5, ExitLogMinted
  <2>2. \A d \in Clients : clientPc[d] \in {"closing", "gone"} => minted'[d] = minted[d]
    BY <1>2, <1>6
  <2> QED  BY <1>2, <1>4, <1>5, <1>8, <2>1, <2>2, ExitWireKept DEF WireInv
<1>13. \A x \in Exits, d \in Clients : d # c => Story(x, d)'
  BY <1>2, <1>4, <1>5, <1>6, StoryKept DEF WireInv
<1>14. ASSUME NEW x \in Exits PROVE Story(x, c)'
  <2>1. target'[c] = x /\ exitUp'[x] => Sent(toExit'[x], <<"PEER_CONNECTING", minted'[c]>>)
    BY <1>2, <1>4, <1>5, <1>6
  <2>2. Closed(toExit'[x], c, minted'[c])
    BY <1>7, NoFramesClosed
  <2>3. c \notin joined'
    BY <1>1, <1>2 DEF WireInv, ClientWire
  <2> QED  BY <1>7, <2>1, <2>2, <2>3 DEF Story
<1> QED  BY <1>9, <1>10, <1>11, <1>12, <1>13, <1>14 DEF WireInv

\* What a link between two sessions of the table means for the locals.
LEMMA LinkFacts ==
    ASSUME TypeOK, LinkInv, WireInv, NEW e \in exitnodes, exitTunnel[e] # None
    PROVE  /\ e \in Exits /\ exitClient[e] \in Clients /\ exitClient[e] \in clients
           /\ clientExit[exitClient[e]] = e /\ target[exitClient[e]] = e
           /\ clientTunnel[exitClient[e]] = exitTunnel[e] /\ exitTunnel[e] = minted[exitClient[e]]
           /\ minted[exitClient[e]] \in Tunnels
<1>1. e \in Exits /\ e # None
  BY SessionAssumption DEF TypeOK, TableTypeOK
<1>2. exitClient[e] # None
  BY <1>1 DEF LinkInv, HalfLinkInv
<1>3. /\ exitClient[e] \in clients /\ clientExit[exitClient[e]] = e
      /\ clientTunnel[exitClient[e]] = exitTunnel[e]
  BY <1>2 DEF LinkInv, LinkAgreement
<1>4. exitClient[e] \in Clients
  BY <1>3 DEF TypeOK, TableTypeOK
<1>5. target[exitClient[e]] = e
  BY <1>1, <1>3, <1>4 DEF WireInv, AttemptInv
<1>6. exitTunnel[e] = minted[exitClient[e]]
  BY <1>3, <1>4 DEF LinkInv, MintedInv
<1>7. minted[exitClient[e]] \in Tunnels
  BY <1>1, <1>6 DEF TypeOK, TableTypeOK
<1> QED  BY <1>1, <1>3, <1>4, <1>5, <1>6, <1>7

\* Frames for a client are forwarded only while it is linked.
LEMMA FrameToClientKeepsWires ==
    ASSUME TypeOK, LinkInv, WireInv, NEW e \in Exits, RelayFromExit(e)
    PROVE  WireInv'
<1>1. PICK c : c = exitClient[e]
  OBVIOUS
<1> DEFINE m == <<"DATA", e>>
<1>2. /\ exitPc[e] = "serving" /\ exitPc' = [exitPc EXCEPT ![e] = "sending"]
      /\ e \in exitnodes /\ c \in clients /\ SendClient(c, m)
      /\ UNCHANGED <<clientPc, linkVars, upVars, attemptVars, toExit>>
  BY <1>1 DEF RelayFromExit, ExitGoesTo
<1>3. c \in Clients /\ c # None
  BY <1>2, SessionAssumption DEF TypeOK, TableTypeOK
<1>4. exitTunnel[e] # None
  BY <1>1, <1>3 DEF LinkInv, HalfLinkInv
<1>5. clientTunnel[c] # None
  BY <1>1, <1>2, <1>4, LinkFacts
<1>6. /\ m \in ClientMsgs /\ m[1] = "DATA" /\ \A t : m # <<"CONNECTED", t>>
      /\ SendClient(c, m)
  BY <1>2 DEF ClientMsgs
<1> HIDE DEF m
<1>7. /\ ~clientUp[c] => toClient' = toClient
      /\ clientUp[c] => toClient'[c] = Append(toClient[c], m)
      /\ \A d \in Clients : d # c => toClient'[d] = toClient[d]
      /\ \A d \in Clients : \A y :
           Sent(toClient'[d], y) <=> Sent(toClient[d], y) \/ (d = c /\ clientUp[c] /\ y = m)
  BY <1>3, <1>6, SendClientLogs
<1>8. PcsAdvance
  BY <1>2 DEF PcsAdvance, TypeOK
<1>9. AttemptInv'
  BY <1>2 DEF WireInv, AttemptInv, TypeOK
<1>10. \A d \in Clients : d # c => ClientWire(d)'
  BY <1>2, <1>7, <1>8, ClientWireKept DEF WireInv
<1>11. ClientWire(c)'
  <2>1. CASE ~clientUp[c]
    BY <1>2, <1>3, <1>7, <1>8, <2>1, ClientWireKept DEF WireInv
  <2>2. CASE clientUp[c]
    <3>1. /\ toClient[c] \in Seq(ClientMsgs) /\ ClientLogOK(toClient[c])
          /\ Sent(toClient[c], <<"CONNECTED", minted[c]>>) /\ Endless(toClient[c])
      BY <1>3, <1>5, <2>2 DEF WireInv, ClientWire, TypeOK
    <3>2. ClientLogOK(toClient'[c]) /\ Endless(toClient'[c])
      <4>1. ClientLogOK(Append(toClient[c], m))
        BY <1>6, <3>1, ClientLogAppend
      <4>2. Endless(Append(toClient[c], m))
        BY <1>6, <3>1, EndlessAppend
      <4> QED  BY <1>7, <2>2, <4>1, <4>2
    <3>3. clientPc[c] \notin {"none", "fresh", "notifying"}
      BY <1>3, <1>5 DEF LinkInv, HandlerInv, MintedInv
    <3>4. Sent(toClient'[c], <<"CONNECTED", minted[c]>>)
      BY <1>3, <1>7, <3>1
    <3> QED  BY <1>2, <1>3, <1>5, <2>2, <3>1, <3>2, <3>3, <3>4 DEF WireInv, ClientWire
  <2> QED  BY <2>1, <2>2
<1>12. \A x \in Exits : ExitWire(x)'
  BY <1>2, <1>8, ExitWireKept DEF WireInv, ExitWire
<1>13. ASSUME NEW x \in Exits, NEW d \in Clients PROVE Story(x, d)'
  BY <1>2, StoryKept DEF WireInv
<1> QED  BY <1>3, <1>9, <1>10, <1>11, <1>12, <1>13 DEF WireInv

\* Frames for an exit node are forwarded only for the client it is linked to, whose
\* tunnel has been announced, has not ended, and follows the end of all others.
LEMMA FrameToExitKeepsWires ==
    ASSUME TypeOK, LinkInv, WireInv, NEW c \in Clients, RelayFromClient(c)
    PROVE  WireInv'
<1>1. PICK e : e = clientExit[c]
  OBVIOUS
<1> DEFINE m == <<"DATA", c>>
<1>2. /\ clientPc[c] = "serving" /\ clientPc' = [clientPc EXCEPT ![c] = "sending"]
      /\ e \in exitnodes /\ SendExit(e, m)
      /\ UNCHANGED <<exitPc, linkVars, upVars, attemptVars, toClient>>
  BY <1>1 DEF RelayFromClient, ClientGoesTo
<1>3. e \in Exits /\ e # None /\ c # None /\ c \in clients
  <2>1. e \in Exits
    BY <1>2 DEF TypeOK, TableTypeOK
  <2>2. e # None /\ c # None
    BY <2>1, SessionAssumption
  <2>3. c \in clients
    BY <1>2 DEF LinkInv, HandlerInv
  <2> QED  BY <2>1, <2>2, <2>3
<1>4. exitClient[e] = c /\ exitTunnel[e] # None
  BY <1>1, <1>2, <1>3 DEF LinkInv, LinkAgreement, HalfLinkInv
<1>5. target[c] = e /\ exitTunnel[e] = minted[c] /\ minted[c] \in Tunnels
  BY <1>2, <1>4, LinkFacts
<1>6. /\ m \in ExitMsgs /\ m[1] = "DATA" /\ m[2] = c /\ m = <<"DATA", c>>
      /\ \A t : m # <<"PEER_DISCONNECTED", t>> /\ SendExit(e, m)
  BY <1>2 DEF ExitMsgs
<1> HIDE DEF m
<1>7. /\ ~exitUp[e] => toExit' = toExit
      /\ exitUp[e] => toExit'[e] = Append(toExit[e], m)
      /\ \A x \in Exits : x # e => toExit'[x] = toExit[x]
      /\ \A x \in Exits : \A y :
           Sent(toExit'[x], y) <=> Sent(toExit[x], y) \/ (x = e /\ exitUp[e] /\ y = m)
      /\ \A x \in Exits : \A d, t :
           Closed(toExit[x], d, t) /\ (x = e => m # <<"DATA", d>>) => Closed(toExit'[x], d, t)
  BY <1>3, <1>6, SendExitLogs
<1>8. PcsAdvance
  BY <1>2 DEF PcsAdvance, TypeOK
<1>9. AttemptInv'
  BY <1>2 DEF WireInv, AttemptInv, TypeOK
<1>10. \A d \in Clients : ClientWire(d)'
  BY <1>2, <1>8, ClientWireKept DEF WireInv
<1>11. ASSUME exitUp[e] PROVE ExitLogOK(toExit'[e], minted)
  <2>1. Sent(toExit[e], <<"PEER_CONNECTING", minted[c]>>)
    BY <1>3, <1>5, <1>11 DEF WireInv, Story
  <2>2. ~Sent(toExit[e], <<"PEER_DISCONNECTED", minted[c]>>)
    <3> SUFFICES ASSUME Sent(toExit[e], <<"PEER_DISCONNECTED", minted[c]>>) PROVE FALSE
      OBVIOUS
    <3>1. PICK d \in Clients : minted[d] = minted[c] /\ clientPc[d] \in {"closing", "gone"}
      BY <1>3, <1>5 DEF WireInv, ExitWire
    <3>2. d = c
      BY <1>5, <3>1, SessionAssumption DEF LinkInv, MintedInv
    <3> QED  BY <1>2, <3>1, <3>2
  <2>3. ASSUME NEW d \in Clients, d # c PROVE Closed(toExit[e], d, minted[d])
    <3>1. minted[d] # minted[c]
      BY <1>5, <2>3, SessionAssumption DEF LinkInv, MintedInv
    <3> QED  BY <1>3, <1>5, <3>1 DEF WireInv, Story
  <2>4. toExit[e] \in Seq(ExitMsgs) /\ ExitLogOK(toExit[e], minted)
    BY <1>3 DEF WireInv, ExitWire, TypeOK
  <2>5. ExitLogOK(Append(toExit[e], m), minted)
    BY <1>6, <2>1, <2>2, <2>3, <2>4, ExitLogAppend
  <2> QED  BY <1>7, <1>11, <2>5
<1>12. \A x \in Exits : ExitWire(x)'
  <2>1. ASSUME NEW x \in Exits PROVE ExitLogOK(toExit'[x], minted')
    BY <1>2, <1>7, <1>11 DEF WireInv, ExitWire
  <2> QED  BY <1>2, <1>6, <1>7, <1>8, <2>1, ExitWireKept DEF WireInv
<1>13. \A x \in Exits, d \in Clients : x # e \/ d # c => Story(x, d)'
  <2> SUFFICES ASSUME NEW x \in Exits, NEW d \in Clients, x # e \/ d # c PROVE Story(x, d)'
    OBVIOUS
  <2>1. x = e => m # <<"DATA", d>>
    BY <1>6
  <2> QED  BY <1>2, <1>7, <2>1, StoryKept DEF WireInv
<1>14. Story(e, c)'
  <2>1. target[c] = e /\ exitUp[e] => Sent(toExit'[e], <<"PEER_CONNECTING", minted[c]>>)
    BY <1>3, <1>7 DEF WireInv, Story
  <2> QED  BY <1>2, <1>5, <2>1 DEF Story
<1> QED  BY <1>9, <1>10, <1>12, <1>13, <1>14 DEF WireInv

\* A link is made for a client that has heard nothing, with an exit node that has
\* left every earlier tunnel.
LEMMA LinkKeepsWires ==
    ASSUME TypeOK, LinkInv, WireInv, NEW c \in Clients, LinkSucceeds(c)
    PROVE  WireInv'
<1>1. PICK e : e = target[c]
  OBVIOUS
<1> DEFINE m == <<"CONNECTED", minted[c]>>
<1>2. /\ clientPc[c] = "notifying" /\ clientPc' = [clientPc EXCEPT ![c] = "sending"]
      /\ e \in exitnodes /\ exitClient[e] = None
      /\ exitTunnel' = [exitTunnel EXCEPT ![e] = minted[c]]
      /\ clientExit' = [clientExit EXCEPT ![c] = e]
      /\ clientTunnel' = [clientTunnel EXCEPT ![c] = minted[c]]
      /\ SendClient(c, m)
      /\ joined' = joined \cup {c} /\ UNCHANGED <<exitPc, upVars, target, minted, toExit>>
  BY <1>1 DEF LinkSucceeds, CanLink, IsAvailable, LinkSessions, ClientGoesTo
<1>3. /\ e \in Exits /\ e # None /\ c # None /\ minted[c] \in Tunnels /\ minted[c] # None
      /\ exitTunnel[e] = None /\ toClient[c] = <<>>
  <2>1. e \in Exits
    BY <1>2 DEF TypeOK, TableTypeOK
  <2>2. e # None /\ c # None
    BY <2>1, SessionAssumption
  <2>3. minted[c] # None
    BY <1>2 DEF LinkInv, HandlerInv
  <2>4. minted[c] \in Tunnels
    BY <2>3 DEF TypeOK
  <2>5. exitTunnel[e] = None
    BY <1>2, <2>1 DEF LinkInv, HalfLinkInv
  <2>6. toClient[c] = <<>>
    BY <1>2 DEF WireInv, ClientWire
  <2> QED  BY <2>1, <2>2, <2>3, <2>4, <2>5, <2>6
<1>4. /\ exitTunnel'[e] = minted[c] /\ \A x \in Exits : x # e => exitTunnel'[x] = exitTunnel[x]
      /\ clientTunnel'[c] = minted[c]
      /\ \A d \in Clients : d # c => clientTunnel'[d] = clientTunnel[d]
      /\ clientPc'[c] = "sending"
  BY <1>2, <1>3 DEF TypeOK, TableTypeOK
<1>5. /\ m \in ClientMsgs /\ m[1] = "CONNECTED" /\ SendClient(c, m) /\ m = <<"CONNECTED", minted[c]>>
      /\ \A t : m # <<"PEER_DISCONNECTED", t>>
  BY <1>2, <1>3 DEF ClientMsgs
<1> HIDE DEF m
<1>6. /\ ~clientUp[c] => toClient' = toClient
      /\ clientUp[c] => toClient'[c] = Append(toClient[c], m)
      /\ \A d \in Clients : d # c => toClient'[d] = toClient[d]
      /\ \A d \in Clients : \A y :
           Sent(toClient'[d], y) <=> Sent(toClient[d], y) \/ (d = c /\ clientUp[c] /\ y = m)
  <2>1. m \in ClientMsgs /\ SendClient(c, m)
    BY <1>5
  <2> QED  BY <2>1, SendClientLogs
<1>7. PcsAdvance
  BY <1>2 DEF PcsAdvance, TypeOK
<1>8. AttemptInv'
  BY <1>1, <1>2, <1>3 DEF WireInv, AttemptInv, TypeOK, TableTypeOK
<1>9. \A d \in Clients : d # c => ClientWire(d)'
  BY <1>2, <1>4, <1>6, <1>7, ClientWireKept DEF WireInv
<1>10. ClientWire(c)'
  <2>1. toClient[c] \in Seq(ClientMsgs) /\ ClientLogOK(toClient[c]) /\ Endless(toClient[c])
    BY <1>3, EmptyLog DEF WireInv, ClientWire, TypeOK
  <2>2. ClientLogOK(Append(toClient[c], m)) /\ Endless(Append(toClient[c], m))
    BY <1>5, <2>1, ClientLogAppend, EndlessAppend
  <2>3. ClientLogOK(toClient'[c]) /\ Endless(toClient'[c])
    BY <1>6, <2>1, <2>2
  <2>4. clientUp[c] => Sent(toClient'[c], <<"CONNECTED", minted[c]>>)
    BY <1>5, <1>6
  <2>5. ~clientUp[c] => toClient'[c] = <<>>
    BY <1>3, <1>6
  <2> QED  BY <1>1, <1>2, <1>3, <1>4, <2>3, <2>4, <2>5 DEF ClientWire
<1>11. \A x \in Exits : ExitWire(x)'
  BY <1>2, <1>7, ExitWireKept DEF WireInv, ExitWire
<1>12. ASSUME NEW x \in Exits, NEW d \in Clients, x # e, d # c PROVE Story(x, d)'
  <2>1. Story(x, d)
    BY DEF WireInv
  <2>2. /\ target'[d] = target[d] /\ minted'[d] = minted[d] /\ exitTunnel'[x] = exitTunnel[x]
        /\ exitUp'[x] = exitUp[x] /\ toExit'[x] = toExit[x]
    BY <1>2, <1>4, <1>12
  <2>3. d \in joined' => d \in joined
    BY <1>2, <1>12
  <2> QED  BY <2>1, <2>2, <2>3, StoryKept
<1>13. ASSUME NEW x \in Exits, x # e PROVE Story(x, c)'
  BY <1>1, <1>2, <1>4, <1>13 DEF WireInv, Story
<1>14. Story(e, c)'
  BY <1>2, <1>3, <1>4 DEF WireInv, Story
<1>15. ASSUME NEW d \in Clients, d # c PROVE Story(e, d)'
  <2>1. /\ target[d] = e /\ exitUp[e] => Sent(toExit[e], <<"PEER_CONNECTING", minted[d]>>)
        /\ Sent(toExit[e], <<"DATA", d>>) => target[d] = e
    BY <1>3 DEF WireInv, Story
  <2>2. target[d] = e => minted[d] # None
    BY <1>3 DEF WireInv, AttemptInv
  <2>3. Closed(toExit[e], d, minted[d])
    <3>1. CASE target[d] = e
      BY <1>3, <2>2, <3>1 DEF WireInv, Story
    <3>2. CASE target[d] # e
      BY <2>1, <3>2, NoFramesClosed
    <3> QED  BY <3>1, <3>2
  <2>4. target[d] = e /\ exitUp[e] /\ d \in joined
           => Sent(toExit[e], <<"PEER_DISCONNECTED", minted[d]>>)
    BY <1>3, <2>2 DEF WireInv, Story
  <2>5. d \in joined' => d \in joined
    BY <1>2, <1>15
  <2> QED  BY <1>2, <2>1, <2>3, <2>4, <2>5 DEF Story
<1> QED  BY <1>8, <1>9, <1>10, <1>11, <1>12, <1>13, <1>14, <1>15 DEF WireInv

\* The exit node that has dropped has an empty wire; its client is told.
LEMMA ExitCloseKeepsWires ==
    ASSUME TypeOK, LinkInv, WireInv, NEW e \in Exits, ExitClosesLinked(e)
    PROVE  WireInv'
<1>1. PICK c : c = exitClient[e]
  OBVIOUS
<1>2. e \in exitnodes /\ exitTunnel[e] # None /\ ~exitUp[e]
  BY DEF ExitClosesLinked
<1>3. /\ c \in Clients /\ c \in clients /\ clientTunnel[c] = minted[c]
      /\ exitTunnel[e] = minted[c] /\ minted[c] \in Tunnels /\ minted[c] # None
  BY <1>1, <1>2, LinkFacts
<1> DEFINE m == <<"PEER_DISCONNECTED", minted[c]>>
<1>4. /\ exitPc[e] \in {"fresh", "serving"} /\ exitPc' = [exitPc EXCEPT ![e] = "closing"]
      /\ exitTunnel' = [exitTunnel EXCEPT ![e] = None]
      /\ clientExit' = [clientExit EXCEPT ![c] = None]
      /\ clientTunnel' = [clientTunnel EXCEPT ![c] = None]
      /\ SendClient(c, m)
      /\ UNCHANGED <<clientPc, upVars, attemptVars, toExit>>
  BY <1>1, <1>2, <1>3, UnlinkExact DEF ExitClosesLinked, TellClient, ExitGoesTo
<1>5. /\ exitTunnel'[e] = None /\ \A x \in Exits : x # e => exitTunnel'[x] = exitTunnel[x]
      /\ clientTunnel'[c] = None
      /\ \A d \in Clients : d # c => clientTunnel'[d] = clientTunnel[d]
  BY <1>3, <1>4 DEF TypeOK, TableTypeOK
<1>6. /\ m \in ClientMsgs /\ m[1] = "PEER_DISCONNECTED" /\ SendClient(c, m)
      /\ m = <<"PEER_DISCONNECTED", minted[c]>> /\ \A t : m # <<"CONNECTED", t>>
  BY <1>3, <1>4 DEF ClientMsgs
<1> HIDE DEF m
<1>7. /\ ~clientUp[c] => toClient' = toClient
      /\ clientUp[c] => toClient'[c] = Append(toClient[c], m)
      /\ \A d \in Clients : d # c => toClient'[d] = toClient[d]
      /\ \A d \in Clients : \A y :
           Sent(toClient'[d], y) <=> Sent(toClient[d], y) \/ (d = c /\ clientUp[c] /\ y = m)
  <2>1. c \in Clients /\ m \in ClientMsgs /\ SendClient(c, m)
    BY <1>3, <1>6
  <2> QED  BY <2>1, SendClientLogs
<1>8. PcsAdvance
  BY <1>4 DEF PcsAdvance, TypeOK
<1>9. AttemptInv'
  BY <1>3, <1>4 DEF WireInv, AttemptInv, TypeOK, TableTypeOK
<1>10. \A d \in Clients : d # c => ClientWire(d)'
  BY <1>4, <1>5, <1>7, <1>8, ClientWireKept DEF WireInv
<1>11. ClientWire(c)'
  <2>1. toClient[c] \in Seq(ClientMsgs) /\ ClientLogOK(toClient[c])
    BY <1>3 DEF WireInv, ClientWire, TypeOK
  <2>2. ClientLogOK(Append(toClient[c], m))
    BY <1>6, <2>1, ClientLogAppend
  <2>3. ClientLogOK(toClient'[c])
    BY <1>7, <2>1, <2>2
  <2>4. clientPc[c] \notin {"none", "fresh", "notifying"}
    BY <1>3 DEF LinkInv, HandlerInv, MintedInv
  <2>5. target[c] # None
    BY <1>1, <1>2, <1>3, LinkFacts, SessionAssumption
  <2>6. ~clientUp[c] => toClient'[c] = <<>>
    BY <1>3, <1>7 DEF WireInv, ClientWire
  <2>7. clientUp[c] => Sent(toClient'[c], <<"PEER_DISCONNECTED", minted[c]>>)
    BY <1>3, <1>6, <1>7
  <2> QED  BY <1>4, <1>5, <2>3, <2>4, <2>5, <2>6, <2>7 DEF ClientWire
<1>12. \A x \in Exits : ExitWire(x)'
  BY <1>4, <1>8, ExitWireKept DEF WireInv, ExitWire
<1>13. ASSUME NEW x \in Exits, NEW d \in Clients, x # e PROVE Story(x, d)'
  BY <1>4, <1>5, <1>13, StoryKept DEF WireInv
<1>14. ASSUME NEW d \in Clients PROVE Story(e, d)'
  <2>1. toExit'[e] = <<>> /\ ~exitUp'[e]
    BY <1>2, <1>4 DEF WireInv, ExitWire
  <2>2. ~Sent(toExit'[e], <<"DATA", d>>) /\ Closed(toExit'[e], d, minted'[d])
    BY <2>1 DEF Sent, Closed
  <2> QED  BY <2>1, <2>2 DEF Story
<1> QED  BY <1>9, <1>10, <1>11, <1>12, <1>13, <1>14 DEF WireInv

\* The client that has dropped has an empty wire; its exit node is told.
LEMMA ClientCloseKeepsWires ==
    ASSUME TypeOK, LinkInv, WireInv, NEW c \in Clients, ClientClosesLinked(c)
    PROVE  WireInv'
<1>1. PICK e \in Holders(clientTunnel[c]) : SendExit(e, <<"PEER_DISCONNECTED", clientTunnel[c]>>)
  BY DEF ClientClosesLinked
<1>2. /\ e \in exitnodes /\ exitTunnel[e] = clientTunnel[c] /\ exitTunnel[e] # None
      /\ clientTunnel[c] = minted[c] /\ ~clientUp[c]
  BY <1>1 DEF ClientClosesLinked, Holders, LinkInv, MintedInv
<1>3. /\ e \in Exits /\ exitClient[e] = c /\ target[c] = e /\ c \in Clients
      /\ exitTunnel[e] = minted[c] /\ minted[c] \in Tunnels /\ minted[c] # None
  <2>1. minted[exitClient[e]] = minted[c] /\ exitClient[e] \in Clients /\ minted[c] # None
    BY <1>2, LinkFacts
  <2>2. exitClient[e] = c
    BY <2>1 DEF LinkInv, MintedInv
  <2> QED  BY <1>2, <2>1, <2>2, LinkFacts
<1> DEFINE m == <<"PEER_DISCONNECTED", minted[c]>>
<1>4. /\ clientPc[c] \in {"fresh", "serving"} /\ clientPc' = [clientPc EXCEPT ![c] = "closing"]
      /\ exitTunnel' = [exitTunnel EXCEPT ![e] = None]
      /\ clientExit' = [clientExit EXCEPT ![c] = None]
      /\ clientTunnel' = [clientTunnel EXCEPT ![c] = None]
      /\ SendExit(e, m)
      /\ UNCHANGED <<exitPc, upVars, attemptVars, toClient>>
  BY <1>1, <1>2, <1>3, UnlinkExact DEF ClientClosesLinked, ClientGoesTo
<1>5. /\ exitTunnel'[e] = None /\ \A x \in Exits : x # e => exitTunnel'[x] = exitTunnel[x]
      /\ clientTunnel'[c] = None
      /\ \A d \in Clients : d # c => clientTunnel'[d] = clientTunnel[d]
      /\ clientPc'[c] = "closing"
  BY <1>3, <1>4 DEF TypeOK, TableTypeOK
<1>6. /\ m \in ExitMsgs /\ m[1] = "PEER_DISCONNECTED" /\ SendExit(e, m)
      /\ m = <<"PEER_DISCONNECTED", minted[c]>> /\ \A d : m # <<"DATA", d>>
  BY <1>3, <1>4 DEF ExitMsgs
<1>17. \A t : m = <<"PEER_DISCONNECTED", t>> => t = minted[c]
  OBVIOUS
<1> HIDE DEF m
<1>7. /\ ~exitUp[e] => toExit' = toExit
      /\ exitUp[e] => toExit'[e] = Append(toExit[e], m)
      /\ \A x \in Exits : x # e => toExit'[x] = toExit[x]
      /\ \A x \in Exits : \A y :
           Sent(toExit'[x], y) <=> Sent(toExit[x], y) \/ (x = e /\ exitUp[e] /\ y = m)
      /\ \A x \in Exits : \A d, t :
           Closed(toExit[x], d, t) => Closed(toExit'[x], d, t)
  <2>1. e \in Exits /\ m \in ExitMsgs /\ SendExit(e, m)
    BY <1>3, <1>6
  <2>2. \A d : m # <<"DATA", d>>
    BY <1>6
  <2> QED  BY <2>1, <2>2, SendExitLogs
<1>8. PcsAdvance
  BY <1>4 DEF PcsAdvance, TypeOK
<1>9. AttemptInv'
  BY <1>3, <1>4 DEF WireInv, AttemptInv, TypeOK, TableTypeOK
<1>10. \A d \in Clients : d # c => ClientWire(d)'
  BY <1>4, <1>5, <1>8, ClientWireKept DEF WireInv
<1>11. ClientWire(c)'
  <2>1. toClient[c] = <<>>
    BY <1>2, <1>3 DEF WireInv, ClientWire
  <2>2. target[c] # None
    BY <1>3, SessionAssumption
  <2> QED  BY <1>2, <1>4, <1>5, <2>1, <2>2, EmptyLog DEF ClientWire
<1>12. \A x \in Exits : ExitWire(x)'
  <2>1. ASSUME NEW x \in Exits PROVE ExitLogOK(toExit'[x], minted)
    <3>1. toExit[x] \in Seq(ExitMsgs) /\ ExitLogOK(toExit[x], minted)
      BY DEF WireInv, ExitWire, TypeOK
    <3>2. ExitLogOK(Append(toExit[x], m), minted)
      BY <1>6, <3>1, ExitLogAppend
    <3> QED  BY <1>7, <3>1, <3>2
  <2>2. ASSUME NEW x \in Exits, x # e PROVE ExitWire(x)'
    BY <1>4, <1>7, <1>8, <2>1, <2>2, ExitWireKept DEF WireInv
  <2>3. ExitWire(e)'
    <3>1. ASSUME NEW t \in Tunnels, Sent(toExit'[e], <<"PEER_DISCONNECTED", t>>)
          PROVE  \E d \in Clients : minted'[d] = t /\ clientPc'[d] \in {"closing", "gone"}
      <4>1. CASE Sent(toExit[e], <<"PEER_DISCONNECTED", t>>)
        <5>1. PICK d \in Clients : minted[d] = t /\ clientPc[d] \in {"closing", "gone"}
          BY <1>3, <4>1 DEF WireInv, ExitWire
        <5> QED  BY <1>4, <1>8, <5>1 DEF PcsAdvance
      <4>2. CASE m = <<"PEER_DISCONNECTED", t>>
        BY <1>4, <1>5, <1>17, <4>2
      <4> QED  BY <1>3, <1>7, <3>1, <4>1, <4>2
    <3>2. ~exitUp[e] => toExit'[e] = <<>>
      BY <1>3, <1>7 DEF WireInv, ExitWire
    <3> QED  BY <1>3, <1>4, <2>1, <3>1, <3>2 DEF ExitWire
  <2> QED  BY <2>2, <2>3
<1>13. \A x \in Exits, d \in Clients : x # e => Story(x, d)'
  BY <1>4, <1>5, <1>7, StoryKept DEF WireInv
<1>14. ASSUME NEW d \in Clients PROVE Story(e, d)'
  <2>1. /\ target[d] = e /\ exitUp[e] => Sent(toExit'[e], <<"PEER_CONNECTING", minted[d]>>)
        /\ Sent(toExit'[e], <<"DATA", d>>) => target[d] = e
    <3>1. /\ target[d] = e /\ exitUp[e] => Sent(toExit[e], <<"PEER_CONNECTING", minted[d]>>)
          /\ Sent(toExit[e], <<"DATA", d>>) => target[d] = e
      BY <1>3 DEF WireInv, Story
    <3>2. /\ \A y : Sent(toExit[e], y) => Sent(toExit'[e], y)
          /\ Sent(toExit'[e], <<"DATA", d>>) => Sent(toExit[e], <<"DATA", d>>)
      BY <1>3, <1>6, <1>7
    <3> QED  BY <3>1, <3>2
  <2>2. CASE d = c
    <3>1. Closed(toExit'[e], c, minted[c])
      <4>1. CASE exitUp[e]
        <5>1. toExit[e] \in Seq(ExitMsgs)
          BY <1>3 DEF TypeOK
        <5>2. Closed(Append(toExit[e], m), c, minted[c])
          BY <1>6, <5>1, ClosedAppend
        <5> QED  BY <1>7, <4>1, <5>2
      <4>2. CASE ~exitUp[e]
        BY <1>3, <1>7, <4>2 DEF WireInv, ExitWire, Closed
      <4> QED  BY <4>1, <4>2
    <3>2. exitUp[e] => Sent(toExit'[e], <<"PEER_DISCONNECTED", minted[c]>>)
      BY <1>3, <1>6, <1>7
    <3> QED  BY <1>4, <2>1, <2>2, <3>1, <3>2 DEF Story
  <2>3. CASE d # c
    <3>1. minted[d] # minted[c]
      BY <1>3, <2>3 DEF LinkInv, MintedInv
    <3>2. Closed(toExit'[e], d, minted[d])
      BY <1>3, <1>7, <3>1 DEF WireInv, Story
    <3>3. target[d] = e /\ exitUp[e] /\ d \in joined
              => Sent(toExit'[e], <<"PEER_DISCONNECTED", minted[d]>>)
      BY <1>3, <1>7, <3>1 DEF WireInv, Story
    <3> QED  BY <1>4, <2>1, <3>2, <3>3 DEF Story
  <2> QED  BY <2>2, <2>3
<1> QED  BY <1>9, <1>10, <1>11, <1>12, <1>13, <1>14 DEF WireInv

LEMMA WireInit == Init => WireInv
<1> SUFFICES ASSUME Init PROVE WireInv
  OBVIOUS
<1>1. AttemptInv
  BY DEF Init, TableInit, AttemptInv
<1>2. \A c \in Clients : ClientWire(c)
  BY EmptyLog DEF Init, TableInit, ClientWire
<1>3. ASSUME NEW e \in Exits PROVE ExitWire(e)
  <2>1. toExit[e] = <<>>
    BY DEF Init
  <2> QED  BY <2>1, EmptyLog DEF ExitWire
<1>4. \A e \in Exits, c \in Clients : Story(e, c)
  BY EmptyLog DEF Init, TableInit, Story
<1> QED  BY <1>1, <1>2, <1>3, <1>4 DEF WireInv

\* Every step of a handler, of a peer or of the clean-up loop.
LEMMA WireStep == TypeOK /\ LinkInv /\ WireInv /\ [Next]_vars => WireInv'
<1> SUFFICES ASSUME TypeOK, LinkInv, WireInv, [Next]_vars PROVE WireInv'
  OBVIOUS
<1>1. ASSUME NEW e \in Exits, ExitHandler(e) PROVE WireInv'
  <2>1. CASE \E pref \in Codes \cup {None} : Register(e, pref)
    BY <2>1, RegisterKeepsWires
  <2>2. CASE RelayFromExit(e)
    BY <2>2, FrameToClientKeepsWires
  <2>3. CASE ExitClosesLinked(e)
    BY <2>3, ExitCloseKeepsWires
  <2>4. CASE ExitSent(e)
    BY <2>4, WiresUntouched DEF ExitSent, ExitGoesTo, PcsAdvance, TypeOK
  <2>5. CASE ExitClosesIdle(e)
    BY <2>5, WiresUntouched DEF ExitClosesIdle, ExitGoesTo, PcsAdvance, TypeOK
  <2>6. CASE ExitRemoved(e)
    BY <2>6, WiresUntouched DEF ExitRemoved, ExitGoesTo, PcsAdvance, TypeOK
  <2> QED  BY <1>1, <2>1, <2>2, <2>3, <2>4, <2>5, <2>6 DEF ExitHandler
<1>2. ASSUME NEW c \in Clients, ClientHandler(c) PROVE WireInv'
  <2>1. ASSUME NEW code \in Codes, ConnectInvalid(c, code) PROVE WireInv'
    BY <2>1, RefuseKeepsWires DEF ConnectInvalid, DropUnusable, RemoveExitnodeSessions
  <2>2. ASSUME NEW code \in Codes, ConnectBusy(c, code) PROVE WireInv'
    BY <2>2, RefuseKeepsWires DEF ConnectBusy
  <2>3. ASSUME NEW code \in Codes, ConnectUnreachable(c, code) PROVE WireInv'
    BY <2>3, RefuseKeepsWires DEF ConnectUnreachable
  <2>4. ASSUME NEW code \in Codes, Connect(c, code) PROVE WireInv'
    BY <2>4, ConnectAnnounces
  <2>5. CASE LinkSucceeds(c)
    BY <2>5, LinkKeepsWires
  <2>6. CASE LinkFails(c)
    BY <2>6, RefuseKeepsWires DEF LinkFails
  <2>7. CASE RelayFromClient(c)
    BY <2>7, FrameToExitKeepsWires
  <2>8. CASE ClientClosesLinked(c)
    BY <2>8, ClientCloseKeepsWires
  <2>9. CASE ClientSent(c)
    BY <2>9, WiresUntouched DEF ClientSent, ClientGoesTo, PcsAdvance, TypeOK
  <2>10. CASE ClientClosesIdle(c)
    BY <2>10, WiresUntouched DEF ClientClosesIdle, ClientGoesTo, PcsAdvance, TypeOK
  <2>11. CASE ClientRemoved(c)
    BY <2>11, WiresUntouched DEF ClientRemoved, ClientGoesTo, PcsAdvance, TypeOK
  <2> QED  BY <1>2, <2>1, <2>2, <2>3, <2>4, <2>5, <2>6, <2>7, <2>8, <2>9, <2>10, <2>11
           DEF ClientHandler
<1>3. CASE CleanupExpired
  BY <1>3, WiresUntouched DEF CleanupExpired, PcsAdvance
<1>4. CASE Environment
  <2>1. ASSUME NEW e \in Exits, Expire(e) PROVE WireInv'
    BY <2>1, WiresUntouched DEF Expire, PcsAdvance
  <2> QED  BY <1>4, <2>1, ConnectKeepsWires, DropKeepsWires DEF Environment
<1>5. CASE UNCHANGED vars
  BY <1>5, WiresUntouched DEF vars, PcsAdvance
<1> QED  BY <1>1, <1>2, <1>3, <1>4, <1>5 DEF Next

\* On every websocket, tunnel data lies between the announcement and the end of its
\* tunnel, the data of two clients of one exit node is separated by the end of the
\* first one's tunnel, and a peer that was told of a tunnel is told of its end.
THEOREM WiresTellOneStory == Spec => []WireOrder
<1>1. Init => TypeOK /\ LinkInv /\ WireInv
  BY LinkInit, WireInit
<1>2. TypeOK /\ LinkInv /\ WireInv /\ [Next]_vars => WireInv'
  BY WireStep
<1>3. TypeOK /\ LinkInv /\ WireInv => WireOrder
  BY WireFromLogs
<1> QED  BY <1>1, <1>2, <1>3, LinkInvariant, PTL DEF Spec

(***************************************************************************)
(* The programs at the two ends (Reconnection)                             *)
(***************************************************************************)

\* The session of a websocket is in the table or has been let go for its age.
Known(e) == e \in exitnodes \/ expired[e]

\* An exit node whose socket is up has a session, present or lapsed, once it has
\* registered, and what it was told is its code.
ExitSide(e) ==
    /\ expired[e] => exitPc[e] \notin {"none", "fresh"}
    /\ exitUp[e] => exitPc[e] \in {"fresh", "serving", "sending"}
    /\ exitUp[e] /\ exitPc[e] # "fresh" => Known(e)
    /\ ~exitUp[e] => toExit[e] = <<>>
    /\ \A k : Sent(toExit[e], <<"REGISTERED", k>>)
                => Known(e) /\ exitPc[e] \notin {"none", "fresh"} /\ exitCode[e] = k

\* Where a client is that has a socket, and what it has been written.
Unanswered(c) == toClient[c] = <<>> /\ clientPc[c] \in {"fresh", "notifying"}

Answered(c) ==
    /\ clientPc[c] \in {"sending", "serving"}
    /\ \/ /\ Len(toClient[c]) = 1 /\ toClient[c][1][1] = "ERROR"
          /\ clientTunnel[c] = None
       \/ /\ Len(toClient[c]) = 1 /\ toClient[c][1] = <<"CONNECTED", minted[c]>>
          /\ clientTunnel[c] = minted[c] /\ minted[c] # None
       \/ /\ Len(toClient[c]) = 2 /\ toClient[c][1] = <<"CONNECTED", minted[c]>>
          /\ toClient[c][2] = <<"PEER_DISCONNECTED", minted[c]>>
          /\ clientTunnel[c] = None

ClientSide(c) ==
    IF clientUp[c] THEN Unanswered(c) \/ Answered(c) ELSE toClient[c] = <<>>

\* What a step does not take back.
ExitOnward(e) ==
    /\ exitPc[e] # "none" => exitPc'[e] # "none" /\ (exitUp'[e] => exitUp[e])
    /\ exitUp'[e] /\ Known(e) => Known(e)' /\ exitCode'[e] = exitCode[e]

ClientOnward(c) ==
    /\ clientPc[c] # "none" => clientPc'[c] # "none" /\ (clientUp'[c] => clientUp[c])
    /\ clientUp'[c] /\ Len(toClient[c]) >= 1 =>
        Len(toClient'[c]) >= 1 /\ toClient'[c][1] = toClient[c][1]

Sides == (\A e \in Exits : ExitSide(e)) /\ (\A c \in Clients : ClientSide(c))

RelayInv == TypeOK /\ LinkInv /\ CodeInv /\ Sides

\* The relay's steps that these programs can cause.
ExitMove(e) ==
    \/ ExitConnects(e) \/ ExitDrops(e) \/ Expire(e)
    \/ \E pref \in Codes : Register(e, pref)
    \/ ExitSent(e) \/ ExitClosesLinked(e) \/ ExitClosesIdle(e) \/ ExitRemoved(e)

ClientMove(c) ==
    \/ ClientConnects(c) \/ ClientDrops(c)
    \/ \E code \in Codes :
        ConnectInvalid(c, code) \/ ConnectBusy(c, code) \/ ConnectUnreachable(c, code)
        \/ Connect(c, code)
    \/ LinkSucceeds(c) \/ LinkFails(c) \/ ClientSent(c)
    \/ ClientClosesLinked(c) \/ ClientClosesIdle(c) \/ ClientRemoved(c)

RelayMove ==
    (\E e \in Exits : ExitMove(e)) \/ (\E c \in Clients : ClientMove(c)) \/ CleanupExpired

LEMMA MovesAreSteps == RelayMove => Next
BY DEF RelayMove, ExitMove, ClientMove, Next, Environment, ExitHandler, ClientHandler

LEMMA MovesOfPrograms ==
    ASSUME ProgramsNext, clientWs \in [Connectors -> Clients \cup {None}]
    PROVE  RelayMove \/ UNCHANGED vars \/ RelayRestarts
<1> USE ReconnectionAssumption
<1>1. ASSUME NEW s \in Sharers, SharerNext(s) PROVE RelayMove \/ UNCHANGED vars
  BY <1>1 DEF SharerNext, ExitReads, ExitNotices, ExitAttempt, RelayMove, ExitMove
<1>2. ASSUME NEW p \in Connectors, ConnectorNext(p) PROVE RelayMove \/ UNCHANGED vars
  <2>1. CASE ClientReads(p) \/ ClientNotices(p)
    BY <2>1 DEF ClientReads, ClientNotices
  <2>2. CASE ClientStops(p)
    <3>1. clientWs[p] # None /\ ClientDrops(clientWs[p])
      BY <2>2 DEF ClientStops
    <3>2. clientWs[p] \in Clients
      BY <3>1
    <3> QED  BY <3>1, <3>2 DEF RelayMove, ClientMove
  <2>3. CASE \E c \in Clients : ClientAttempt(p, c)
    BY <2>3 DEF ClientAttempt, RelayMove, ClientMove
  <2> QED  BY <1>2, <2>1, <2>2, <2>3 DEF ConnectorNext
<1>3. ASSUME RelayNext PROVE RelayMove
  BY <1>3 DEF RelayNext, RegistersSharer, ServesExit, AnswersConnector, ServesClient, CleansUp,
              RelayMove, ExitMove, ClientMove
<1>4. ASSUME FaultNext PROVE RelayMove \/ RelayRestarts
  BY <1>4 DEF FaultNext, ExitLost, ClientLost, RelayMove, ExitMove, ClientMove
<1>5. ASSUME TimePasses PROVE RelayMove
  BY <1>5 DEF TimePasses, RelayMove, ExitMove
<1> QED  BY <1>1, <1>2, <1>3, <1>4, <1>5 DEF ProgramsNext, Service

(* The exit nodes' side *)

\* An exit node whose session, socket and wire stay as they are.
LEMMA ExitKept ==
    ASSUME NEW e, ExitSide(e),
           expired'[e] = expired[e], exitUp'[e] = exitUp[e], exitPc'[e] = exitPc[e],
           exitCode'[e] = exitCode[e], toExit'[e] = toExit[e],
           e \in exitnodes <=> e \in exitnodes'
    PROVE  ExitSide(e)' /\ ExitOnward(e)
BY DEF ExitSide, ExitOnward, Known

\* A message that tells no code.
LEMMA ExitSends ==
    ASSUME TypeOK, NEW d \in Exits, NEW m \in ExitMsgs, SendExit(d, m),
           \A k : m # <<"REGISTERED", k>>,
           \A e \in Exits : ExitSide(e),
           UNCHANGED <<exitVars, exitUp, exitPc>>
    PROVE  \A e \in Exits : ExitSide(e)' /\ ExitOnward(e)
<1> TAKE e \in Exits
<1>1. CASE e = d /\ exitUp[e]
  <2>1. \A y : Sent(toExit'[e], y) <=> Sent(toExit[e], y) \/ y = m
    BY <1>1, SendExitLogs
  <2> QED  BY <1>1, <2>1 DEF ExitSide, ExitOnward, Known
<1>2. CASE ~(e = d /\ exitUp[e])
  <2>1. toExit'[e] = toExit[e]
    BY <1>2, SendExitLogs
  <2> QED  BY <2>1, ExitKept
<1> QED  BY <1>1, <1>2

\* A session is removed only when its socket is down.
LEMMA ExitRemovedDown ==
    ASSUME TypeOK, NEW d \in Exits, ~exitUp[d], RemoveExitnodeSessions({d}),
           exitPc' = [exitPc EXCEPT ![d] = "gone"], \A e \in Exits : ExitSide(e),
           UNCHANGED <<expired, exitCode, exitUp, toExit>>
    PROVE  \A e \in Exits : ExitSide(e)' /\ ExitOnward(e)
<1> TAKE e \in Exits
<1>1. exitnodes' = exitnodes \ {d}
  BY DEF RemoveExitnodeSessions
<1>2. CASE e = d
  <2>1. toExit'[e] = <<>> /\ \A k : ~Sent(toExit'[e], <<"REGISTERED", k>>)
    BY <1>2 DEF ExitSide, Sent
  <2> QED  BY <1>2, <2>1 DEF ExitSide, ExitOnward, TypeOK
<1>3. CASE e # d
  <2>1. exitPc'[e] = exitPc[e]
    BY <1>3 DEF TypeOK
  <2> QED  BY <1>1, <1>3, <2>1, ExitKept
<1> QED  BY <1>2, <1>3

\* Sessions are removed for their age, whatever their sockets are.
LEMMA ExitsLapse ==
    ASSUME exitnodes' \subseteq exitnodes, \A e \in exitnodes \ exitnodes' : expired[e],
           \A e \in Exits : ExitSide(e),
           UNCHANGED <<expired, exitCode, exitUp, exitPc, toExit>>
    PROVE  \A e \in Exits : ExitSide(e)' /\ ExitOnward(e)
BY DEF ExitSide, ExitOnward, Known

LEMMA ExitMoves ==
    ASSUME TypeOK, LinkInv, \A e \in Exits : ExitSide(e), NEW d \in Exits, ExitMove(d)
    PROVE  \A e \in Exits : ExitSide(e)' /\ ExitOnward(e)
<1> USE DEF ExitGoesTo
<1>1. CASE ExitConnects(d)
  <2> TAKE e \in Exits
  <2>1. CASE e = d
    <3>1. exitPc[e] = "none" /\ exitPc'[e] = "fresh" /\ UNCHANGED <<exitnodes, expired, exitCode, toExit>>
      BY <1>1, <2>1 DEF ExitConnects, TypeOK
    <3>2. ExitSide(e)'
      BY <3>1 DEF ExitSide, Known
    <3> QED  BY <3>1, <3>2 DEF ExitSide, ExitOnward, Known
  <2>2. CASE e # d
    <3>1. exitPc'[e] = exitPc[e] /\ exitUp'[e] = exitUp[e]
      BY <1>1, <2>2 DEF ExitConnects, TypeOK
    <3> QED  BY <1>1, <3>1, ExitKept DEF ExitConnects
  <2> QED  BY <2>1, <2>2
<1>2. CASE ExitDrops(d)
  <2> TAKE e \in Exits
  <2>1. CASE e = d
    <3>1. ~exitUp'[e] /\ toExit'[e] = <<>>
      BY <1>2, <2>1 DEF ExitDrops, TypeOK
    <3>2. \A k : ~Sent(toExit'[e], <<"REGISTERED", k>>)
      BY <3>1 DEF Sent
    <3> QED  BY <1>2, <2>1, <3>1, <3>2 DEF ExitDrops, ExitSide, ExitOnward, Known
  <2>2. CASE e # d
    <3>1. toExit'[e] = toExit[e] /\ exitUp'[e] = exitUp[e]
      BY <1>2, <2>2 DEF ExitDrops, TypeOK
    <3> QED  BY <1>2, <3>1, ExitKept DEF ExitDrops
  <2> QED  BY <2>1, <2>2
<1>3. ASSUME NEW pref \in Codes, Register(d, pref)
      PROVE  \A e \in Exits : ExitSide(e)' /\ ExitOnward(e)
  <2>1. PICK code \in CodesFor(pref) : CreateExitnodeSession(d, code) /\ SendExit(d, <<"REGISTERED", code>>)
    BY <1>3 DEF Register
  <2>2. code \in Codes /\ <<"REGISTERED", code>> \in ExitMsgs
    BY SessionAssumption DEF CodesFor, ExitMsgs
  <2>3. /\ exitPc[d] = "fresh" /\ d \notin exitnodes /\ exitPc' = [exitPc EXCEPT ![d] = "sending"]
        /\ exitnodes' = exitnodes \cup {d} /\ exitCode' = [exitCode EXCEPT ![d] = code]
        /\ UNCHANGED <<expired, exitUp>>
    BY <1>3, <2>1 DEF Register, CreateExitnodeSession, LinkInv, HandlerInv
  <2>9. /\ ~exitUp[d] => toExit' = toExit
        /\ \A x \in Exits : x # d => toExit'[x] = toExit[x]
        /\ \A y : Sent(toExit'[d], y) => Sent(toExit[d], y) \/ y = <<"REGISTERED", code>>
    <3> DEFINE m == <<"REGISTERED", code>>
    <3>1. m \in ExitMsgs /\ SendExit(d, m)
      BY <2>1, <2>2
    <3> HIDE DEF m
    <3>2. /\ ~exitUp[d] => toExit' = toExit
          /\ \A x \in Exits : x # d => toExit'[x] = toExit[x]
          /\ \A y : Sent(toExit'[d], y) => Sent(toExit[d], y) \/ y = m
      BY <3>1, SendExitLogs
    <3> QED  BY <3>2 DEF m
  <2> TAKE e \in Exits
  <2>4. CASE e = d
    <3>1. \A k : ~Sent(toExit[e], <<"REGISTERED", k>>)
      BY <2>3, <2>4 DEF ExitSide
    <3>2. \A k : Sent(toExit'[e], <<"REGISTERED", k>>) => k = code
      BY <2>4, <2>9, <3>1
    <3>3. ~exitUp[e] => toExit'[e] = toExit[e]
      BY <2>4, <2>9
    <3>4. exitPc'[e] = "sending" /\ exitCode'[e] = code
      BY <2>3, <2>4 DEF TypeOK, TableTypeOK
    <3>5. ExitSide(e)'
      BY <2>3, <2>4, <3>2, <3>3, <3>4 DEF ExitSide, Known
    <3>6. ~Known(e)
      BY <2>3, <2>4 DEF ExitSide, Known
    <3> QED  BY <2>3, <2>4, <3>4, <3>5, <3>6 DEF ExitOnward
  <2>5. CASE e # d
    <3>1. toExit'[e] = toExit[e]
      BY <2>5, <2>9
    <3>2. exitPc'[e] = exitPc[e] /\ exitCode'[e] = exitCode[e]
      BY <2>3, <2>5 DEF TypeOK, TableTypeOK
    <3> QED  BY <2>3, <2>5, <3>1, <3>2, ExitKept
  <2> QED  BY <2>4, <2>5
<1>4. ASSUME ExitSent(d) \/ ExitClosesLinked(d)
      PROVE  \A e \in Exits : ExitSide(e)' /\ ExitOnward(e)
  <2>1. UNCHANGED <<exitVars, exitUp, toExit>>
    BY <1>4 DEF ExitSent, ExitClosesLinked
  <2>2. \/ exitPc[d] = "sending" /\ exitPc' = [exitPc EXCEPT ![d] = "serving"]
        \/ ~exitUp[d] /\ exitPc[d] \in {"fresh", "serving"} /\ exitPc' = [exitPc EXCEPT ![d] = "closing"]
    BY <1>4 DEF ExitSent, ExitClosesLinked
  <2> TAKE e \in Exits
  <2>3. CASE e = d
    BY <2>1, <2>2, <2>3 DEF ExitSide, ExitOnward, Known, TypeOK
  <2>4. CASE e # d
    <3>1. exitPc'[e] = exitPc[e]
      BY <2>2, <2>4 DEF TypeOK
    <3> QED  BY <2>1, <3>1, ExitKept
  <2> QED  BY <2>3, <2>4
<1>5. CASE ExitClosesIdle(d) \/ ExitRemoved(d)
  <2>1. ~exitUp[d]
    BY <1>5 DEF ExitClosesIdle, ExitRemoved, ExitSide
  <2> QED  BY <1>5, <2>1, ExitRemovedDown DEF ExitClosesIdle, ExitRemoved
<1>6. CASE Expire(d)
  <2> TAKE e \in Exits
  <2>1. CASE e = d
    <3>1. exitPc[e] \notin {"none", "fresh"} /\ expired'[e]
      <4>1. expired'[e]
        BY <1>6, <2>1 DEF Expire, TypeOK, TableTypeOK
      <4>2. exitPc[e] \notin {"none", "fresh"}
        BY <1>6, <2>1 DEF Expire, LinkInv, HandlerInv
      <4> QED  BY <4>1, <4>2
    <3> QED  BY <1>6, <2>1, <3>1 DEF Expire, ExitSide, ExitOnward, Known
  <2>2. CASE e # d
    <3>1. expired'[e] = expired[e]
      BY <1>6, <2>2 DEF Expire, TypeOK, TableTypeOK
    <3> QED  BY <1>6, <3>1, ExitKept DEF Expire
  <2> QED  BY <2>1, <2>2
<1> QED  BY <1>1, <1>2, <1>3, <1>4, <1>5, <1>6 DEF ExitMove

\* What the clients' handlers do to the exit nodes.
LEMMA ClientMovesExits ==
    ASSUME TypeOK, LinkInv, CodeInv, \A e \in Exits : ExitSide(e),
           NEW c \in Clients, ClientMove(c)
    PROVE  \A e \in Exits : ExitSide(e)' /\ ExitOnward(e)
<1> USE DEF ClientGoesTo
<1>1. ASSUME UNCHANGED <<exitVars, exitUp, exitPc, toExit>>
      PROVE  \A e \in Exits : ExitSide(e)' /\ ExitOnward(e)
  BY <1>1, ExitKept
<1>2. CASE ClientConnects(c) \/ ClientDrops(c)
  BY <1>1, <1>2 DEF ClientConnects, ClientDrops
<1>3. ASSUME NEW code \in Codes, ConnectInvalid(c, code)
      PROVE  \A e \in Exits : ExitSide(e)' /\ ExitOnward(e)
  <2>1. exitnodes' \subseteq exitnodes /\ \A e \in exitnodes \ exitnodes' : expired[e]
    BY <1>3, DropRemoves DEF ConnectInvalid, Found
  <2>2. UNCHANGED <<expired, exitCode, exitUp, exitPc, toExit>>
    BY <1>3 DEF ConnectInvalid, DropUnusable, Refuse
  <2> QED  BY <2>1, <2>2, ExitsLapse
<1>4. ASSUME NEW code \in Codes, ConnectBusy(c, code) \/ ConnectUnreachable(c, code)
      PROVE  \A e \in Exits : ExitSide(e)' /\ ExitOnward(e)
  BY <1>1, <1>4 DEF ConnectBusy, ConnectUnreachable, Refuse
<1>5. ASSUME NEW code \in Codes, Connect(c, code)
      PROVE  \A e \in Exits : ExitSide(e)' /\ ExitOnward(e)
  <2>1. PICK t \in Tunnels : SendExit(codes[KeyOf[code]], <<"PEER_CONNECTING", t>>)
    BY <1>5 DEF Connect
  <2>2. codes[KeyOf[code]] \in Exits
    BY <1>5 DEF Connect, Found, TypeOK, TableTypeOK
  <2>3. <<"PEER_CONNECTING", t>> \in ExitMsgs /\ \A k : <<"PEER_CONNECTING", t>> # <<"REGISTERED", k>>
    BY DEF ExitMsgs
  <2>4. UNCHANGED <<exitVars, exitUp, exitPc>>
    BY <1>5 DEF Connect
  <2> QED  BY <2>1, <2>2, <2>3, <2>4, ExitSends
<1>6. CASE LinkSucceeds(c) \/ LinkFails(c) \/ ClientSent(c)
  BY <1>1, <1>6 DEF LinkSucceeds, LinkFails, ClientSent, Refuse
<1>7. CASE ClientClosesLinked(c)
  <2>1. PICK e \in Holders(clientTunnel[c]) : SendExit(e, <<"PEER_DISCONNECTED", clientTunnel[c]>>)
    BY <1>7 DEF ClientClosesLinked
  <2>2. e \in Exits
    BY DEF Holders, TypeOK, TableTypeOK
  <2>3. clientTunnel[c] \in Tunnels
    BY <1>7 DEF ClientClosesLinked, TypeOK, TableTypeOK
  <2>4. <<"PEER_DISCONNECTED", clientTunnel[c]>> \in ExitMsgs
        /\ \A k : <<"PEER_DISCONNECTED", clientTunnel[c]>> # <<"REGISTERED", k>>
    BY <2>3 DEF ExitMsgs
  <2>5. UNCHANGED <<exitVars, exitUp, exitPc>>
    BY <1>7 DEF ClientClosesLinked
  <2> QED  BY <2>1, <2>2, <2>4, <2>5, ExitSends
<1>8. CASE ClientClosesIdle(c) \/ ClientRemoved(c)
  BY <1>1, <1>8 DEF ClientClosesIdle, ClientRemoved
<1> QED  BY <1>2, <1>3, <1>4, <1>5, <1>6, <1>7, <1>8 DEF ClientMove

(* The clients' side *)

\* A client whose handler, link, socket and wire stay as they are.
LEMMA ClientKept ==
    ASSUME NEW c, ClientSide(c),
           clientUp'[c] = clientUp[c], clientPc'[c] = clientPc[c],
           clientTunnel'[c] = clientTunnel[c], minted'[c] = minted[c], toClient'[c] = toClient[c]
    PROVE  ClientSide(c)' /\ ClientOnward(c)
BY DEF ClientSide, Unanswered, Answered, ClientOnward

\* A client whose socket is down is told nothing.
LEMMA ClientDown ==
    ASSUME NEW c, ~clientUp'[c], toClient'[c] = <<>>, clientPc[c] # "none" => clientPc'[c] # "none"
    PROVE  ClientSide(c)' /\ ClientOnward(c)
BY DEF ClientSide, ClientOnward

\* The answer to CONNECT is the first message.
LEMMA FirstMessage ==
    ASSUME TypeOK, NEW c \in Clients, NEW m \in ClientMsgs, SendClient(c, m),
           clientUp[c], toClient[c] = <<>>
    PROVE  Len(toClient'[c]) = 1 /\ toClient'[c][1] = m
<1>1. toClient'[c] = Append(toClient[c], m) /\ toClient[c] \in Seq(ClientMsgs)
  BY SendClientLogs DEF TypeOK
<1> QED  BY <1>1, AppendProperties

\* The end of a tunnel is the second.
LEMMA SecondMessage ==
    ASSUME TypeOK, NEW c \in Clients, NEW m \in ClientMsgs, SendClient(c, m),
           clientUp[c], Len(toClient[c]) = 1
    PROVE  Len(toClient'[c]) = 2 /\ toClient'[c][1] = toClient[c][1] /\ toClient'[c][2] = m
<1>1. toClient'[c] = Append(toClient[c], m) /\ toClient[c] \in Seq(ClientMsgs)
  BY SendClientLogs DEF TypeOK
<1> QED  BY <1>1, AppendProperties

\* What the two ends of a link are.
LEMMA EndsOfLink ==
    ASSUME TypeOK, LinkInv, NEW e \in exitnodes, exitTunnel[e] # None
    PROVE  /\ e \in Exits /\ exitClient[e] \in Clients /\ exitClient[e] \in clients
           /\ clientTunnel[exitClient[e]] = exitTunnel[e] /\ exitTunnel[e] = minted[exitClient[e]]
           /\ minted[exitClient[e]] \in Tunnels
<1>1. e \in Exits
  BY DEF TypeOK, TableTypeOK
<1>2. exitClient[e] # None
  BY <1>1 DEF LinkInv, HalfLinkInv
<1>3. exitClient[e] \in clients /\ clientTunnel[exitClient[e]] = exitTunnel[e]
  BY <1>2 DEF LinkInv, LinkAgreement
<1>4. exitClient[e] \in Clients
  BY <1>3 DEF TypeOK, TableTypeOK
<1>5. exitTunnel[e] = minted[exitClient[e]]
  BY <1>3, <1>4 DEF LinkInv, MintedInv
<1>6. minted[exitClient[e]] \in Tunnels
  BY <1>4, <1>5 DEF TypeOK
<1> QED  BY <1>1, <1>3, <1>4, <1>5, <1>6

\* A client that is refused has no tunnel.
LEMMA ClientRefused ==
    ASSUME TypeOK, LinkInv, \A d \in Clients : ClientSide(d),
           NEW c \in Clients, clientPc[c] \in {"fresh", "notifying"},
           NEW error \in {"invalid_code", "server_busy", "tunnel_error"}, Refuse(c, error),
           UNCHANGED <<clientTunnel, minted>>
    PROVE  \A d \in Clients : ClientSide(d)' /\ ClientOnward(d)
<1> DEFINE m == <<"ERROR", error>>
<1>1. /\ m \in ClientMsgs /\ m[1] = "ERROR" /\ SendClient(c, m)
      /\ clientPc' = [clientPc EXCEPT ![c] = "sending"] /\ UNCHANGED clientUp
  BY DEF Refuse, ClientGoesTo, ClientMsgs
<1> HIDE DEF m
<1>2. clientTunnel[c] = None
  BY DEF LinkInv, HandlerInv, MintedInv
<1> TAKE d \in Clients
<1>3. CASE d # c
  <2>1. toClient'[d] = toClient[d] /\ clientPc'[d] = clientPc[d]
    BY <1>1, <1>3, SendClientLogs DEF TypeOK
  <2> QED  BY <1>1, <2>1, ClientKept
<1>4. CASE d = c /\ clientUp[c]
  <2>1. toClient[c] = <<>>
    BY <1>4 DEF ClientSide, Unanswered, Answered
  <2>2. Len(toClient'[c]) = 1 /\ toClient'[c][1] = m
    BY <1>1, <1>4, <2>1, FirstMessage
  <2>3. clientPc'[c] = "sending" /\ clientUp'[c] /\ clientTunnel'[c] = None
    BY <1>1, <1>2, <1>4 DEF TypeOK
  <2>4. ClientSide(c)'
    BY <1>1, <2>2, <2>3 DEF ClientSide, Answered
  <2>5. ~(Len(toClient[c]) >= 1)
    BY <2>1
  <2> QED  BY <1>1, <1>4, <2>3, <2>4, <2>5 DEF ClientOnward
<1>5. CASE d = c /\ ~clientUp[c]
  <2>1. toClient' = toClient
    BY <1>1, <1>5, SendClientLogs
  <2> QED  BY <1>1, <1>5, <2>1, ClientDown DEF ClientSide, TypeOK
<1> QED  BY <1>3, <1>4, <1>5

LEMMA LinkMovesClients ==
    ASSUME TypeOK, LinkInv, \A d \in Clients : ClientSide(d), NEW c \in Clients, LinkSucceeds(c)
    PROVE  \A d \in Clients : ClientSide(d)' /\ ClientOnward(d)
<1> DEFINE m == <<"CONNECTED", minted[c]>>
<1>1. /\ clientPc[c] = "notifying" /\ minted[c] # None /\ minted[c] \in Tunnels
      /\ clientPc' = [clientPc EXCEPT ![c] = "sending"]
      /\ clientTunnel' = [clientTunnel EXCEPT ![c] = minted[c]]
      /\ SendClient(c, m) /\ UNCHANGED <<clientUp, minted>>
  BY DEF LinkSucceeds, LinkSessions, ClientGoesTo, LinkInv, HandlerInv, TypeOK
<1>2. m \in ClientMsgs
  BY <1>1 DEF ClientMsgs
<1> TAKE d \in Clients
<1>3. CASE d # c
  <2>1. toClient'[d] = toClient[d]
    BY <1>1, <1>2, <1>3, SendClientLogs
  <2>2. clientPc'[d] = clientPc[d] /\ clientTunnel'[d] = clientTunnel[d]
    BY <1>1, <1>3 DEF TypeOK, TableTypeOK
  <2> QED  BY <1>1, <2>1, <2>2, ClientKept
<1>4. CASE d = c /\ clientUp[c]
  <2>1. toClient[c] = <<>>
    BY <1>1, <1>4 DEF ClientSide, Unanswered, Answered
  <2>2. Len(toClient'[c]) = 1 /\ toClient'[c][1] = m
    BY <1>1, <1>2, <1>4, <2>1, FirstMessage
  <2>3. clientPc'[c] = "sending" /\ clientTunnel'[c] = minted[c]
    BY <1>1 DEF TypeOK, TableTypeOK
  <2>4. ClientSide(c)'
    BY <1>1, <1>4, <2>2, <2>3 DEF ClientSide, Answered
  <2>5. ~(Len(toClient[c]) >= 1)
    BY <2>1
  <2> QED  BY <1>1, <1>4, <2>3, <2>4, <2>5 DEF ClientOnward
<1>5. CASE d = c /\ ~clientUp[c]
  <2>1. toClient' = toClient
    BY <1>1, <1>2, <1>5, SendClientLogs
  <2> QED  BY <1>1, <1>5, <2>1, ClientDown DEF ClientSide, TypeOK
<1> QED  BY <1>3, <1>4, <1>5

\* A client that has dropped, or whose answer was sent, goes on.
LEMMA ClientMovesClients ==
    ASSUME TypeOK, LinkInv, \A d \in Clients : ClientSide(d), NEW c \in Clients, ClientMove(c)
    PROVE  \A d \in Clients : ClientSide(d)' /\ ClientOnward(d)
<1> USE DEF ClientGoesTo
<1>1. CASE ClientConnects(c)
  <2> TAKE d \in Clients
  <2>1. CASE d # c
    <3>1. clientUp'[d] = clientUp[d] /\ clientPc'[d] = clientPc[d]
      BY <1>1, <2>1 DEF ClientConnects, TypeOK
    <3> QED  BY <1>1, <3>1, ClientKept DEF ClientConnects
  <2>2. CASE d = c
    <3>1. clientPc[c] = "none" /\ clientPc'[c] = "fresh" /\ clientUp'[c] /\ toClient' = toClient
      BY <1>1 DEF ClientConnects, TypeOK
    <3>2. toClient[c] = <<>>
      BY <3>1 DEF ClientSide, Unanswered, Answered
    <3>3. ~(Len(toClient[c]) >= 1)
      BY <3>2
    <3> QED  BY <2>2, <3>1, <3>2, <3>3 DEF ClientSide, Unanswered, ClientOnward
  <2> QED  BY <2>1, <2>2
<1>2. CASE ClientDrops(c)
  <2> TAKE d \in Clients
  <2>1. CASE d # c
    <3>1. clientUp'[d] = clientUp[d] /\ toClient'[d] = toClient[d]
      BY <1>2, <2>1 DEF ClientDrops, TypeOK
    <3> QED  BY <1>2, <3>1, ClientKept DEF ClientDrops
  <2>2. CASE d = c
    BY <1>2, <2>2, ClientDown DEF ClientDrops, TypeOK
  <2> QED  BY <2>1, <2>2
<1>3. ASSUME NEW code \in Codes, ConnectInvalid(c, code)
      PROVE  \A d \in Clients : ClientSide(d)' /\ ClientOnward(d)
  BY <1>3, ClientRefused DEF ConnectInvalid, DropUnusable
<1>4. ASSUME NEW code \in Codes, ConnectBusy(c, code) \/ ConnectUnreachable(c, code)
      PROVE  \A d \in Clients : ClientSide(d)' /\ ClientOnward(d)
  BY <1>4, ClientRefused DEF ConnectBusy, ConnectUnreachable
<1>5. CASE LinkFails(c)
  BY <1>5, ClientRefused DEF LinkFails
<1>6. ASSUME NEW code \in Codes, Connect(c, code)
      PROVE  \A d \in Clients : ClientSide(d)' /\ ClientOnward(d)
  <2>1. /\ clientPc[c] = "fresh" /\ clientPc' = [clientPc EXCEPT ![c] = "notifying"]
        /\ \E t \in Tunnels : minted' = [minted EXCEPT ![c] = t]
        /\ UNCHANGED <<clientUp, clientTunnel, toClient>>
    BY <1>6 DEF Connect
  <2> TAKE d \in Clients
  <2>2. CASE d # c
    <3>1. clientPc'[d] = clientPc[d] /\ minted'[d] = minted[d]
      BY <2>1, <2>2 DEF TypeOK
    <3> QED  BY <2>1, <3>1, ClientKept
  <2>3. CASE d = c
    <3>1. clientPc'[c] = "notifying"
      BY <2>1 DEF TypeOK
    <3>2. toClient[c] = <<>>
      BY <2>1 DEF ClientSide, Unanswered, Answered
    <3> QED  BY <2>1, <2>3, <3>1, <3>2 DEF ClientSide, Unanswered, ClientOnward
  <2> QED  BY <2>2, <2>3
<1>7. CASE LinkSucceeds(c)
  BY <1>7, LinkMovesClients
<1>8. CASE ClientSent(c)
  <2>1. /\ clientPc[c] = "sending" /\ clientPc' = [clientPc EXCEPT ![c] = "serving"]
        /\ UNCHANGED <<clientUp, clientTunnel, minted, toClient>>
    BY <1>8 DEF ClientSent
  <2> TAKE d \in Clients
  <2>2. CASE d # c
    <3>1. clientPc'[d] = clientPc[d]
      BY <2>1, <2>2 DEF TypeOK
    <3> QED  BY <2>1, <3>1, ClientKept
  <2>3. CASE d = c
    <3>1. clientPc'[c] = "serving"
      BY <2>1 DEF TypeOK
    <3>2. clientUp[c] => Answered(c)
      BY <2>1 DEF ClientSide, Unanswered
    <3>3. clientUp[c] => Answered(c)'
      BY <2>1, <3>1, <3>2 DEF Answered
    <3> QED  BY <2>1, <2>3, <3>1, <3>3 DEF ClientSide, ClientOnward
  <2> QED  BY <2>2, <2>3
<1>9. CASE ClientClosesLinked(c)
  <2>1. PICK e \in exitnodes : e \in Holders(clientTunnel[c])
    BY <1>9 DEF ClientClosesLinked, Holders
  <2>2. /\ exitTunnel[e] = clientTunnel[c] /\ exitTunnel[e] # None
        /\ UnlinkSessions(exitTunnel[e])
    BY <1>9, <2>1 DEF ClientClosesLinked, Holders
  <2>3. e \in Exits /\ exitClient[e] = c
    BY <2>1, <2>2, EndsOfLink DEF LinkInv, MintedInv, TypeOK, TableTypeOK
  <2>4. /\ ~clientUp[c] /\ clientPc' = [clientPc EXCEPT ![c] = "closing"]
        /\ clientTunnel' = [clientTunnel EXCEPT ![c] = None]
        /\ UNCHANGED <<clientUp, minted, toClient>>
    BY <1>9, <2>2, <2>3, UnlinkExact DEF ClientClosesLinked
  <2> TAKE d \in Clients
  <2>5. CASE d # c
    <3>1. clientPc'[d] = clientPc[d] /\ clientTunnel'[d] = clientTunnel[d]
      BY <2>4, <2>5 DEF TypeOK, TableTypeOK
    <3> QED  BY <2>4, <3>1, ClientKept
  <2>6. CASE d = c
    BY <2>4, <2>6, ClientDown DEF ClientSide, TypeOK
  <2> QED  BY <2>5, <2>6
<1>10. CASE ClientClosesIdle(c) \/ ClientRemoved(c)
  <2>1. ~clientUp[c]
    BY <1>10 DEF ClientClosesIdle, ClientRemoved, ClientSide, Unanswered, Answered
  <2>2. /\ clientPc' = [clientPc EXCEPT ![c] = "gone"]
        /\ UNCHANGED <<clientUp, clientTunnel, minted, toClient>>
    BY <1>10 DEF ClientClosesIdle, ClientRemoved
  <2> TAKE d \in Clients
  <2>3. CASE d # c
    <3>1. clientPc'[d] = clientPc[d]
      BY <2>2, <2>3 DEF TypeOK
    <3> QED  BY <2>2, <3>1, ClientKept
  <2>4. CASE d = c
    BY <2>1, <2>2, <2>4, ClientDown DEF ClientSide, TypeOK
  <2> QED  BY <2>3, <2>4
<1> QED  BY <1>1, <1>2, <1>3, <1>4, <1>5, <1>6, <1>7, <1>8, <1>9, <1>10 DEF ClientMove

\* What the exit nodes' handlers do to the clients: only the end of a tunnel is told.
LEMMA ExitMovesClients ==
    ASSUME TypeOK, LinkInv, \A d \in Clients : ClientSide(d), NEW e \in Exits, ExitMove(e)
    PROVE  \A d \in Clients : ClientSide(d)' /\ ClientOnward(d)
<1> USE DEF ExitGoesTo
<1>1. ASSUME UNCHANGED <<clientUp, clientPc, clientTunnel, minted, toClient>>
      PROVE  \A d \in Clients : ClientSide(d)' /\ ClientOnward(d)
  BY <1>1, ClientKept
<1>2. CASE \/ ExitConnects(e) \/ ExitDrops(e) \/ Expire(e)
           \/ ExitSent(e) \/ ExitClosesIdle(e) \/ ExitRemoved(e)
  BY <1>1, <1>2 DEF ExitConnects, ExitDrops, Expire, ExitSent, ExitClosesIdle, ExitRemoved
<1>3. ASSUME NEW pref \in Codes, Register(e, pref)
      PROVE  \A d \in Clients : ClientSide(d)' /\ ClientOnward(d)
  BY <1>1, <1>3 DEF Register, CreateExitnodeSession
<1>4. CASE ExitClosesLinked(e)
  <2>1. PICK c : c = exitClient[e]
    OBVIOUS
  <2>2. e \in exitnodes /\ exitTunnel[e] # None
    BY <1>4 DEF ExitClosesLinked
  <2>3. /\ c \in Clients /\ c \in clients /\ clientTunnel[c] = minted[c]
        /\ exitTunnel[e] = minted[c] /\ minted[c] \in Tunnels /\ minted[c] # None
    BY <2>1, <2>2, EndsOfLink
  <2> DEFINE m == <<"PEER_DISCONNECTED", minted[c]>>
  <2>4. /\ clientTunnel' = [clientTunnel EXCEPT ![c] = None]
        /\ SendClient(c, m) /\ UNCHANGED <<clientPc, clientUp, minted>>
    BY <1>4, <2>1, <2>2, <2>3, UnlinkExact DEF ExitClosesLinked, TellClient
  <2>5. m \in ClientMsgs
    BY <2>3 DEF ClientMsgs
  <2> HIDE DEF m
  <2> TAKE d \in Clients
  <2>6. CASE d # c
    <3>1. toClient'[d] = toClient[d]
      BY <2>3, <2>4, <2>5, <2>6, SendClientLogs
    <3>2. clientTunnel'[d] = clientTunnel[d]
      BY <2>4, <2>6 DEF TypeOK, TableTypeOK
    <3> QED  BY <2>4, <3>1, <3>2, ClientKept
  <2>7. CASE d = c /\ clientUp[c]
    <3>1. /\ clientPc[c] \in {"sending", "serving"}
          /\ Len(toClient[c]) = 1 /\ toClient[c][1] = <<"CONNECTED", minted[c]>>
      <4>1. clientPc[c] \notin {"fresh", "notifying"}
        BY <2>3 DEF LinkInv, HandlerInv, MintedInv
      <4> QED  BY <2>3, <2>7, <4>1 DEF ClientSide, Unanswered, Answered
    <3>2. Len(toClient'[c]) = 2 /\ toClient'[c][1] = toClient[c][1] /\ toClient'[c][2] = m
      BY <2>3, <2>4, <2>5, <2>7, <3>1, SecondMessage
    <3>3. clientTunnel'[c] = None
      BY <2>3, <2>4 DEF TypeOK, TableTypeOK
    <3>4. ClientSide(c)'
      BY <2>4, <2>7, <3>1, <3>2, <3>3 DEF ClientSide, Answered, m
    <3> QED  BY <2>4, <2>7, <3>2, <3>4 DEF ClientOnward
  <2>8. CASE d = c /\ ~clientUp[c]
    <3>1. toClient' = toClient
      BY <2>3, <2>4, <2>5, <2>8, SendClientLogs
    <3> QED  BY <2>4, <2>8, <3>1, ClientDown DEF ClientSide
  <2> QED  BY <2>6, <2>7, <2>8
<1> QED  BY <1>2, <1>3, <1>4 DEF ExitMove

(* The relay under its programs, redeploys included *)

Onward == (\A e \in Exits : ExitOnward(e)) /\ (\A c \in Clients : ClientOnward(c))

\* A redeploy drops every socket and every session.
LEMMA RestartKeepsRelay ==
    ASSUME RelayInv, RelayRestarts
    PROVE  RelayInv' /\ Onward /\ RegisteredIsReachable'
<1> USE SessionAssumption
<1> USE DEF RelayInv
<1>1. /\ exitnodes' = {} /\ clients' = {}
      /\ codes' = [k \in Keys |-> None]
      /\ exitClient' = [e \in Exits |-> None] /\ exitTunnel' = [e \in Exits |-> None]
      /\ clientExit' = [c \in Clients |-> None] /\ clientTunnel' = [c \in Clients |-> None]
  BY DEF RelayRestarts
<1>2. /\ exitPc' = [e \in Exits |-> IF exitPc[e] = "none" THEN "none" ELSE "gone"]
      /\ clientPc' = [c \in Clients |-> IF clientPc[c] = "none" THEN "none" ELSE "gone"]
      /\ exitUp' = [e \in Exits |-> FALSE] /\ clientUp' = [c \in Clients |-> FALSE]
      /\ toExit' = [e \in Exits |-> <<>>] /\ toClient' = [c \in Clients |-> <<>>]
      /\ UNCHANGED <<exitCode, expired, attemptVars>>
  BY DEF RelayRestarts
<1>3. TypeOK'
  <2>1. TableTypeOK'
    BY <1>1, <1>2 DEF TypeOK, TableTypeOK
  <2>2. /\ exitPc' \in [Exits -> {"none", "fresh", "serving", "sending", "closing", "gone"}]
        /\ clientPc' \in [Clients ->
                {"none", "fresh", "serving", "notifying", "sending", "closing", "gone"}]
        /\ exitUp' \in [Exits -> BOOLEAN] /\ clientUp' \in [Clients -> BOOLEAN]
    BY <1>2
  <2>3. /\ target' \in [Clients -> Exits \cup {None}] /\ minted' \in [Clients -> Tunnels \cup {None}]
        /\ joined' \in SUBSET Clients
    BY <1>2 DEF TypeOK
  <2>4. toExit' \in [Exits -> Seq(ExitMsgs)] /\ toClient' \in [Clients -> Seq(ClientMsgs)]
    <3>1. <<>> \in Seq(ExitMsgs) /\ <<>> \in Seq(ClientMsgs)
      OBVIOUS
    <3> QED  BY <1>2, <3>1
  <2> QED  BY <2>1, <2>2, <2>3, <2>4 DEF TypeOK
<1>4. LinkInv'
  <2>1. HandlerInv'
    BY <1>1, <1>2 DEF HandlerInv
  <2>2. MintedInv'
    BY <1>1, <1>2 DEF LinkInv, MintedInv
  <2>3. HalfLinkInv' /\ LinkAgreement'
    BY <1>1 DEF HalfLinkInv, LinkAgreement
  <2> QED  BY <2>1, <2>2, <2>3 DEF LinkInv
<1>5. CodeInv' /\ RegisteredIsReachable'
  BY <1>1 DEF CodeInv, CodeTableSound, RegisteredIsReachable
<1>6. ASSUME NEW e \in Exits PROVE ExitSide(e)' /\ ExitOnward(e)
  <2>1. /\ ~exitUp'[e] /\ toExit'[e] = <<>>
        /\ exitPc[e] # "none" => exitPc'[e] # "none"
        /\ expired'[e] => exitPc'[e] \notin {"none", "fresh"}
    BY <1>2 DEF Sides, ExitSide
  <2>2. \A k : ~Sent(toExit'[e], <<"REGISTERED", k>>)
    BY <2>1 DEF Sent
  <2> QED  BY <2>1, <2>2 DEF ExitSide, ExitOnward
<1>7. ASSUME NEW c \in Clients PROVE ClientSide(c)' /\ ClientOnward(c)
  BY <1>2, ClientDown
<1> QED  BY <1>3, <1>4, <1>5, <1>6, <1>7 DEF Onward, Sides

LEMMA RelayKept ==
    ASSUME RelayInv, UNCHANGED vars
    PROVE  RelayInv' /\ Onward
<1> USE DEF RelayInv, vars
<1>1. TypeOK' /\ CodeInv'
  BY DEF TypeOK, TableTypeOK, CodeInv, CodeTableSound
<1>2. LinkInv'
  BY DEF LinkInv, HandlerInv, MintedInv, HalfLinkInv, LinkAgreement
<1>3. \A e \in Exits : ExitSide(e)' /\ ExitOnward(e)
  BY ExitKept DEF Sides
<1>4. \A c \in Clients : ClientSide(c)' /\ ClientOnward(c)
  BY ClientKept DEF Sides
<1> QED  BY <1>1, <1>2, <1>3, <1>4 DEF Onward, Sides

\* The relay's invariant survives every step of the programs, and no step takes back
\* what they rely on.
LEMMA RelayStep ==
    ASSUME RelayInv, clientWs \in [Connectors -> Clients \cup {None}], [ProgramsNext]_allVars
    PROVE  RelayInv' /\ Onward
<1>1. CASE RelayMove
  <2>1. [Next]_vars
    BY <1>1, MovesAreSteps
  <2>2. TypeOK' /\ LinkInv' /\ CodeInv'
    BY <2>1, TypeStep, LinkStep, CodeStep DEF RelayInv, LinkInv
  <2>3. \A e \in Exits : ExitSide(e)' /\ ExitOnward(e)
    <3>1. CASE CleanupExpired
      BY <3>1, ExitsLapse DEF CleanupExpired, RemoveExitnodeSessions, RelayInv, Sides
    <3> QED  BY <1>1, <3>1, ExitMoves, ClientMovesExits DEF RelayMove, RelayInv, Sides
  <2>4. \A c \in Clients : ClientSide(c)' /\ ClientOnward(c)
    <3>1. CASE CleanupExpired
      BY <3>1, ClientKept DEF CleanupExpired, RelayInv, Sides
    <3> QED  BY <1>1, <3>1, ExitMovesClients, ClientMovesClients DEF RelayMove, RelayInv, Sides
  <2> QED  BY <2>2, <2>3, <2>4 DEF RelayInv, Onward, Sides
<1>2. CASE RelayRestarts
  BY <1>2, RestartKeepsRelay
<1>3. CASE UNCHANGED vars
  BY <1>3, RelayKept
<1>4. CASE UNCHANGED allVars
  BY <1>4, <1>3 DEF allVars
<1> QED  BY <1>1, <1>2, <1>3, <1>4, MovesOfPrograms

LEMMA RelayStart == ProgramsInit => RelayInv
<1> SUFFICES ASSUME ProgramsInit PROVE RelayInv
  OBVIOUS
<1>1. Init
  BY DEF ProgramsInit
<1>2. TypeOK /\ LinkInv
  BY <1>1, LinkInit
<1>3. CodeInv
  BY <1>1, SessionAssumption DEF Init, TableInit, CodeInv, CodeTableSound
<1>4. ASSUME NEW e \in Exits PROVE ExitSide(e)
  BY <1>1 DEF Init, TableInit, ExitSide, Sent
<1>5. ASSUME NEW c \in Clients PROVE ClientSide(c)
  BY <1>1 DEF Init, ClientSide
<1> QED  BY <1>2, <1>3, <1>4, <1>5 DEF RelayInv, Sides

(* The programs *)

\* A sharer shows no code without a websocket, and only that of the websocket it has.
SharerSide(s) ==
    LET e == exitWs[s]
    IN  /\ e = None => shown[s] = None
        /\ e # None => exitPc[e] # "none"
        /\ e # None /\ shown[s] # None /\ exitUp[e] => Known(e) /\ shown[s] = exitCode[e]

\* A connector that thinks it is in a tunnel has read one message, which said so.
ConnectorSide(p) ==
    LET c == clientWs[p]
    IN  /\ c = None => view[p] \in {"down", "stopped"}
        /\ c # None => ConnectorOf[c] = p /\ clientPc[c] # "none"
        /\ view[p] = "tunnel" /\ clientUp[c] =>
            clientRead[c] = 1 /\ Len(toClient[c]) >= 1 /\ toClient[c][1][1] = "CONNECTED"

ProgramsInv ==
    /\ ProgramsTypeOK
    /\ LinkInv /\ CodeInv /\ Sides
    /\ \A s \in Sharers : SharerSide(s)
    /\ \A p \in Connectors : ConnectorSide(p)

LEMMA SharerKept ==
    ASSUME ProgramsTypeOK, Onward, NEW s \in Sharers, SharerSide(s),
           exitWs'[s] = exitWs[s], shown'[s] = shown[s]
    PROVE  SharerSide(s)'
BY DEF ProgramsTypeOK, Onward, ExitOnward, SharerSide

LEMMA ConnectorKept ==
    ASSUME ProgramsTypeOK, Onward, NEW p \in Connectors, ConnectorSide(p),
           clientWs'[p] = clientWs[p], view'[p] = view[p],
           clientWs[p] # None => clientRead'[clientWs[p]] = clientRead[clientWs[p]]
    PROVE  ConnectorSide(p)'
BY DEF ProgramsTypeOK, Onward, ClientOnward, ConnectorSide

\* The messages of a client's wire, one by one.
LEMMA MessageOfClient ==
    ASSUME TypeOK, Sides, NEW c \in Clients, clientUp[c], NEW i \in 1 .. Len(toClient[c])
    PROVE  /\ toClient[c][i][1] \in {"CONNECTED", "PEER_DISCONNECTED", "ERROR"}
           /\ toClient[c][i][1] = "CONNECTED" => i = 1
<1>1. Unanswered(c) \/ Answered(c)
  BY DEF Sides, ClientSide
<1>2. ~Unanswered(c)
  BY DEF Unanswered
<1>3. CASE Len(toClient[c]) = 1 /\ toClient[c][1][1] = "ERROR"
  BY <1>3
<1>4. CASE Len(toClient[c]) = 1 /\ toClient[c][1] = <<"CONNECTED", minted[c]>>
  BY <1>4
<1>5. CASE /\ Len(toClient[c]) = 2 /\ toClient[c][1] = <<"CONNECTED", minted[c]>>
           /\ toClient[c][2] = <<"PEER_DISCONNECTED", minted[c]>>
  BY <1>5
<1> QED  BY <1>1, <1>2, <1>3, <1>4, <1>5 DEF Answered

LEMMA SharerStep ==
    ASSUME ProgramsInv, RelayInv', Onward, [ProgramsNext]_allVars
    PROVE  /\ \A s \in Sharers : SharerSide(s)'
           /\ exitWs' \in [Sharers -> Exits \cup {None}]
           /\ exitRead' \in [Exits -> Nat]
           /\ shown' \in [Sharers -> Codes \cup {None}]
<1> DEFINE Goal == /\ \A s \in Sharers : SharerSide(s)'
                   /\ exitWs' \in [Sharers -> Exits \cup {None}]
                   /\ exitRead' \in [Exits -> Nat]
                   /\ shown' \in [Sharers -> Codes \cup {None}]
<1> USE DEF ProgramsInv
<1>1. /\ exitWs \in [Sharers -> Exits \cup {None}]
      /\ exitRead \in [Exits -> Nat]
      /\ shown \in [Sharers -> Codes \cup {None}]
  BY DEF ProgramsTypeOK
<1>2. None \notin Exits /\ None \notin Codes
  BY SessionAssumption
<1>3. ASSUME UNCHANGED sharerVars PROVE Goal
  BY <1>1, <1>3, SharerKept DEF sharerVars
<1>4. ASSUME NEW s \in Sharers, NEW e \in Exits, ExitAttempt(s, e) PROVE Goal
  <2>1. /\ exitWs[s] = None /\ shown[s] = None /\ exitWs' = [exitWs EXCEPT ![s] = e]
        /\ UNCHANGED <<exitRead, shown>>
    BY <1>4 DEF ExitAttempt, SharerSide
  <2>2. exitPc'[e] # "none"
    BY <1>4 DEF ExitAttempt, ExitConnects, ExitGoesTo, ProgramsTypeOK, TypeOK
  <2>3. ASSUME NEW r \in Sharers, r # s PROVE SharerSide(r)'
    <3>1. exitWs'[r] = exitWs[r]
      BY <1>1, <2>1, <2>3
    <3> QED  BY <2>1, <3>1, SharerKept
  <2>4. SharerSide(s)'
    BY <1>1, <1>2, <2>1, <2>2 DEF SharerSide
  <2> QED  BY <1>1, <2>1, <2>3, <2>4
<1>5. ASSUME NEW s \in Sharers, ExitReads(s) PROVE Goal
  <2>1. PICK e : e = exitWs[s]
    OBVIOUS
  <2>2. e \in Exits /\ exitUp[e] /\ exitRead[e] < Len(toExit[e])
    BY <1>1, <1>5, <2>1 DEF ExitReads
  <2>3. PICK i : i = exitRead[e] + 1
    OBVIOUS
  <2>4. i \in 1 .. Len(toExit[e]) /\ toExit[e] \in Seq(ExitMsgs)
    BY <1>1, <2>2, <2>3 DEF ProgramsTypeOK, TypeOK
  <2>5. /\ exitRead' = [exitRead EXCEPT ![e] = i]
        /\ toExit[e][i][1] = "REGISTERED" /\ shown' = [shown EXCEPT ![s] = toExit[e][i][2]]
        /\ UNCHANGED <<vars, exitWs>>
    BY <1>1, <1>5, <2>1, <2>2, <2>3 DEF ExitReads
  <2>6. Known(e) /\ exitCode[e] = toExit[e][i][2] /\ toExit[e][i][2] \in Codes
    <3>1. toExit[e][i] \in ExitMsgs
      BY <2>4
    <3>2. toExit[e][i] = <<"REGISTERED", toExit[e][i][2]>> /\ toExit[e][i][2] \in Codes
      BY <2>5, <3>1 DEF ExitMsgs
    <3>3. Sent(toExit[e], <<"REGISTERED", toExit[e][i][2]>>)
      BY <2>4, <3>2 DEF Sent
    <3> QED  BY <2>2, <3>2, <3>3 DEF Sides, ExitSide
  <2>7. ASSUME NEW r \in Sharers, r # s PROVE SharerSide(r)'
    <3>1. exitWs'[r] = exitWs[r] /\ shown'[r] = shown[r]
      BY <1>1, <2>5, <2>7
    <3> QED  BY <3>1, SharerKept
  <2>8. SharerSide(s)'
    <3>1. shown'[s] = exitCode[e] /\ exitWs'[s] = e /\ e # None
      BY <1>1, <1>2, <2>1, <2>2, <2>5, <2>6
    <3>2. exitPc[e] # "none"
      BY <2>1, <3>1, <2>2 DEF Sides, ExitSide
    <3> QED  BY <2>5, <2>6, <3>1, <3>2 DEF SharerSide, Known, vars
  <2>9. shown' \in [Sharers -> Codes \cup {None}] /\ exitRead' \in [Exits -> Nat]
    BY <1>1, <2>2, <2>4, <2>5, <2>6
  <2> QED  BY <1>1, <2>5, <2>7, <2>8, <2>9
<1>6. ASSUME NEW s \in Sharers, ExitNotices(s) PROVE Goal
  <2>1. /\ exitWs' = [exitWs EXCEPT ![s] = None] /\ shown' = [shown EXCEPT ![s] = None]
        /\ UNCHANGED exitRead
    BY <1>6 DEF ExitNotices
  <2>2. ASSUME NEW r \in Sharers, r # s PROVE SharerSide(r)'
    <3>1. exitWs'[r] = exitWs[r] /\ shown'[r] = shown[r]
      BY <1>1, <2>1, <2>2
    <3> QED  BY <3>1, SharerKept
  <2>3. SharerSide(s)'
    BY <1>1, <2>1 DEF SharerSide
  <2> QED  BY <1>1, <2>1, <2>2, <2>3
<1>7. ASSUME NEW p \in Connectors, ConnectorNext(p) PROVE UNCHANGED sharerVars
  BY <1>7 DEF ConnectorNext, ClientReads, ClientStops, ClientNotices, ClientAttempt
<1>8. ASSUME RelayNext \/ FaultNext \/ TimePasses PROVE UNCHANGED sharerVars
  BY <1>8 DEF RelayNext, RegistersSharer, ServesExit, AnswersConnector, ServesClient, programVars,
              FaultNext, RelayRestarts, ExitLost, ClientLost, Fault, CleansUp, TimePasses
<1>9. ASSUME UNCHANGED allVars PROVE Goal
  BY <1>3, <1>9 DEF allVars, programVars
<1> HIDE DEF Goal
<1>10. ASSUME NEW s \in Sharers, SharerNext(s) PROVE Goal
  BY <1>4, <1>5, <1>6, <1>10 DEF SharerNext
<1>11. ASSUME ProgramsNext PROVE Goal
  BY <1>3, <1>7, <1>8, <1>10, <1>11 DEF ProgramsNext, Service
<1>12. Goal
  BY <1>9, <1>11
<1> QED  BY <1>12 DEF Goal

LEMMA ConnectorStep ==
    ASSUME ProgramsInv, RelayInv', Onward, [ProgramsNext]_allVars
    PROVE  /\ \A p \in Connectors : ConnectorSide(p)'
           /\ clientWs' \in [Connectors -> Clients \cup {None}]
           /\ clientRead' \in [Clients -> Nat]
           /\ view' \in [Connectors -> {"down", "waiting", "tunnel", "ended", "failed", "stopped"}]
           /\ paired' \subseteq Connectors
<1> DEFINE Views == {"down", "waiting", "tunnel", "ended", "failed", "stopped"}
           Goal == /\ \A p \in Connectors : ConnectorSide(p)'
                   /\ clientWs' \in [Connectors -> Clients \cup {None}]
                   /\ clientRead' \in [Clients -> Nat]
                   /\ view' \in [Connectors -> Views]
                   /\ paired' \subseteq Connectors
<1> USE DEF ProgramsInv
<1>1. /\ clientWs \in [Connectors -> Clients \cup {None}]
      /\ clientRead \in [Clients -> Nat]
      /\ view \in [Connectors -> Views]
      /\ paired \subseteq Connectors
  BY DEF ProgramsTypeOK
<1>2. None \notin Clients
  BY SessionAssumption
<1>3. ASSUME UNCHANGED connectorVars PROVE Goal
  BY <1>1, <1>3, ConnectorKept DEF connectorVars
<1>4. ASSUME NEW p \in Connectors, NEW c \in Clients, ClientAttempt(p, c) PROVE Goal
  <2>1. /\ clientWs[p] = None /\ ConnectorOf[c] = p
        /\ clientWs' = [clientWs EXCEPT ![p] = c] /\ view' = [view EXCEPT ![p] = "waiting"]
        /\ UNCHANGED <<clientRead, paired>>
    BY <1>4 DEF ClientAttempt
  <2>2. clientPc'[c] # "none"
    BY <1>4 DEF ClientAttempt, ClientConnects, ClientGoesTo, ProgramsTypeOK, TypeOK
  <2>3. ASSUME NEW q \in Connectors, q # p PROVE ConnectorSide(q)'
    <3>1. clientWs'[q] = clientWs[q] /\ view'[q] = view[q]
      BY <1>1, <2>1, <2>3
    <3> QED  BY <2>1, <3>1, ConnectorKept
  <2>4. ConnectorSide(p)'
    BY <1>1, <1>2, <2>1, <2>2 DEF ConnectorSide
  <2> QED  BY <1>1, <2>1, <2>3, <2>4
<1>5. ASSUME NEW p \in Connectors, ClientReads(p) PROVE Goal
  <2>1. PICK c : c = clientWs[p]
    OBVIOUS
  <2>2. c \in Clients /\ clientUp[c] /\ clientRead[c] < Len(toClient[c])
    BY <1>1, <1>5, <2>1 DEF ClientReads, Unread
  <2>3. PICK i : i = clientRead[c] + 1
    OBVIOUS
  <2>4. i \in 1 .. Len(toClient[c]) /\ toClient[c] \in Seq(ClientMsgs)
    BY <1>1, <2>2, <2>3 DEF ProgramsTypeOK, TypeOK
  <2>5. /\ clientRead' = [clientRead EXCEPT ![c] = i]
        /\ view' = [view EXCEPT ![p] = ViewAfter(toClient[c][i])]
        /\ paired' \in {paired, paired \cup {p}}
        /\ UNCHANGED <<vars, clientWs>>
    BY <1>1, <1>5, <2>1, <2>2, <2>3 DEF ClientReads, NextMessage
  <2>6. /\ toClient[c][i][1] \in {"CONNECTED", "PEER_DISCONNECTED", "ERROR"}
        /\ toClient[c][i][1] = "CONNECTED" => i = 1
    BY <2>2, <2>4, MessageOfClient DEF ProgramsTypeOK
  <2>7. ViewAfter(toClient[c][i]) \in {"tunnel", "ended", "failed"}
        /\ (ViewAfter(toClient[c][i]) = "tunnel" => toClient[c][i][1] = "CONNECTED")
    BY <2>6 DEF ViewAfter
  <2>8. ASSUME NEW q \in Connectors, q # p PROVE ConnectorSide(q)'
    <3>1. clientWs'[q] = clientWs[q] /\ view'[q] = view[q]
      BY <1>1, <2>5, <2>8
    <3>2. clientWs[q] # c
      BY <1>2, <2>1, <2>2, <2>8 DEF ConnectorSide
    <3>3. clientWs[q] # None => clientRead'[clientWs[q]] = clientRead[clientWs[q]]
      BY <1>1, <2>5, <3>2
    <3> QED  BY <3>1, <3>3, ConnectorKept
  <2>9. ConnectorSide(p)'
    <3>1. clientWs'[p] = c /\ c # None /\ ConnectorOf[c] = p /\ clientPc'[c] # "none"
      BY <1>2, <2>1, <2>2, <2>5 DEF ConnectorSide, vars
    <3>2. view'[p] = ViewAfter(toClient[c][i]) /\ toClient'[c] = toClient[c] /\ clientRead'[c] = i
      BY <1>1, <2>2, <2>5 DEF vars
    <3>3. view'[p] = "tunnel" =>
            i = 1 /\ Len(toClient'[c]) >= 1 /\ toClient'[c][1][1] = "CONNECTED"
      BY <2>4, <2>6, <2>7, <3>2
    <3> QED  BY <3>1, <3>2, <3>3 DEF ConnectorSide
  <2>10. view' \in [Connectors -> Views]
    BY <1>1, <2>5, <2>7
  <2>11. clientRead' \in [Clients -> Nat]
    <3>1. i \in Nat
      BY <1>1, <2>2, <2>3
    <3> QED  BY <1>1, <2>5, <3>1
  <2> QED  BY <1>1, <2>5, <2>8, <2>9, <2>10, <2>11
<1>6. ASSUME NEW p \in Connectors, ClientStops(p) \/ ClientNotices(p) PROVE Goal
  <2>1. \E v \in {"down", "stopped"} :
            /\ clientWs' = [clientWs EXCEPT ![p] = None] /\ view' = [view EXCEPT ![p] = v]
            /\ UNCHANGED <<clientRead, paired>>
    BY <1>6 DEF ClientStops, ClientNotices
  <2>2. ASSUME NEW q \in Connectors, q # p PROVE ConnectorSide(q)'
    <3>1. clientWs'[q] = clientWs[q] /\ view'[q] = view[q]
      BY <1>1, <2>1, <2>2
    <3> QED  BY <2>1, <3>1, ConnectorKept
  <2>3. ConnectorSide(p)'
    BY <1>1, <2>1 DEF ConnectorSide
  <2>4. view' \in [Connectors -> Views] /\ clientWs' \in [Connectors -> Clients \cup {None}]
    BY <1>1, <2>1
  <2> QED  BY <1>1, <2>1, <2>2, <2>3, <2>4
<1>7. ASSUME NEW s \in Sharers, SharerNext(s) PROVE UNCHANGED connectorVars
  BY <1>7 DEF SharerNext, ExitReads, ExitNotices, ExitAttempt
<1>8. ASSUME RelayNext \/ FaultNext \/ TimePasses PROVE UNCHANGED connectorVars
  BY <1>8 DEF RelayNext, RegistersSharer, ServesExit, AnswersConnector, ServesClient, programVars,
              FaultNext, RelayRestarts, ExitLost, ClientLost, Fault, CleansUp, TimePasses
<1>9. ASSUME UNCHANGED allVars PROVE Goal
  BY <1>3, <1>9 DEF allVars, programVars
<1> HIDE DEF Goal
<1>10. ASSUME NEW p \in Connectors, ConnectorNext(p) PROVE Goal
  BY <1>4, <1>5, <1>6, <1>10 DEF ConnectorNext
<1>11. ASSUME ProgramsNext PROVE Goal
  BY <1>3, <1>7, <1>8, <1>10, <1>11 DEF ProgramsNext, Service
<1>12. Goal
  BY <1>9, <1>11
<1> QED  BY <1>12 DEF Goal

LEMMA FaultsCounted == ProgramsTypeOK /\ [ProgramsNext]_allVars => faults' \in 0 .. MaxFaults
<1> SUFFICES ASSUME ProgramsTypeOK, [ProgramsNext]_allVars PROVE faults' \in 0 .. MaxFaults
  OBVIOUS
<1>1. faults \in 0 .. MaxFaults /\ MaxFaults \in Nat
  BY ReconnectionAssumption DEF ProgramsTypeOK
<1>2. \/ faults' = faults
      \/ faults < MaxFaults /\ faults' = faults + 1
  <2>1. ASSUME FaultNext PROVE faults < MaxFaults /\ faults' = faults + 1
    BY <2>1 DEF FaultNext, RelayRestarts, ExitLost, ClientLost, Fault
  <2>2. ASSUME Service PROVE faults' = faults
    BY <2>2 DEF Service, SharerNext, ExitReads, ExitNotices, ExitAttempt,
        ConnectorNext, ClientReads, ClientStops, ClientNotices, ClientAttempt,
        RelayNext, RegistersSharer, ServesExit, AnswersConnector, ServesClient, CleansUp, programVars
  <2>3. ASSUME UNCHANGED allVars PROVE faults' = faults
    BY <2>3 DEF allVars, programVars
  <2>4. ASSUME TimePasses PROVE faults' = faults
    BY <2>4 DEF TimePasses, programVars
  <2> QED  BY <2>1, <2>2, <2>3, <2>4 DEF ProgramsNext
<1> QED  BY <1>1, <1>2

LEMMA ProgramsStep == ProgramsInv /\ [ProgramsNext]_allVars => ProgramsInv'
<1> SUFFICES ASSUME ProgramsInv, [ProgramsNext]_allVars PROVE ProgramsInv'
  OBVIOUS
<1>1. RelayInv /\ clientWs \in [Connectors -> Clients \cup {None}]
  BY DEF ProgramsInv, RelayInv, ProgramsTypeOK
<1>2. RelayInv' /\ Onward
  BY <1>1, RelayStep
<1>3. /\ \A s \in Sharers : SharerSide(s)'
      /\ exitWs' \in [Sharers -> Exits \cup {None}]
      /\ exitRead' \in [Exits -> Nat]
      /\ shown' \in [Sharers -> Codes \cup {None}]
  BY <1>2, SharerStep
<1>4. /\ \A p \in Connectors : ConnectorSide(p)'
      /\ clientWs' \in [Connectors -> Clients \cup {None}]
      /\ clientRead' \in [Clients -> Nat]
      /\ view' \in [Connectors -> {"down", "waiting", "tunnel", "ended", "failed", "stopped"}]
      /\ paired' \subseteq Connectors
  BY <1>2, ConnectorStep
<1>5. faults' \in 0 .. MaxFaults
  BY FaultsCounted DEF ProgramsInv
<1>6. ProgramsTypeOK'
  BY <1>2, <1>3, <1>4, <1>5 DEF ProgramsTypeOK, RelayInv
<1> QED  BY <1>2, <1>3, <1>4, <1>6 DEF ProgramsInv, RelayInv

LEMMA ProgramsStart == ProgramsInit => ProgramsInv
<1> SUFFICES ASSUME ProgramsInit PROVE ProgramsInv
  OBVIOUS
<1>1. RelayInv
  BY RelayStart
<1>2. ProgramsTypeOK
  BY <1>1, ReconnectionAssumption DEF ProgramsTypeOK, ProgramsInit, RelayInv
<1>3. \A s \in Sharers : SharerSide(s)
  BY DEF ProgramsInit, SharerSide
<1>4. \A p \in Connectors : ConnectorSide(p)
  BY DEF ProgramsInit, ConnectorSide
<1> QED  BY <1>1, <1>2, <1>3, <1>4 DEF ProgramsInv, RelayInv

LEMMA ProgramsInvariant == ProgramsSpec => []ProgramsInv
BY ProgramsStart, ProgramsStep, PTL DEF ProgramsSpec

\* The variables of the programs and of the relay they use keep their types, through
\* every fault: no message comes that a program does not know.
THEOREM ProgramTypes == ProgramsSpec => []ProgramsTypeOK
<1>1. ProgramsInv => ProgramsTypeOK
  BY DEF ProgramsInv
<1> QED  BY <1>1, ProgramsInvariant, PTL

\* A connector that thinks it is in a tunnel is, or will read that it is not, or has
\* been let go with the session of its exit node (client/tunnel.py:269-287,
\* relay/session.py:200-203, 310).
THEOREM TunnelsAreReal == ProgramsSpec => []TunnelIsReal
<1>1. ProgramsInv => TunnelIsReal
  <2> SUFFICES ASSUME ProgramsInv, NEW p \in Connectors, view[p] = "tunnel", clientUp[clientWs[p]]
               PROVE  LET c == clientWs[p]
                          e == clientExit[c]
                      IN  \/ Unread(c) /\ NextMessage(c) = <<"PEER_DISCONNECTED", minted[c]>>
                          \/ /\ clientTunnel[c] = minted[c]
                             /\ exitUp[e] => (e \in exitnodes /\ exitClient[e] = c) \/ Lapsed(e)
    BY DEF TunnelIsReal
  <2>1. PICK c : c = clientWs[p]
    OBVIOUS
  <2>2. /\ c \in Clients /\ clientUp[c] /\ clientRead[c] = 1
        /\ Len(toClient[c]) >= 1 /\ toClient[c][1][1] = "CONNECTED"
    BY <2>1 DEF ProgramsInv, ProgramsTypeOK, ConnectorSide
  <2>3. Answered(c)
    BY <2>2 DEF ProgramsInv, Sides, ClientSide, Unanswered
  <2>4. CASE Len(toClient[c]) = 2 /\ toClient[c][2] = <<"PEER_DISCONNECTED", minted[c]>>
    BY <2>1, <2>2, <2>4 DEF Unread, NextMessage
  <2>5. CASE clientTunnel[c] = minted[c] /\ minted[c] # None
    <3>1. PICK e : e = clientExit[c]
      OBVIOUS
    <3>2. e \in Exits /\ c \in clients
      BY <2>2, <2>3, <2>5, <3>1 DEF ProgramsInv, ProgramsTypeOK, TypeOK, TableTypeOK, LinkInv,
                                  MintedInv, HandlerInv, Answered
    <3>3. exitPc[e] \notin {"none", "fresh"}
      BY <2>2, <3>1, <3>2 DEF ProgramsInv, LinkInv, HandlerInv
    <3>4. exitUp[e] => e \in exitnodes \/ Lapsed(e)
      BY <3>2, <3>3 DEF ProgramsInv, Sides, ExitSide, Known, Lapsed
    <3>5. e \in exitnodes => exitClient[e] = c
      BY <3>1, <3>2 DEF ProgramsInv, LinkInv, LinkAgreement
    <3> QED  BY <2>1, <2>5, <3>1, <3>4, <3>5
  <2> QED  BY <2>2, <2>3, <2>4, <2>5 DEF Answered
<1> QED  BY <1>1, ProgramsInvariant, PTL

\* If generated codes are their own keys, the code that a sharer shows its user leads to
\* the connection the sharer has, until its session has lapsed (exitnode/server.py:273,
\* 323; relay/session.py:301-312).
THEOREM ShownCodesLeadHere == GeneratedAreKeys => (ProgramsSpec => []ShownCodeLeadsHere)
<1> SUFFICES ASSUME GeneratedAreKeys PROVE ProgramsSpec => []ShownCodeLeadsHere
  OBVIOUS
<1>1. ProgramsInit => RegisteredIsReachable
  BY DEF ProgramsInit, Init, TableInit, RegisteredIsReachable
<1>2. ProgramsInv /\ RegisteredIsReachable /\ [ProgramsNext]_allVars => RegisteredIsReachable'
  <2> SUFFICES ASSUME ProgramsInv, RegisteredIsReachable, [ProgramsNext]_allVars
               PROVE  RegisteredIsReachable'
    OBVIOUS
  <2>1. RelayInv /\ clientWs \in [Connectors -> Clients \cup {None}]
    BY DEF ProgramsInv, RelayInv, ProgramsTypeOK
  <2>2. CASE RelayMove
    BY <2>1, <2>2, MovesAreSteps, ReachStep DEF RelayInv
  <2>3. CASE RelayRestarts
    BY <2>1, <2>3, RestartKeepsRelay
  <2>4. CASE UNCHANGED vars
    BY <2>4 DEF vars, RegisteredIsReachable
  <2>5. CASE UNCHANGED allVars
    BY <2>4, <2>5 DEF allVars
  <2> QED  BY <2>1, <2>2, <2>3, <2>4, <2>5, MovesOfPrograms
<1>3. ProgramsInv /\ RegisteredIsReachable => ShownCodeLeadsHere
  BY DEF ProgramsInv, SharerSide, Known, Lapsed, ShownCodeLeadsHere, RegisteredIsReachable
<1> QED  BY <1>1, <1>2, <1>3, ProgramsInvariant, PTL DEF ProgramsSpec
=============================================================================
