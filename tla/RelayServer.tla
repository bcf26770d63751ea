---------------------------- MODULE RelayServer ----------------------------
(***************************************************************************)
(* The relay: the websocket handlers of relay/server.py and the broker of  *)
(* relay/broker.py they call, over the tables of SessionTable.             *)
(*                                                                         *)
(* asyncio runs one coroutine at a time and switches only at an await, so  *)
(* an action is the code from one await to the next.  Each websocket has   *)
(* one handler, which handles one message after the other; its program     *)
(* counter says at which await it is:                                      *)
(*                                                                         *)
(*   "none"      the socket is not open yet                                *)
(*   "fresh"     in "async for", before the REGISTER (CONNECT) message     *)
(*   "serving"   in "async for", after it                                  *)
(*   "notifying" in connect_client_to_exitnode, sending PEER_CONNECTING    *)
(*   "sending"   in any other send whose outcome changes nothing           *)
(*   "closing"   in the finally block, telling the other side              *)
(*   "gone"      the handler has returned                                  *)
(*                                                                         *)
(* Peers are the shipped programs: one REGISTER or CONNECT per websocket   *)
(* (exitnode/tunnel.py:169-183, client/tunnel.py:214-222).  PING/PONG and  *)
(* PEER_ACCEPTED change no state and are left out.                         *)
(***************************************************************************)
EXTENDS SessionTable, Sequences, Naturals

CONSTANTS
    MayExpire,  \* bound: the sessions that may live long enough to expire
    MaxWire     \* bound: no data frame is relayed to a wire with this many messages

ASSUME BoundAssumption == MayExpire \subseteq Exits /\ MaxWire \in Nat

VARIABLES
    exitPc, clientPc,  \* where each websocket's handler is
    exitUp, clientUp,  \* the peer at the other end of the websocket is there
    target, minted,    \* locals of connect_client_to_exitnode: exitnode, tunnel_id
    joined,            \* history: the clients that link_sessions has linked
    toExit, toClient   \* what was written to a websocket for the peer that is there

handlerVars == <<exitPc, clientPc>>
upVars == <<exitUp, clientUp>>
attemptVars == <<target, minted, joined>>
wireVars == <<toExit, toClient>>
vars == <<tableVars, handlerVars, upVars, attemptVars, wireVars>>

ExitMsgs == {"PEER_CONNECTING", "PEER_DISCONNECTED"} \X Tunnels
            \cup {"REGISTERED"} \X Codes \cup {"DATA"} \X Clients
ClientMsgs == {"CONNECTED", "PEER_DISCONNECTED"} \X Tunnels
              \cup {"ERROR"} \X {"invalid_code", "server_busy", "tunnel_error"}
              \cup {"DATA"} \X Exits

TypeOK ==
    /\ TableTypeOK
    /\ exitPc \in [Exits -> {"none", "fresh", "serving", "sending", "closing", "gone"}]
    /\ clientPc \in [Clients ->
            {"none", "fresh", "serving", "notifying", "sending", "closing", "gone"}]
    /\ exitUp \in [Exits -> BOOLEAN]
    /\ clientUp \in [Clients -> BOOLEAN]
    /\ target \in [Clients -> Exits \cup {None}]
    /\ minted \in [Clients -> Tunnels \cup {None}]
    /\ joined \in SUBSET Clients
    /\ toExit \in [Exits -> Seq(ExitMsgs)]
    /\ toClient \in [Clients -> Seq(ClientMsgs)]

Init ==
    /\ TableInit
    /\ exitPc = [e \in Exits |-> "none"]
    /\ clientPc = [c \in Clients |-> "none"]
    /\ exitUp = [e \in Exits |-> FALSE]
    /\ clientUp = [c \in Clients |-> FALSE]
    /\ target = [c \in Clients |-> None]
    /\ minted = [c \in Clients |-> None]
    /\ joined = {}
    /\ toExit = [e \in Exits |-> <<>>]
    /\ toClient = [c \in Clients |-> <<>>]

-----------------------------------------------------------------------------
(* Sending.  A send hands the message to the socket at once and may then   *)
(* suspend its coroutine; it reaches the peer if the peer is still there.  *)

SendExit(e, m) ==
    toExit' = IF exitUp[e] THEN [toExit EXCEPT ![e] = Append(@, m)] ELSE toExit
SendClient(c, m) ==
    toClient' = IF clientUp[c] THEN [toClient EXCEPT ![c] = Append(@, m)] ELSE toClient

\* Bound on data frames: a wire shorter than MaxWire, and no two frames of one
\* sender in a row, which no property tells from one.
MayRelay(wire, frame) == Len(wire) < MaxWire /\ (wire # <<>> => wire[Len(wire)] # frame)

ExitGoesTo(e, pc) == exitPc' = [exitPc EXCEPT ![e] = pc] /\ UNCHANGED clientPc
ClientGoesTo(c, pc) == clientPc' = [clientPc EXCEPT ![c] = pc] /\ UNCHANGED exitPc

\* Answer a CONNECT with an error (_send_error); the client keeps its socket.
Refuse(c, error) ==
    /\ SendClient(c, <<"ERROR", error>>)
    /\ ClientGoesTo(c, "sending")
    /\ UNCHANGED <<toExit, upVars>>

-----------------------------------------------------------------------------
(* The peers and the clock *)

ExitConnects(e) ==
    /\ exitPc[e] = "none"
    /\ exitUp' = [exitUp EXCEPT ![e] = TRUE]
    /\ ExitGoesTo(e, "fresh")
    /\ UNCHANGED <<tableVars, clientUp, attemptVars, wireVars>>

\* _handle_client_connect makes the client session before any message.
ClientConnects(c) ==
    /\ clientPc[c] = "none"
    /\ clientUp' = [clientUp EXCEPT ![c] = TRUE]
    /\ clients' = clients \cup {c}
    /\ ClientGoesTo(c, "fresh")
    /\ UNCHANGED <<exitVars, linkVars, codes, exitUp, attemptVars, wireVars>>

\* A peer closes its socket, dies or loses the network; its handler is yet to notice.
ExitDrops(e) ==
    /\ exitUp[e]
    /\ exitUp' = [exitUp EXCEPT ![e] = FALSE]
    /\ toExit' = [toExit EXCEPT ![e] = <<>>]
    /\ UNCHANGED <<tableVars, handlerVars, clientUp, attemptVars, toClient>>

ClientDrops(c) ==
    /\ clientUp[c]
    /\ clientUp' = [clientUp EXCEPT ![c] = FALSE]
    /\ toClient' = [toClient EXCEPT ![c] = <<>>]
    /\ UNCHANGED <<tableVars, handlerVars, exitUp, attemptVars, toExit>>

\* code_expiry_hours pass since the registration.
Expire(e) ==
    /\ e \in exitnodes \cap MayExpire /\ ~expired[e]
    /\ expired' = [expired EXCEPT ![e] = TRUE]
    /\ UNCHANGED <<exitnodes, exitCode, linkVars, clients, codes,
                   handlerVars, upVars, attemptVars, wireVars>>

\* _cleanup_loop, once a minute.
CleanupExpired ==
    LET old == {e \in exitnodes : expired[e]}
    IN  /\ old # {}
        /\ RemoveExitnodeSessions(old)
        /\ UNCHANGED <<exitCode, expired, linkVars, clients,
                       handlerVars, upVars, attemptVars, wireVars>>

-----------------------------------------------------------------------------
(* The exit node's handler: _handle_server_register, _handle_exitnode_message *)

Register(e, pref) ==
    /\ exitPc[e] = "fresh"
    /\ \E code \in CodesFor(pref) :
        /\ CreateExitnodeSession(e, code)
        /\ SendExit(e, <<"REGISTERED", code>>)
    /\ ExitGoesTo(e, "sending")
    /\ UNCHANGED <<upVars, attemptVars, toClient>>

\* A send of the handler returns or raises; either way the loop goes on.
ExitSent(e) ==
    /\ exitPc[e] = "sending"
    /\ ExitGoesTo(e, "serving")
    /\ UNCHANGED <<tableVars, upVars, attemptVars, wireVars>>

\* relay_binary_data, exit node -> client.
RelayFromExit(e) ==
    /\ exitPc[e] = "serving"
    /\ e \in exitnodes /\ exitClient[e] \in clients
    /\ MayRelay(toClient[exitClient[e]], <<"DATA", e>>)
    /\ SendClient(exitClient[e], <<"DATA", e>>)
    /\ ExitGoesTo(e, "sending")
    /\ UNCHANGED <<tableVars, upVars, attemptVars, toExit>>

\* Mutant: the disconnect handler reads the tunnel id for its message from the
\* session it has just reset.
TellClient_ResetId(c, t) == SendClient(c, <<"PEER_DISCONNECTED", None>>)

\* PEER_DISCONNECTED to the client that disconnect_tunnel unlinked.
TellClient(c, t) == SendClient(c, <<"PEER_DISCONNECTED", t>>)

\* The socket is found closed and the session has a tunnel: unlink, tell the
\* client (the message to the own, closed socket fails), suspend.
ExitClosesLinked(e) ==
    /\ exitPc[e] \in {"fresh", "serving"} /\ ~exitUp[e]
    /\ e \in exitnodes /\ exitTunnel[e] # None
    /\ UnlinkSessions(exitTunnel[e])
    /\ IF exitClient[e] \in clients THEN TellClient(exitClient[e], exitTunnel[e])
                                    ELSE UNCHANGED toClient
    /\ ExitGoesTo(e, "closing")
    /\ UNCHANGED <<exitVars, clients, codes, upVars, attemptVars, toExit>>

\* Nothing to unlink: the handler runs to its end without suspending.
ExitClosesIdle(e) ==
    /\ exitPc[e] \in {"fresh", "serving"} /\ ~exitUp[e]
    /\ e \in exitnodes => exitTunnel[e] = None
    /\ RemoveExitnodeSessions({e})
    /\ ExitGoesTo(e, "gone")
    /\ UNCHANGED <<exitCode, expired, linkVars, clients, upVars, attemptVars, wireVars>>

ExitRemoved(e) ==
    /\ exitPc[e] = "closing"
    /\ RemoveExitnodeSessions({e})
    /\ ExitGoesTo(e, "gone")
    /\ UNCHANGED <<exitCode, expired, linkVars, clients, upVars, attemptVars, wireVars>>

-----------------------------------------------------------------------------
(* The client's handler: _handle_client_connect, _handle_client_message and *)
(* the broker's connect_client_to_exitnode                                  *)

\* The lookup fails, or finds an expired session and removes it.
ConnectInvalid(c, code) ==
    /\ clientPc[c] = "fresh"
    /\ ~Found(KeyOf[code])
    /\ DropUnusable(KeyOf[code])
    /\ Refuse(c, "invalid_code")
    /\ UNCHANGED attemptVars

ConnectBusy(c, code) ==
    /\ clientPc[c] = "fresh"
    /\ Found(KeyOf[code]) /\ ~IsAvailable(codes[KeyOf[code]])
    /\ Refuse(c, "server_busy")
    /\ UNCHANGED <<tableVars, attemptVars>>

\* The exit node's handler has seen its socket close: the send raises at once.
ConnectUnreachable(c, code) ==
    /\ clientPc[c] = "fresh"
    /\ Found(KeyOf[code]) /\ IsAvailable(codes[KeyOf[code]])
    /\ exitPc[codes[KeyOf[code]]] = "closing"
    /\ Refuse(c, "tunnel_error")
    /\ UNCHANGED <<tableVars, attemptVars>>

Connect(c, code) ==
    LET e == codes[KeyOf[code]]
    IN  /\ clientPc[c] = "fresh"
        /\ Found(KeyOf[code]) /\ IsAvailable(e) /\ exitPc[e] # "closing"
        /\ \E t \in Tunnels :
            /\ \A d \in Clients : minted[d] # t
            /\ target' = [target EXCEPT ![c] = e]
            /\ minted' = [minted EXCEPT ![c] = t]
            /\ SendExit(e, <<"PEER_CONNECTING", t>>)
        /\ ClientGoesTo(c, "notifying")
        /\ UNCHANGED <<tableVars, upVars, joined, toClient>>

\* PEER_CONNECTING was sent, and much may have happened since.
LinkSucceeds(c) ==
    /\ clientPc[c] = "notifying"
    /\ CanLink(target[c], c)
    /\ LinkSessions(target[c], c, minted[c])
    /\ joined' = joined \cup {c}
    /\ SendClient(c, <<"CONNECTED", minted[c]>>)
    /\ ClientGoesTo(c, "sending")
    /\ UNCHANGED <<exitVars, clients, codes, upVars, target, minted, toExit>>

\* link_sessions returns False, or the send raised (only when the peer dropped).
LinkFails(c) ==
    /\ clientPc[c] = "notifying"
    /\ ~CanLink(target[c], c) \/ ~exitUp[target[c]]
    /\ Refuse(c, "tunnel_error")
    /\ UNCHANGED <<tableVars, attemptVars>>

ClientSent(c) ==
    /\ clientPc[c] = "sending"
    /\ ClientGoesTo(c, "serving")
    /\ UNCHANGED <<tableVars, upVars, attemptVars, wireVars>>

\* relay_binary_data, client -> exit node.
RelayFromClient(c) ==
    /\ clientPc[c] = "serving"
    /\ clientExit[c] \in exitnodes
    /\ MayRelay(toExit[clientExit[c]], <<"DATA", c>>)
    /\ SendExit(clientExit[c], <<"DATA", c>>)
    /\ ClientGoesTo(c, "sending")
    /\ UNCHANGED <<tableVars, upVars, attemptVars, toClient>>

\* Mutant: the exit node is told and its session stays linked.
ClientClosesLinked_NoUnlink(c) ==
    /\ clientPc[c] \in {"fresh", "serving"} /\ ~clientUp[c]
    /\ clientTunnel[c] # None
    /\ \E e \in Holders(clientTunnel[c]) : SendExit(e, <<"PEER_DISCONNECTED", clientTunnel[c]>>)
    /\ ClientGoesTo(c, "closing")
    /\ UNCHANGED <<tableVars, upVars, attemptVars, toClient>>

\* Mutant: the session to tell is looked for by the tunnel id it has just lost.
ClientClosesLinked_Untold(c) ==
    /\ clientPc[c] \in {"fresh", "serving"} /\ ~clientUp[c]
    /\ clientTunnel[c] # None /\ Holders(clientTunnel[c]) # {}
    /\ UnlinkSessions(clientTunnel[c])
    /\ ClientGoesTo(c, "closing")
    /\ UNCHANGED <<exitVars, clients, codes, upVars, attemptVars, wireVars>>

\* The tunnel's exit node is still in the table: unlink, tell it, suspend.
ClientClosesLinked(c) ==
    /\ clientPc[c] \in {"fresh", "serving"} /\ ~clientUp[c]
    /\ clientTunnel[c] # None
    /\ \E e \in Holders(clientTunnel[c]) : SendExit(e, <<"PEER_DISCONNECTED", clientTunnel[c]>>)
    /\ UnlinkSessions(clientTunnel[c])
    /\ ClientGoesTo(c, "closing")
    /\ UNCHANGED <<exitVars, clients, codes, upVars, attemptVars, toClient>>

\* No tunnel, or no session in the table holds it: nobody is told.
ClientClosesIdle(c) ==
    /\ clientPc[c] \in {"fresh", "serving"} /\ ~clientUp[c]
    /\ clientTunnel[c] = None \/ Holders(clientTunnel[c]) = {}
    /\ clients' = clients \ {c}
    /\ ClientGoesTo(c, "gone")
    /\ UNCHANGED <<exitVars, linkVars, codes, upVars, attemptVars, wireVars>>

ClientRemoved(c) ==
    /\ clientPc[c] = "closing"
    /\ clients' = clients \ {c}
    /\ ClientGoesTo(c, "gone")
    /\ UNCHANGED <<exitVars, linkVars, codes, upVars, attemptVars, wireVars>>

-----------------------------------------------------------------------------
ExitHandler(e) ==
    \/ \E pref \in Codes \cup {None} : Register(e, pref)
    \/ ExitSent(e)
    \/ RelayFromExit(e)
    \/ ExitClosesLinked(e)
    \/ ExitClosesIdle(e)
    \/ ExitRemoved(e)

ClientHandler(c) ==
    \/ \E code \in Codes :
        \/ ConnectInvalid(c, code)
        \/ ConnectBusy(c, code)
        \/ ConnectUnreachable(c, code)
        \/ Connect(c, code)
    \/ LinkSucceeds(c)
    \/ LinkFails(c)
    \/ ClientSent(c)
    \/ RelayFromClient(c)
    \/ ClientClosesLinked(c)
    \/ ClientClosesIdle(c)
    \/ ClientRemoved(c)

Environment ==
    \/ \E e \in Exits : ExitConnects(e) \/ ExitDrops(e) \/ Expire(e)
    \/ \E c \in Clients : ClientConnects(c) \/ ClientDrops(c)

Next ==
    \/ \E e \in Exits : ExitHandler(e)
    \/ \E c \in Clients : ClientHandler(c)
    \/ CleanupExpired
    \/ Environment

Spec == Init /\ [][Next]_vars

-----------------------------------------------------------------------------
(* What the relay promises its peers *)

Sent(log, m) == \E i \in DOMAIN log : log[i] = m

\* A client is sent tunnel data only after CONNECTED and never after
\* PEER_DISCONNECTED: relaying and unlinking run in different coroutines, each
\* with awaits of its own (relay/broker.py:110, 140-148, 160-174).
ClientWireOrder ==
    \A c \in Clients : \A i \in DOMAIN toClient[c] : toClient[c][i][1] = "DATA" =>
        /\ \E j \in 1 .. i - 1 : toClient[c][j][1] = "CONNECTED"
        /\ \A j \in 1 .. i - 1 : toClient[c][j][1] # "PEER_DISCONNECTED"

\* An exit node is sent a client's data only between that tunnel's
\* PEER_CONNECTING and its PEER_DISCONNECTED, so the data of two clients is
\* always separated by the end of the first one's tunnel (README.md:122, "one
\* exit node serves one client at a time", as its socket sees it).
ExitWireOrder ==
    \A e \in Exits : \A i \in DOMAIN toExit[e] : toExit[e][i][1] = "DATA" =>
        LET c == toExit[e][i][2]
            Ended(d, from) == \E k \in from .. i - 1 :
                                  toExit[e][k] = <<"PEER_DISCONNECTED", minted[d]>>
        IN  /\ \E j \in 1 .. i - 1 : toExit[e][j] = <<"PEER_CONNECTING", minted[c]>>
            /\ ~Ended(c, 1)
            /\ \A j \in 1 .. i - 1 :
                toExit[e][j][1] = "DATA" /\ toExit[e][j][2] # c => Ended(toExit[e][j][2], j)

\* When the relay unlinks a tunnel, the end of it that is still there is told: the
\* client once its exit node has dropped, and the exit node once its client has, so
\* that it is there for the next one (relay/broker.py:150-186, "Disconnect a tunnel
\* and notify both parties").  A tunnel that goes with an expired session is not
\* unlinked, and nobody is told of its end: the client's link attributes stay, and the
\* exit node is then not in the table.
UnlinkIsTold ==
    \A c \in joined :
        LET e == target[c]
        IN  /\ clientUp[c] /\ clientTunnel[c] = None
                => Sent(toClient[c], <<"PEER_DISCONNECTED", minted[c]>>)
            /\ exitUp[e] /\ (exitTunnel[e] # minted[c] \/ (e \in exitnodes /\ clientPc[c] = "gone"))
                => Sent(toExit[e], <<"PEER_DISCONNECTED", minted[c]>>)

\* What is written to the websockets tells each side one consistent story.
WireOrder == ClientWireOrder /\ ExitWireOrder /\ UnlinkIsTold

\* A tunnel, from its link to the step that unlinks it or removes its exit node from
\* the table, ends for one of three reasons: a peer of its own has dropped, or its own
\* session has expired.  No other client's lookup, registration, failed attempt or
\* disconnection takes it down, and no clean-up of other sessions does
\* (relay/session.py:200-203, 261-291, 310; relay/broker.py:188-207).
TunnelEndsForCause ==
    [][\A e \in exitnodes :
        /\ exitClient[e] # None
        /\ exitClient'[e] # exitClient[e] \/ e \notin exitnodes'
        => ~exitUp[e] \/ ~clientUp[exitClient[e]] \/ expired[e]]_vars

\* The relay implements TunnelPairing: every step of a handler, of the cleanup
\* loop or of a lookup that drops an expired session pairs, unpairs, adds or
\* removes peers as that specification allows, or changes nothing it sees.
Pairing == INSTANCE TunnelPairing WITH
    offered <- exitnodes,
    present <- clients,
    pairs <- {p \in Exits \X Clients : p[1] \in exitnodes /\ exitClient[p[1]] = p[2]}
RelayImplementsPairing == Pairing!PairingSpec
=============================================================================
