---------------------------- MODULE Reconnection ----------------------------
(***************************************************************************)
(* The programs at the two ends, as the relay sees them: the exit node's   *)
(* tunnel (exitnode/tunnel.py), which registers on one websocket after the *)
(* other for as long as it runs, and the client's (client/tunnel.py),      *)
(* which asks for its code on one websocket after the other until an error *)
(* is fatal.  The relay is RelayServer, with its handlers and their        *)
(* suspensions; its sockets are the programs' connection attempts.         *)
(*                                                                         *)
(* A connection fails half-open: the program's end is gone at once, the    *)
(* program notices in its time and the relay's handler in its own.  The    *)
(* relay may also be redeployed, which empties its tables, and a session   *)
(* expires while its websocket stays up.  Attempts that reach nobody       *)
(* change nothing and are left out, as are the length of the pauses        *)
(* between attempts, data frames, and the token's rejection.               *)
(***************************************************************************)
EXTENDS RelayServer

CONSTANTS
    Sharers,     \* programs that run "wayport share"
    Connectors,  \* programs that run "wayport connect"
    SharerOf,    \* whose connection attempt an exit-node websocket is
    ConnectorOf, \* whose connection attempt a client websocket is
    Turn,        \* the order in which a program uses its websockets
    Preferred,   \* preferred_code of a sharer
    Typed,       \* the code a connector was started with
    MaxFaults,   \* bound: how often the network or the relay fails
    Faults       \* bound: what may fail: websockets, and "relay"

ASSUME ReconnectionAssumption ==
    /\ None \notin Sharers \cup Connectors
    /\ SharerOf \in [Exits -> Sharers] /\ ConnectorOf \in [Clients -> Connectors]
    /\ Turn \in [Exits \cup Clients -> Nat]
    /\ Preferred \in [Sharers -> Codes] /\ Typed \in [Connectors -> Codes]
    /\ MaxFaults \in Nat /\ Faults \subseteq Exits \cup Clients \cup {"relay"}
    /\ Clients \subseteq Tunnels

VARIABLES
    exitWs,    \* _ws of a sharer's tunnel: its websocket, or None between attempts
    exitRead,  \* how many messages it has read from a websocket
    shown,     \* ExitNodeServer._current_code, the code its user sees
    clientWs,  \* _ws of a connector's tunnel
    clientRead,
    view,      \* what a connector knows of its tunnel; "tunnel" while it has a
               \* tunnel id, "stopped" after a fatal error
    paired,    \* history: connectors that have been in a tunnel
    faults     \* how many faults there were

sharerVars == <<exitWs, exitRead, shown>>
connectorVars == <<clientWs, clientRead, view, paired>>
programVars == <<sharerVars, connectorVars, faults>>
allVars == <<vars, programVars>>

ProgramsTypeOK ==
    /\ TypeOK
    /\ exitWs \in [Sharers -> Exits \cup {None}]
    /\ exitRead \in [Exits -> Nat]
    /\ shown \in [Sharers -> Codes \cup {None}]
    /\ clientWs \in [Connectors -> Clients \cup {None}]
    /\ clientRead \in [Clients -> Nat]
    /\ view \in [Connectors -> {"down", "waiting", "tunnel", "ended", "failed", "stopped"}]
    /\ paired \subseteq Connectors
    /\ faults \in 0 .. MaxFaults

ProgramsInit ==
    /\ Init
    /\ exitWs = [s \in Sharers |-> None]
    /\ exitRead = [e \in Exits |-> 0]
    /\ shown = [s \in Sharers |-> None]
    /\ clientWs = [p \in Connectors |-> None]
    /\ clientRead = [c \in Clients |-> 0]
    /\ view = [p \in Connectors |-> "down"]
    /\ paired = {} /\ faults = 0

-----------------------------------------------------------------------------
(* The exit node's tunnel: start, _connect, _handle_json_message *)

ExitAttempt(s, e) ==
    /\ exitWs[s] = None /\ SharerOf[e] = s
    /\ \A d \in Exits : SharerOf[d] = s /\ exitPc[d] = "none" => Turn[e] <= Turn[d]
    /\ ExitConnects(e)
    /\ exitWs' = [exitWs EXCEPT ![s] = e]
    /\ UNCHANGED <<exitRead, shown, connectorVars, faults>>

\* What the handlers show is what _handle_code_received was told.  It is the first
\* message of a websocket; those about clients change nothing that comes back to the
\* relay, and reading them is left out.
ExitReads(s) ==
    LET e == exitWs[s]
    IN  /\ e # None /\ exitUp[e] /\ exitRead[e] < Len(toExit[e])
        /\ LET m == toExit[e][exitRead[e] + 1]
           IN  m[1] = "REGISTERED" /\ shown' = [shown EXCEPT ![s] = m[2]]
        /\ exitRead' = [exitRead EXCEPT ![e] = @ + 1]
        /\ UNCHANGED <<vars, exitWs, connectorVars, faults>>

\* Mutant: the code of the connection that was lost stays on display.
ExitNotices_KeepsCode(s) ==
    /\ exitWs[s] # None /\ ~exitUp[exitWs[s]]
    /\ exitWs' = [exitWs EXCEPT ![s] = None]
    /\ UNCHANGED <<vars, exitRead, shown, connectorVars, faults>>

\* The websocket is found closed: status "disconnected", a pause, the next attempt.
ExitNotices(s) ==
    /\ exitWs[s] # None /\ ~exitUp[exitWs[s]]
    /\ exitWs' = [exitWs EXCEPT ![s] = None]
    /\ shown' = [shown EXCEPT ![s] = None]
    /\ UNCHANGED <<vars, exitRead, connectorVars, faults>>

-----------------------------------------------------------------------------
(* The client's tunnel: start_with_reconnect, _connect_and_handle and *)
(* _handle_json_message                                               *)

FatalErrors == {"invalid_code", "server_busy"}

ClientAttempt(p, c) ==
    /\ clientWs[p] = None /\ view[p] # "stopped" /\ ConnectorOf[c] = p
    /\ \A d \in Clients : ConnectorOf[d] = p /\ clientPc[d] = "none" => Turn[c] <= Turn[d]
    /\ ClientConnects(c)
    /\ clientWs' = [clientWs EXCEPT ![p] = c]
    /\ view' = [view EXCEPT ![p] = "waiting"]
    /\ UNCHANGED <<sharerVars, clientRead, paired, faults>>

\* The next message p has not read.
Unread(c) == clientUp[c] /\ clientRead[c] < Len(toClient[c])
NextMessage(c) == toClient[c][clientRead[c] + 1]

\* What CONNECTED, PEER_DISCONNECTED and the errors that are not fatal do.
ViewAfter(m) ==
    CASE m[1] = "CONNECTED" -> "tunnel"
      [] m[1] = "PEER_DISCONNECTED" -> "ended"
      [] m[1] = "ERROR" -> "failed"

ClientReads(p) ==
    LET c == clientWs[p]
    IN  /\ c # None /\ Unread(c)
        /\ ~(NextMessage(c)[1] = "ERROR" /\ NextMessage(c)[2] \in FatalErrors)
        /\ clientRead' = [clientRead EXCEPT ![c] = @ + 1]
        /\ view' = [view EXCEPT ![p] = ViewAfter(NextMessage(c))]
        /\ paired' = IF NextMessage(c)[1] = "CONNECTED" THEN paired \cup {p} ELSE paired
        /\ UNCHANGED <<vars, clientWs, sharerVars, faults>>

\* Mutant: every error of the relay is retried on the same websocket.
ClientStops_Stays(p) ==
    LET c == clientWs[p]
    IN  /\ c # None /\ Unread(c)
        /\ NextMessage(c)[1] = "ERROR" /\ NextMessage(c)[2] \in FatalErrors
        /\ clientRead' = [clientRead EXCEPT ![c] = @ + 1]
        /\ UNCHANGED <<vars, clientWs, view, paired, sharerVars, faults>>

\* A fatal error: the websocket is closed and the program ends.
ClientStops(p) ==
    LET c == clientWs[p]
    IN  /\ c # None /\ Unread(c)
        /\ NextMessage(c)[1] = "ERROR" /\ NextMessage(c)[2] \in FatalErrors
        /\ ClientDrops(c)
        /\ clientWs' = [clientWs EXCEPT ![p] = None]
        /\ view' = [view EXCEPT ![p] = "stopped"]
        /\ UNCHANGED <<clientRead, paired, sharerVars, faults>>

ClientNotices(p) ==
    /\ clientWs[p] # None /\ ~clientUp[clientWs[p]]
    /\ clientWs' = [clientWs EXCEPT ![p] = None]
    /\ view' = [view EXCEPT ![p] = "down"]
    /\ UNCHANGED <<vars, clientRead, paired, sharerVars, faults>>

-----------------------------------------------------------------------------
(* The network and the relay's host *)

Fault(what) ==
    /\ what \in Faults /\ faults < MaxFaults
    /\ faults' = faults + 1
    /\ UNCHANGED <<sharerVars, connectorVars>>

ExitLost(e) == Fault(e) /\ ExitDrops(e)

ClientLost(c) == Fault(c) /\ ClientDrops(c)

\* A redeploy: every connection drops and the tables are empty again.
RelayRestarts ==
    /\ Fault("relay")
    /\ exitnodes' = {} /\ clients' = {}
    /\ codes' = [k \in Keys |-> None]
    /\ exitClient' = [e \in Exits |-> None] /\ exitTunnel' = [e \in Exits |-> None]
    /\ clientExit' = [c \in Clients |-> None] /\ clientTunnel' = [c \in Clients |-> None]
    /\ exitPc' = [e \in Exits |-> IF exitPc[e] = "none" THEN "none" ELSE "gone"]
    /\ clientPc' = [c \in Clients |-> IF clientPc[c] = "none" THEN "none" ELSE "gone"]
    /\ exitUp' = [e \in Exits |-> FALSE] /\ clientUp' = [c \in Clients |-> FALSE]
    /\ toExit' = [e \in Exits |-> <<>>] /\ toClient' = [c \in Clients |-> <<>>]
    /\ UNCHANGED <<exitCode, expired, attemptVars>>

-----------------------------------------------------------------------------
(* The relay, serving these programs *)

RegistersSharer(e) == Register(e, Preferred[SharerOf[e]]) /\ UNCHANGED programVars

\* Tunnel ids are named by the websocket they are minted for.
AnswersConnector(c) ==
    /\ LET code == Typed[ConnectorOf[c]]
       IN  \/ ConnectInvalid(c, code)
           \/ ConnectBusy(c, code)
           \/ ConnectUnreachable(c, code)
           \/ Connect(c, code) /\ minted'[c] = c
    /\ UNCHANGED programVars

ServesExit(e) ==
    /\ ExitSent(e) \/ ExitClosesLinked(e) \/ ExitClosesIdle(e) \/ ExitRemoved(e)
    /\ UNCHANGED programVars

ServesClient(c) ==
    /\ \/ LinkSucceeds(c) \/ LinkFails(c) \/ ClientSent(c)
       \/ ClientClosesLinked(c) \/ ClientClosesIdle(c) \/ ClientRemoved(c)
    /\ UNCHANGED programVars

-----------------------------------------------------------------------------
SharerNext(s) == ExitReads(s) \/ ExitNotices(s) \/ \E e \in Exits : ExitAttempt(s, e)

ConnectorNext(p) ==
    \/ ClientReads(p) \/ ClientStops(p) \/ ClientNotices(p)
    \/ \E c \in Clients : ClientAttempt(p, c)

CleansUp == CleanupExpired /\ UNCHANGED programVars

RelayNext ==
    \/ \E e \in Exits : RegistersSharer(e) \/ ServesExit(e)
    \/ \E c \in Clients : AnswersConnector(c) \/ ServesClient(c)
    \/ CleansUp

\* The programs are not told that a session of theirs has expired.
TimePasses == \E e \in Exits : Expire(e) /\ UNCHANGED programVars

FaultNext ==
    \/ RelayRestarts
    \/ \E e \in Exits : ExitLost(e)
    \/ \E c \in Clients : ClientLost(c)

Service ==
    \/ \E s \in Sharers : SharerNext(s)
    \/ \E p \in Connectors : ConnectorNext(p)
    \/ RelayNext

ProgramsNext == Service \/ FaultNext \/ TimePasses

\* The programs go on trying, reading and noticing closed sockets (their own
\* heartbeats fail), and so do every handler and the clean-up loop of the relay;
\* faults and expiries need not happen.  No step of Service undoes another and the
\* attempts are bounded, so a behaviour has finitely many of them: asking that Service
\* does not stop while one is possible asks the same of every program and handler by
\* itself.
ProgramsSpec == ProgramsInit /\ [][ProgramsNext]_allVars /\ WF_allVars(Service)

-----------------------------------------------------------------------------
(* What the programs can rely on *)

\* The relay has let the session of a connection go: it is not told, keeps its
\* websocket and will not register again on it (relay/session.py:200-203, 301-312).
Lapsed(e) == expired[e] /\ e \notin exitnodes

\* The code a sharer shows its user leads, at the relay, to the connection the
\* sharer has: across redeploys, half-open connections of its own and the late
\* clean-up of their sessions (exitnode/server.py:273, 323), and until its session
\* has lapsed.  From then on the code on display leads nowhere, or to whoever
\* registers with it next.
ShownCodeLeadsHere ==
    \A s \in Sharers : exitWs[s] # None /\ exitUp[exitWs[s]] /\ shown[s] # None
        => codes[KeyOf[shown[s]]] = exitWs[s] \/ Lapsed(exitWs[s])

\* A connector that thinks it is in a tunnel is, or the news that it is not is on
\* the way, or the relay has let the session go (and tells nobody): at the relay its
\* tunnel is the one it was told of, and a sharer that is still at the other end is
\* linked to it and to nobody else, however many earlier attempts of either program
\* the relay is still cleaning up (client/tunnel.py:269-287, relay/broker.py:150).
\* The exit node's socket has to be up: a client linked to one whose handler is
\* closing is never told.
TunnelIsReal ==
    \A p \in Connectors : view[p] = "tunnel" /\ clientUp[clientWs[p]] =>
        LET c == clientWs[p]
            e == clientExit[c]
        IN  \/ Unread(c) /\ NextMessage(c) = <<"PEER_DISCONNECTED", minted[c]>>
            \/ /\ clientTunnel[c] = minted[c]
               /\ exitUp[e] => (e \in exitnodes /\ exitClient[e] = c) \/ Lapsed(e)

\* Once the faults have ended a sharer is registered, and the code it shows leads to
\* it, whatever of its earlier sessions the relay still held when it came back and
\* still had to remove (exitnode/tunnel.py:168-176).  It stays so until the session of
\* a websocket that is up expires; a sharer whose websocket went, expired or not,
\* comes back.
SharerComesBack ==
    \A s \in Sharers : <>[](/\ exitWs[s] # None /\ shown[s] # None
                           /\ \/ exitWs[s] \in exitnodes /\ codes[KeyOf[shown[s]]] = exitWs[s]
                              \/ exitUp[exitWs[s]] /\ Lapsed(exitWs[s]))

\* Once the faults have ended the relay's tables name only peers that are there:
\* no exit node stays "server_busy" for a client that is gone, and no code leads to
\* an exit node that is gone (relay/server.py:195-197, 237-240).
TablesSettle ==
    <>[](\A e \in exitnodes : exitUp[e] /\ (exitClient[e] # None => clientUp[exitClient[e]]))

\* A connector is never left without an answer: it is in a tunnel, has been told
\* that there is none, or has ended.
ConnectorIsAnswered ==
    \A p \in Connectors : []<>(view[p] \in {"tunnel", "ended", "failed", "stopped"})

\* What is not true: that a connector whose tunnel has ended reconnects with the
\* same code, or ends, once the sharer is back (client/tunnel.py:287).
TunnelIsMadeAgain == \A p \in Connectors : (view[p] = "ended") ~> (view[p] \in {"tunnel", "stopped"})

\* What is not true either: that a redeploy leaves connectors in the end where
\* they were (docs/deploy.md:67-69).
RedeployIsSurvived == \A p \in paired : view[p] # "stopped"
=============================================================================
