---------------------------- MODULE SessionTable ----------------------------
(***************************************************************************)
(* The relay's SessionManager (relay/session.py): the table of exit-node   *)
(* sessions, the table of client sessions and the table that maps the key  *)
(* of a connection code to an exit-node session.  It holds the state and   *)
(* the operations; RelayServer.tla says which handler calls which of them, *)
(* and where a handler may be suspended between two calls.                 *)
(*                                                                         *)
(* A session id is a uuid4 made for one websocket, so a session is named   *)
(* by its socket and an id never comes back.  The session objects outlive  *)
(* their table entry (a suspended coroutine still holds them): attributes  *)
(* are functions over all sessions, and membership in "exitnodes" or       *)
(* "clients" says whether the entry is in the table.                       *)
(***************************************************************************)
CONSTANTS
    Exits,      \* exit-node websockets (= exit-node session ids)
    Clients,    \* client websockets (= client session ids)
    Tunnels,    \* tunnel ids (uuid4)
    Codes,      \* connection codes as people and programs write them
    Keys,       \* normal forms of codes
    KeyOf,      \* code_key: KeyOf[code] is the normal form of code
    Generated,  \* the codes generate_connection_code can return
    None        \* Python's None

ASSUME SessionAssumption ==
    /\ None \notin Exits \cup Clients \cup Tunnels \cup Codes
    /\ KeyOf \in [Codes -> Keys]
    /\ Generated \subseteq Codes

VARIABLES
    exitnodes,     \* _exitnodes: the exit-node sessions in the table
    exitCode,      \* ExitNodeSession.code; None before registration
    exitClient,    \* ExitNodeSession.connected_client_id
    exitTunnel,    \* ExitNodeSession.tunnel_id
    expired,       \* is_expired(): its expires_at has passed
    clients,       \* _clients: the client sessions in the table
    clientExit,    \* ClientSession.connected_exitnode_id
    clientTunnel,  \* ClientSession.tunnel_id
    codes          \* _codes: key of a code -> exit-node session id

exitVars == <<exitnodes, exitCode, expired>>
linkVars == <<exitClient, exitTunnel, clientExit, clientTunnel>>
tableVars == <<exitVars, linkVars, clients, codes>>

TableTypeOK ==
    /\ exitnodes \in SUBSET Exits
    /\ exitCode \in [Exits -> Codes \cup {None}]
    /\ exitClient \in [Exits -> Clients \cup {None}]
    /\ exitTunnel \in [Exits -> Tunnels \cup {None}]
    /\ expired \in [Exits -> BOOLEAN]
    /\ clients \in SUBSET Clients
    /\ clientExit \in [Clients -> Exits \cup {None}]
    /\ clientTunnel \in [Clients -> Tunnels \cup {None}]
    /\ codes \in [Keys -> Exits \cup {None}]

TableInit ==
    /\ exitnodes = {}
    /\ exitCode = [e \in Exits |-> None]
    /\ exitClient = [e \in Exits |-> None]
    /\ exitTunnel = [e \in Exits |-> None]
    /\ expired = [e \in Exits |-> FALSE]
    /\ clients = {}
    /\ clientExit = [c \in Clients |-> None]
    /\ clientTunnel = [c \in Clients |-> None]
    /\ codes = [k \in Keys |-> None]

-----------------------------------------------------------------------------
(* Registration and lookup *)

\* Mutant: a preferred code is looked up as it was typed, not by its key.
PreferredIsFree_ByText(pref) == pref \notin Keys \/ codes[pref] = None

PreferredIsFree(pref) == codes[KeyOf[pref]] = None

\* _generate_unique_code compares the code it drew with the table's keys.
DrawnIsFree(g) == g \notin Keys \/ codes[g] = None

\* The codes create_exitnode_session may give a session that prefers "pref".
\* It is empty when every code that can be drawn is in use: the RuntimeError
\* leaves the tables as they were.
CodesFor(pref) ==
    IF pref # None /\ PreferredIsFree(pref)
    THEN {pref}
    ELSE {g \in Generated : DrawnIsFree(g)}

CreateExitnodeSession(e, code) ==
    /\ exitnodes' = exitnodes \cup {e}
    /\ exitCode' = [exitCode EXCEPT ![e] = code]
    /\ codes' = [codes EXCEPT ![KeyOf[code]] = e]
    /\ UNCHANGED <<linkVars, expired, clients>>

\* Mutant: a session's entry goes and its code stays.
RemoveExitnodeSessions_KeepCode(S) ==
    /\ exitnodes' = exitnodes \ S
    /\ codes' = codes

\* remove_exitnode_session for every member of S.  The code entry is dropped
\* by key, whichever session it names by then.
RemoveExitnodeSessions(S) ==
    /\ exitnodes' = exitnodes \ S
    /\ codes' = [k \in Keys |->
                    IF \E e \in S \cap exitnodes : KeyOf[exitCode[e]] = k
                    THEN None ELSE codes[k]]

\* get_exitnode_by_code finds a session under k ...
Found(k) == codes[k] \in exitnodes /\ ~expired[codes[k]]

\* ... and when it does not, it drops an expired session and its code, or a code
\* that has no session.
DropUnusable(k) ==
    /\ \/ codes[k] \in exitnodes /\ RemoveExitnodeSessions({codes[k]})
       \/ /\ codes[k] \notin exitnodes
          /\ codes' = [codes EXCEPT ![k] = None] /\ UNCHANGED exitnodes
    /\ UNCHANGED <<linkVars, exitCode, expired, clients>>

IsAvailable(e) == ~expired[e] /\ exitClient[e] = None

-----------------------------------------------------------------------------
(* Linking *)

\* Mutant: link_sessions trusts the availability its caller saw before its await.
CanLink_NoRecheck(e, c) == e \in exitnodes /\ c \in clients

CanLink(e, c) == e \in exitnodes /\ c \in clients /\ IsAvailable(e)

LinkSessions(e, c, t) ==
    /\ exitClient' = [exitClient EXCEPT ![e] = c]
    /\ exitTunnel' = [exitTunnel EXCEPT ![e] = t]
    /\ clientExit' = [clientExit EXCEPT ![c] = e]
    /\ clientTunnel' = [clientTunnel EXCEPT ![c] = t]

\* The exit-node sessions unlink_sessions finds for a tunnel (one at most).
Holders(t) == {e \in exitnodes : exitTunnel[e] = t}

\* Mutant: only the exit node's half of the link is reset.
UnlinkSessions_ExitHalf(t) ==
    /\ exitClient' = [e \in Exits |-> IF e \in Holders(t) THEN None ELSE exitClient[e]]
    /\ exitTunnel' = [e \in Exits |-> IF e \in Holders(t) THEN None ELSE exitTunnel[e]]
    /\ UNCHANGED <<clientExit, clientTunnel>>

UnlinkSessions(t) ==
    LET freed == {exitClient[e] : e \in Holders(t)} \cap clients
    IN  /\ exitClient' = [e \in Exits |->
                             IF e \in Holders(t) THEN None ELSE exitClient[e]]
        /\ exitTunnel' = [e \in Exits |->
                             IF e \in Holders(t) THEN None ELSE exitTunnel[e]]
        /\ clientExit' = [c \in Clients |->
                             IF c \in freed THEN None ELSE clientExit[c]]
        /\ clientTunnel' = [c \in Clients |->
                             IF c \in freed THEN None ELSE clientTunnel[c]]

-----------------------------------------------------------------------------
(* What the tables promise *)

\* A code leads to a session that is in the table and owns that code: no
\* lookup, removal or expiry leaves a code behind that names a gone session
\* (relay/session.py:195-198 cleans such orphans up; none ever arises).
CodeTableSound ==
    \A k \in Keys : codes[k] # None =>
        codes[k] \in exitnodes /\ exitCode[codes[k]] # None /\ KeyOf[exitCode[codes[k]]] = k

\* The generated codes have no letters and no separators.  The alphabet of
\* session.py:18-20 does have letters, and then RegisteredIsReachable fails.
GeneratedAreKeys == \A g \in Generated : g \in Keys /\ KeyOf[g] = g

\* Every registered exit node can be reached by the code it was told
\* (relay/session.py:294: the generated code "doesn't conflict with existing
\* ones", and 130: a preferred one is used only if not in use).
RegisteredIsReachable == \A e \in exitnodes : codes[KeyOf[exitCode[e]]] = e

\* Both ends of a link agree on the peer and on the tunnel: what
\* relay_binary_data forwards from either side reaches the other side of the
\* same tunnel, and a client never keeps an exit node that serves another
\* (relay/session.py:233-291, across every await of the broker).
LinkAgreement ==
    /\ \A e \in exitnodes : exitClient[e] # None =>
        /\ exitClient[e] \in clients
        /\ clientExit[exitClient[e]] = e
        /\ clientTunnel[exitClient[e]] = exitTunnel[e]
        /\ exitTunnel[e] # None
    /\ \A c \in clients : clientExit[c] \in exitnodes => exitClient[clientExit[c]] = c
=============================================================================
