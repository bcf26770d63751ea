--------------------------- MODULE TunnelPairing ---------------------------
(***************************************************************************)
(* What the relay is for, without sockets, codes or suspended handlers:    *)
(* exit nodes are on offer, clients are present, and the relay pairs them  *)
(* one to one.  RelayServer implements this specification.                 *)
(***************************************************************************)
CONSTANTS Exits, Clients

VARIABLES
    offered,  \* exit nodes a client could be paired with
    present,  \* connected clients
    pairs     \* the tunnels: <<exit node, client>>

pairingVars == <<offered, present, pairs>>

PairingTypeOK ==
    /\ offered \in SUBSET Exits
    /\ present \in SUBSET Clients
    /\ pairs \in SUBSET (Exits \X Clients)

PairingInit == offered = {} /\ present = {} /\ pairs = {}

Offer(e) ==
    /\ e \notin offered
    /\ offered' = offered \cup {e}
    /\ UNCHANGED <<present, pairs>>

Arrive(c) ==
    /\ c \notin present
    /\ present' = present \cup {c}
    /\ UNCHANGED <<offered, pairs>>

\* Neither the exit node nor the client is paired yet.
Pair(e, c) ==
    /\ e \in offered /\ c \in present
    /\ \A p \in pairs : p[1] # e /\ p[2] # c
    /\ pairs' = pairs \cup {<<e, c>>}
    /\ UNCHANGED <<offered, present>>

Unpair(e, c) ==
    /\ <<e, c>> \in pairs
    /\ pairs' = pairs \ {<<e, c>>}
    /\ UNCHANGED <<offered, present>>

\* Exit nodes leave, or are dropped together when their codes expire.
Withdraw(S) ==
    /\ S # {} /\ S \subseteq offered
    /\ offered' = offered \ S
    /\ pairs' = {p \in pairs : p[1] \notin S}
    /\ UNCHANGED present

\* A client leaves only after its pairing has ended.
Leave(c) ==
    /\ c \in present
    /\ \A p \in pairs : p[2] # c
    /\ present' = present \ {c}
    /\ UNCHANGED <<offered, pairs>>

PairingNext ==
    \/ \E e \in Exits : Offer(e)
    \/ \E c \in Clients : Arrive(c) \/ Leave(c)
    \/ \E e \in Exits, c \in Clients : Pair(e, c) \/ Unpair(e, c)
    \/ \E S \in SUBSET Exits : Withdraw(S)

PairingSpec == PairingInit /\ [][PairingNext]_pairingVars

\* One exit node serves one client at a time, and the other way round
\* (README.md:122).
OneToOne ==
    \A p, q \in pairs : p[1] = q[1] \/ p[2] = q[2] => p = q

\* A pair's ends are there.
PairsArePresent == \A p \in pairs : p[1] \in offered /\ p[2] \in present
=============================================================================
