--------------------------- MODULE MCReconnection ---------------------------
(* Reconnection on a small instance for TLC: one sharer and the connectors a *)
(* and b, with two websockets each.                                          *)
EXTENDS Reconnection, TLC

CONSTANTS e1, e2, c1, c2, d1, d2

MCSharerOf == [e \in Exits |-> "home"]
MCConnectorOf == [c \in Clients |-> IF c \in {d1, d2} THEN "b" ELSE "a"]
MCTurn == [x \in Exits \cup Clients |-> IF x \in {e1, c1, d1} THEN 1 ELSE 2]
MCPreferred == "home" :> "AB"
MCTyped == [p \in Connectors |-> "AB"]

\* "AB" has the key "ab"; "22" has no letters and is its own key.
MCKeyOf == [code \in Codes |-> IF code = "AB" THEN "ab" ELSE code]
=============================================================================
