--------------------------- MODULE MCRelayServer ---------------------------
(* RelayServer on a small instance for TLC. *)
EXTENDS RelayServer, TLC

\* The code typed "AB" has the key "ab"; "22" has no letters and is its own key.
MCKeyOf == [code \in {"AB", "22"} |-> IF code = "AB" THEN "ab" ELSE code]

MCKeyOf1 == ("AB" :> "ab")

\* Clients and tunnel ids are interchangeable (exit nodes are not: MayExpire).
MCSymmetry == Permutations(Clients) \cup Permutations(Tunnels)
=============================================================================
