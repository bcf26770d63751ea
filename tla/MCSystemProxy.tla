--------------------------- MODULE MCSystemProxy ---------------------------
(* SystemProxy with a symmetry of its network services, for TLC. *)
EXTENDS SystemProxy, TLC

ServiceSymmetry == Permutations(Services)
=============================================================================
