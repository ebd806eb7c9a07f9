------------------------------ MODULE MCClient ------------------------------
(* Client for TLC: the getters are interchangeable. *)
EXTENDS Client, TLC
Symmetry == Permutations(Getters)
=============================================================================
