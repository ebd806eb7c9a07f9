----------------------------- MODULE MCOrderFlow -----------------------------
(* OrderFlow for TLC: the signals are interchangeable. *)
EXTENDS OrderFlow, TLC
Symmetry == Permutations(Signals)
=============================================================================
