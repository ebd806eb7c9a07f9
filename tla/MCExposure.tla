----------------------------- MODULE MCExposure -----------------------------
(* Exposure for TLC: the tickers are interchangeable. *)
EXTENDS Exposure, TLC
Symmetry == Permutations(Tickers)
=============================================================================
