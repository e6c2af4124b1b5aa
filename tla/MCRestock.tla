----------------------------- MODULE MCRestock ------------------------------
(* Values of the constants of Restock for TLC.                              *)
EXTENDS Restock, TLC

(* An LLM that asks for too few, or for far too many.                       *)
Extremes == { -1, 9 }

Symmetry == Permutations(Clerks) \cup Permutations(Cards)
=============================================================================
