---------------------------- MODULE MCNumbering -----------------------------
(* Values of the constants of Numbering for TLC.                            *)
EXTENDS Numbering, TLC

AllOps == OpKinds

Symmetry == Permutations(Clerks) \cup Permutations(Copies) \cup Permutations(Jobs)
=============================================================================
