----------------------------- MODULE MCOutbound -----------------------------
(* Values of the constants of Outbound for TLC: two orders that compete for *)
(* one LPN and for the new copies.                                          *)
EXTENDS Outbound, TLC

CONSTANTS a, b, o1, o2

Pin(i) == [pin |-> i, qty |-> 1]
New(n) == [pin |-> NoItem, qty |-> n]

(* One LPN is pinned twice, and three copies are wanted where there are two. *)
Rivals  == o1 :> {Pin(a), New(2)} @@ o2 :> {Pin(a), New(1)}

Symmetry == Permutations(Clerks) \cup Permutations(Slips)
=============================================================================
