---------------------------- MODULE MCInventory ----------------------------
(* A store that sells one product p with one variant v of it.              *)
EXTENDS Inventory, TLC
CONSTANTS p, v

MCLines == {p, v}
MCBase  == [l \in MCLines |-> p]
MCBaseOfOne == [l \in {p} |-> p]

Symmetry == Permutations(Orders) \cup Permutations(Workers)
=============================================================================
