-------------------------- MODULE MCOrderLifecycle --------------------------
(* A store that sells one product, without variants.                       *)
EXTENDS OrderLifecycle, TLC
CONSTANTS p, c

MCBase  == [l \in {p} |-> p]
(* The dearer of the two discounts is out of reach. *)
MCSaved == [b \in {c} |-> 1]

(* Enough statuses to leave the merchant's hands, to settle and to reopen. *)
MCTargets == {"CONFIRMED", "SHIPPED", "DELIVERED", "CANCELLED"}

MCSymmetry == Permutations(Requests) \cup Permutations(Orders)
=============================================================================
