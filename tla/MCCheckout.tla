---------------------------- MODULE MCCheckout ----------------------------
(* A request and its retry, one with the same lines the other way round    *)
(* that redeems a point, and one more that wants the point; p is a         *)
(* product, v a variant of another one.                                    *)
EXTENDS Checkout, TLC
CONSTANTS p, v, a1, a2, a3, a4, k1, k2, k3

MCKey  == [a \in Attempts |->
  CASE a \in {a1, a2} -> k1 [] a = a3 -> k2 [] a = a4 -> k3]
MCBase == [l \in Lines |-> l]
MCCart == [k \in Keys |->
  CASE k = k1 -> <<p, v>> [] k = k2 -> <<v, p>> [] k = k3 -> <<p>>]
MCCost == [k \in Keys |-> IF k = k1 THEN 0 ELSE 1]

MCCartOfOne == [k \in Keys |-> <<p>>]
MCNoCost    == [k \in Keys |-> 0]
=============================================================================
