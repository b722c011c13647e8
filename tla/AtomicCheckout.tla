--------------------------- MODULE AtomicCheckout ---------------------------
(* What the checkout promises: the order of a request is placed once, at a *)
(* stroke, for what the shop shows to be in stock and for points the       *)
(* customer has.                                                           *)
EXTENDS Integers

CONSTANTS Keys,        \* client request ids
          Lines,       \* what stock is counted for
          Units(_, _), \* Units(k, l): what order k takes of line l
          Cost,        \* Cost[k]: the points it redeems
          MaxStock,    \* bound: the stock of a line
          Saved        \* bound: the customer's points

VARIABLES placed,   \* requests whose order exists
          stock,    \* stock[l]: what the shop shows
          points    \* User.loyaltyPoints

Init ==
  /\ placed = {}
  /\ stock \in [Lines -> 0..MaxStock]
  /\ points \in 0..Saved

Place(k) ==
  /\ k \notin placed
  /\ \A l \in Lines : stock[l] >= Units(k, l)
  /\ points >= Cost[k]
  /\ placed' = placed \cup {k}
  /\ stock' = [l \in Lines |-> stock[l] - Units(k, l)]
  /\ points' = points - Cost[k]

Next == \E k \in Keys : Place(k)

Spec == Init /\ [][Next]_<<placed, stock, points>>
=============================================================================
