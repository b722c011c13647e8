---------------------------- MODULE MCOrderMails ----------------------------
(* One order, of a buyer with an address or without, a return of it, and   *)
(* an occasion of every kind: with an order, with a suffix of the caller's *)
(* and about an account (all of them take the same path).                *)
EXTENDS OrderMails, TLC
CONSTANTS o1, r1

MCOrderOf   == [r \in {r1} |-> o1]
MCOccasions ==
  {RefundIssued(o1), SubscriptionEvent("end")} \cup {n \in AccountEvents : n.method = "customerWelcome"}
MCSymmetry == Permutations(Requests)
=============================================================================
