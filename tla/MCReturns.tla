----------------------------- MODULE MCReturns -----------------------------
(* One order of one line, with one unit of it bought; two units may be     *)
(* asked for or approved.                                                  *)
EXTENDS Returns, TLC
CONSTANT i

MCBought == [x \in {i} |-> 1]

Decide(approved, decision) == [item |-> i, approved |-> approved, decision |-> decision]

(* Close and reopen the return; decide the line and take the decision      *)
(* back; name the line twice.                                              *)
MCForms ==
  [status : {"REQUESTED", "COMPLETED"}, edits : {<<>>}]
    \cup [status : {"unset"}, edits :
      {<<Decide(Unset, "NONE")>>, <<Decide(2, "RESTOCK_DAMAGED")>>,
       <<Decide(Unset, "RESTOCK_AVAILABLE")>>,
       <<Decide(Unset, "RESTOCK_AVAILABLE"), Decide(2, "RESTOCK_DAMAGED")>>}]

MCSymmetry == Permutations(Returns) \cup Permutations(Refunds) \cup Permutations(Requests)
=============================================================================
