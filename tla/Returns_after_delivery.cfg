CONSTANTS
  Returns = {r1, r2}
  Refunds = {f1, f2}
  i = i
  Items = {i}
  Bought <- MCBought
  Requests = {q1, q2}
  Forms <- MCForms
  Quantities = {1, 2}
  Approvals = {2}
  Payments = {"PAID"}
  Amounts = {1, 2}
  MaxHandled = 3
SPECIFICATION Spec
SYMMETRY MCSymmetry
INVARIANTS ReturnsSound
PROPERTIES RestockFollowsDecision RefundVerdict
CHECK_DEADLOCK FALSE
