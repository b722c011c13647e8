CONSTANTS
  p = p
  c = c
  Lines = {p}
  Base <- MCBase
  Orders = {o1}
  Workers = {}
  AdjustTypes = {}
  MaxQty = 1
  MaxStock = 1
  MaxAdjusted = 0
  Customers = {c}
  Guest = guest
  Requests = {r1, r2}
  Saved <- MCSaved
  Prices = {1, 2}
  Awards = {1}
  Targets <- MCTargets
  MaxUpdates = 3
SPECIFICATION OrdersSpec
SYMMETRY MCSymmetry
INVARIANTS OrdersTypeOK SettledOnce BalanceReconciles
PROPERTY StockSpec
CHECK_DEADLOCK FALSE
