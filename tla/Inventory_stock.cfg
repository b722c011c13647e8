CONSTANTS
  p = p
  v = v
  Lines <- MCLines
  Base <- MCBase
  Orders = {o1, o2}
  Workers = {w1}
  AdjustTypes <- AdjustType
  MaxQty = 2
  MaxStock = 2
  MaxAdjusted = 1
SPECIFICATION Spec
SYMMETRY Symmetry
INVARIANTS TypeOK StockReconciles OversoldByLossesOnly
PROPERTIES ResolvedOnce MirrorFollows
CHECK_DEADLOCK FALSE
