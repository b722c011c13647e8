SPECIFICATION Spec
CONSTANTS
  p = p
  v = v
  a1 = a1
  a2 = a2
  a3 = a3
  a4 = a4
  k1 = k1
  k2 = k2
  k3 = k3
  Attempts = {a1, a2, a3, a4}
  Keys = {k1, k2, k3}
  Key <- MCKey
  Lines = {p, v}
  Base <- MCBase
  Cart <- MCCart
  Cost <- MCCost
  Tracked = {p}
  Unique = {v}
  MaxStock = 2
  Saved = 1
  Seed = seed
INVARIANTS TypeOK OneOrderPerKey
PROPERTIES PlacedAtomically Answered
CHECK_DEADLOCK FALSE
