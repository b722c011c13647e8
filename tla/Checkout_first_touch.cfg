SPECIFICATION Spec
CONSTANTS
  p = p
  v = v
  a1 = a1
  a2 = a2
  a3 = a3
  a4 = a4
  k1 = k1
  k2 = k2
  k3 = k3
  Attempts = {a1, a3}
  Keys = {k1, k2}
  Key <- MCKey
  Lines = {p}
  Base <- MCBase
  Cart <- MCCartOfOne
  Cost <- MCNoCost
  Tracked = {}
  Unique = {}
  MaxStock = 1
  Saved = 0
  Seed = seed
INVARIANT DocReserved
CHECK_DEADLOCK FALSE
