CONSTANTS
  p1 = p1
  p2 = p2
  p3 = p3
  v1 = v1
  f1 = f1
  Products = {p1, p2, p3}
  Variants = {v1}
  VariantOf <- MCVariantOf
  Files = {f1}
  FileOf <- MCFileOf
  FirstProducts <- MCFirstProducts
  Orders = {o1}
  Requests = {q1, q2}
  MaxProducts = 1
  ImageLimit = 1
  MaxHandled = 2
  Customers = {c1, c2}
  Ratings = {3}
  Filters = {"all", "shoes"}
  Matching <- MCMatching
  TTL = 1
SPECIFICATION Spec
SYMMETRY MCSymmetry
INVARIANTS TypeOK LimitOverrun ShopFresh
PROPERTIES NothingStranded
CHECK_DEADLOCK FALSE
