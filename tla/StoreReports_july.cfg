CONSTANTS
  o1 = o1
  o2 = o2
  o3 = o3
  s1 = s1
  s2 = s2
  i1 = i1
  i2 = i2
  i3 = i3
  Orders = {o1, o2, o3}
  Stores = {s1, s2}
  Customers = {"ann", "bob"}
  Plans = {"basic", "pro"}
  Facts <- MCFacts
  PriceOf <- MCPrices
  OrderStatuses = {"DELIVERED", "CANCELLED"}
  Histories <- MCHistories
  Openings <- MCOpenings
  Start <- MCStart
  Offset = 0
  MaxTicks = 2
  MaxWrites = 2
  Window = 2
  Recent = 3
  Top = 1
  Backlog <- MCBacklog
  SoonDays = 2
  PeriodDays = 2
  Asked <- MCAsked
  RangeDays = 2
  Items = {i1, i2, i3}
  Levels = {0, 3, 9}
  WarehouseOf <- MCWarehouseOf
  ActiveItems = {i1, i3}
  FirstRows <- MCFirstRows
  FirstAt <- MCFirstAt
  PageSize = 1
  MaxChanges = 3
SPECIFICATION ReportsSpec
INVARIANTS ReportsSound PagesCover
CHECK_DEADLOCK FALSE
