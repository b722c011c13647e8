--------------------------- MODULE PlatformReports ---------------------------
(***************************************************************************)
(* The super admin's reports (src/admin): analytics, reports,              *)
(* platformReport, dashboard and the customers' figures, each as the code  *)
(* derives it from its own queries.  Roundings to two decimals and labels  *)
(* are left out; a window of Window days stands for 7, 30 or 90.           *)
(***************************************************************************)
EXTENDS SubscriptionReports

CONSTANTS
  Window,   \* days of the dashboard's window
  Recent,   \* days of the daily sales trend (14 in the code)
  Top,      \* rows of a leaderboard (5, 6 and 10)
  Backlog   \* counts of tables other modules model, for the action queue

ASSUME PlatformAssumption ==
  /\ Window \in Nat \ {0} /\ Recent \in Nat \ {0} /\ Top \in Nat
  /\ Backlog \in [{"applications-submitted", "applications-in-review", "messages-unread",
                   "subscriptions-unpaid"} -> Nat]

-----------------------------------------------------------------------------
(* dayKey and monthKey are of UTC, the bounds of a window are local. *)
DayKey(t)   == DayOf(t)
MonthKey(t) == MonthOf(t)
DayKeys(from, n) == {DayKey(from + 2 * i) : i \in 0..n - 1}

DaysBack(n) == StartOfDay(now - 2 * n)

(* setMonth(getMonth() - 5) keeps the day, and a day the month of five     *)
(* months ago does not have overflows into the next; setDate(1) follows.   *)
FirstOfTrend(t) ==
  LET m == MonthOf(t + Offset) - 5
  IN IF DayOfMonth(t + Offset) <= LengthOf(m) THEN m ELSE m + 1

TrendStart  == FirstOfMonth(FirstOfTrend(now)) - Offset
TrendMonths == {MonthKey(FirstOfMonth(FirstOfTrend(now) + i) - Offset) : i \in 0..5}

(* Buckets filled from rows; a row with no bucket is skipped. *)
Trend(keys, S, key(_)) == [k \in keys |-> Sales({o \in S : key(o) = k})]
PlacedOn(o) == DayKey(order[o].at)
PlacedIn(o) == MonthKey(order[o].at)

(* A leaderboard: stores in an order, cut off. *)
StoreGross(s) == Gross(OrdersOfStore(s))
Leaderboard(S, before(_, _)) ==
  LET ranked == Sorted(S, before)
  IN [i \in {k \in DOMAIN ranked : k <= Top} |-> ranked[i]]
TopStores == Leaderboard(Registered, LAMBDA s, u : StoreGross(s) > StoreGross(u))

StoresByStatus == CountBy(Registered, LAMBDA s : store[s].status)
CountIn(counts, k) == IF k \in DOMAIN counts THEN counts[k] ELSE 0

-----------------------------------------------------------------------------
Analytics ==
  [stores         |-> Cardinality(Registered),
   orders         |-> Cardinality(Placed),
   ordersByStatus |-> CountBy(Placed, StatusOf),
   grossSales     |-> SumFunction([s \in {Facts[o].store : o \in Realized(Placed)} |-> StoreGross(s)]),
   pendingStores  |-> CountIn(StoresByStatus, "PENDING")]

Reports ==
  LET since == DaysBack(Recent - 1)
  IN [salesTrend   |-> Trend(DayKeys(since, Recent), Since(Placed, since), PlacedOn),
      signupsTrend |-> [m \in TrendMonths |->
         Cardinality({s \in Registered : store[s].at >= TrendStart /\ MonthKey(store[s].at) = m})],
      topStores    |-> TopStores]

(* Estimated MRR: a yearly plan counts a twelfth. *)
WithPlan   == {s \in Registered : store[s].plan # "none"}
Active     == {s \in Registered : store[s].status = "ACTIVE"}
Monthly(s) == IF store[s].yearly THEN PriceOf[store[s].plan].yearly \div 12
              ELSE PriceOf[store[s].plan].monthly
Mrr(S)     == SumFunction([s \in S |-> Monthly(s)])
PlanMix(S) ==
  LET g == GroupBy(S, LAMBDA s : store[s].plan)
  IN [p \in DOMAIN g |-> [stores |-> Cardinality(g[p]), mrr |-> Mrr(g[p])]]

OrderStatusBreakdown == CountBy(Placed, StatusOf)

(* Merchant health, and the customers who came back. *)
GrossAllTime == SumFunction([s \in Registered |-> StoreGross(s)])
Dormant      == {s \in Active : OrdersOfStore(s) = {}}
OrdersByCustomer ==
  CountBy({o \in Placed : Facts[o].customer # Nobody}, LAMBDA o : Facts[o].customer)
RepeatCustomers == {c \in DOMAIN OrdersByCustomer : OrdersByCustomer[c] >= 2}

PlatformReport ==
  LET billed == Active \cap WithPlan
  IN [mrr               |-> Mrr(billed),
      byPlan            |-> PlanMix(billed),
      yearly            |-> Cardinality({s \in billed : store[s].yearly}),
      monthly           |-> Cardinality({s \in billed : ~ store[s].yearly}),
      planDistribution  |-> CountBy(WithPlan, LAMBDA s : store[s].plan),
      storesByStatus    |-> StoresByStatus,
      gmvTrend          |-> Trend(TrendMonths, Since(Placed, TrendStart), PlacedIn),
      ordersByStatus    |-> OrderStatusBreakdown,
      gross             |-> GrossAllTime,
      deliveredOrders   |-> CountIn(OrderStatusBreakdown, "DELIVERED"),
      dormant           |-> Dormant,
      topStores         |-> TopStores,
      customersOrdering |-> Cardinality(DOMAIN OrdersByCustomer),
      repeatCustomers   |-> Cardinality(RepeatCustomers)]

(* withCustomerStats, of orders of all stores or (CustomersService) of one;*)
(* and a customer's page, his orders below his figures.                    *)
StatsOf(S) ==
  LET g == GroupBy({o \in S : Facts[o].customer # Nobody}, LAMBDA o : Facts[o].customer)
  IN [c \in Customers |->
        IF c \in DOMAIN g
        THEN [orders |-> Cardinality(g[c]), gross |-> Gross(g[c]),
              lastOrderAt |-> Max({order[o].at : o \in g[c]})]
        ELSE [orders |-> 0, gross |-> 0, lastOrderAt |-> -1]]

CustomerStats    == StatsOf(Placed)
StoreCustomers(s) == StatsOf(OrdersOfStore(s))

Newest(S) == Sorted(S, LAMBDA a, b : order[a].at > order[b].at)
HistoryOf(S, c) == Newest({o \in S : Facts[o].customer = c})
CustomerPage(c) == [stats |-> CustomerStats[c], orders |-> HistoryOf(Placed, c)]
StoreCustomerPage(s, c) ==
  [stats |-> StoreCustomers(s)[c], orders |-> HistoryOf(OrdersOfStore(s), c)]

(* The stores of the super admin's list, newest first within a status. *)
StatusRank == [PENDING |-> 0, ACTIVE |-> 1, SUSPENDED |-> 2, REJECTED |-> 3]
StoreList ==
  LET rank(s) == StatusRank[store[s].status]
      listed  == Sorted(Registered, LAMBDA s, u :
                   \/ rank(s) < rank(u)
                   \/ rank(s) = rank(u) /\ store[s].at > store[u].at)
  IN [i \in DOMAIN listed |-> [store |-> listed[i], orders |-> Cardinality(OrdersOfStore(listed[i]))]]

-----------------------------------------------------------------------------
(* The dashboard: one query of orders for the window and the one before. *)
From     == DaysBack(Window - 1)
PrevFrom == From - 2 * Window

Current  == Since(Placed, From)
Previous == Since(Placed, PrevFrom) \ Current

SignedUp(t) == {s \in Registered : store[s].at >= t}

DailySeries ==
  [k \in DayKeys(From, Window) |->
     [orders |-> Cardinality({o \in Current : PlacedOn(o) = k}),
      gross  |-> Gross({o \in Current : PlacedOn(o) = k}),
      stores |-> Cardinality({s \in SignedUp(PrevFrom) : DayKey(store[s].at) = k})]]

PerStore == LET g == GroupBy(Current, LAMBDA o : Facts[o].store)
            IN [s \in DOMAIN g |-> Sales(g[s])]

MoreSales(s, u) ==
  LET a == PerStore[s]
      b == PerStore[u]
  IN a.gross > b.gross \/ (a.gross = b.gross /\ a.orders > b.orders)

(* What needs a human: rows of nothing are left out, but the total counts  *)
(* every row (the queue's order, by severity, is left out).                *)
DueSoon == {s \in Contracts : store[s].contract \in {"ACTIVE", "TRIAL"} /\ now <= store[s].end
                               /\ store[s].end <= now + 2 * SoonDays}
Expired == {s \in Active : store[s].end # NoEnd /\ store[s].end < now}

QueueRows == DOMAIN Backlog \cup
  {"subscriptions-expiring", "subscriptions-expired", "stores-pending", "stores-suspended",
   "stores-no-plan", "stores-dormant"}
QueueCounts ==
  [k \in QueueRows |->
     CASE k = "subscriptions-expiring" -> Cardinality(DueSoon)
       [] k = "subscriptions-expired"  -> Cardinality(Expired)
       [] k = "stores-pending"   -> CountIn(StoresByStatus, "PENDING")
       [] k = "stores-suspended" -> CountIn(StoresByStatus, "SUSPENDED")
       [] k = "stores-no-plan"   -> Cardinality(Active \ WithPlan)
       [] k = "stores-dormant"   ->
            Cardinality({s \in Active : OrdersOfStore(s) = {} /\ store[s].at < now - 28})
       [] OTHER -> Backlog[k]]

ActionQueue == LET counts == QueueCounts IN {k \in QueueRows : counts[k] > 0}

(* countByKey keeps the last count of a key; here every order is a row of  *)
(* count 1, so every status that occurs counts 1.                          *)
DashboardOrdersByStatus == [st \in {StatusOf(o) : o \in Current} |-> 1]

Dashboard ==
  [gmv             |-> [value |-> Gross(Current), previous |-> Gross(Previous)],
   orders          |-> [value |-> Cardinality(Current), previous |-> Cardinality(Previous)],
   deliveredOrders |-> [value |-> Cardinality(Realized(Current)),
                        previous |-> Cardinality(Realized(Previous))],
   newStores       |-> [value |-> Cardinality(SignedUp(From)),
                        previous |-> Cardinality(SignedUp(PrevFrom) \ SignedUp(From))],
   mrr             |-> Mrr(Active \cap WithPlan),
   activeStores    |-> CountIn(StoresByStatus, "ACTIVE"),
   series          |-> DailySeries,
   perStore        |-> PerStore,
   topStores       |-> Leaderboard(DOMAIN PerStore, MoreSales),
   planMix         |-> PlanMix(Active \cap WithPlan),
   ordersByStatus  |-> DashboardOrdersByStatus,
   queue           |-> ActionQueue,
   pendingActions  |-> Adding(QueueCounts, LAMBDA n : n)]

-----------------------------------------------------------------------------
(* The trends are titled "last 6 months".  On days 1 to 28 they are: six   *)
(* months, this one the last, and no order of them left out; later in a    *)
(* month the window may start a month late and end with a month to come.   *)
SixMonths == {MonthOf(now) - i : i \in 0..5}
TrendIsLastSixMonths ==
  /\ TrendMonths = SixMonths
  /\ OrdersIn(PlatformReport.gmvTrend) = Cardinality({o \in Placed : PlacedIn(o) \in SixMonths})

TrendByTheDay ==
  DayOfMonth(now) <= 28 \/ DayOfMonth(now) <= LengthOf(MonthOf(now) - 5) => TrendIsLastSixMonths

(* The dashboard's tiles, its daily series and its leaderboard are computed*)
(* by three loops over one query: each adds up to the same sales, and the  *)
(* two windows share no order and miss none between them.                  *)
DashboardAddsUp ==
  LET d == Dashboard
  IN /\ OrdersIn(d.series) = d.orders.value /\ OrdersIn(d.perStore) = d.orders.value
     /\ GrossIn(d.series) = d.gmv.value /\ GrossIn(d.perStore) = d.gmv.value
     /\ Adding(d.series, LAMBDA v : v.stores) = d.newStores.value
     /\ d.orders.value + d.orders.previous = Cardinality(Since(Placed, PrevFrom))
     /\ d.deliveredOrders.value <= d.orders.value
     /\ \A s \in DOMAIN d.perStore \ Range(d.topStores), u \in Range(d.topStores) :
          d.perStore[u].gross >= d.perStore[s].gross
=============================================================================
