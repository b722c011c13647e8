--------------------------- MODULE MerchantReports ---------------------------
(***************************************************************************)
(* A merchant's sales report (src/merchant-reports): one query of the      *)
(* store's orders of two periods, and every figure from those rows.  A     *)
(* range of Range days stands for 7, 30 or 90.                             *)
(***************************************************************************)
EXTENDS ReportData

CONSTANT RangeDays \* days of the report's range

ASSUME MerchantAssumption == RangeDays \in Nat \ {0}

RangeStart == StartOfDay(now) - 2 * (RangeDays - 1)

Earlier == RangeStart - 2 * RangeDays

InRange(s)     == Since(OrdersOfStore(s), RangeStart)
BeforeRange(s) == Since(OrdersOfStore(s), Earlier) \ InRange(s)

SalesSummary(s) ==
  [revenue   |-> Gross(InRange(s)),
   previous  |-> Gross(BeforeRange(s)),
   orders    |-> Cardinality(InRange(s)),
   delivered |-> Cardinality(Realized(InRange(s))),
   pending   |-> Cardinality({o \in InRange(s) : StatusOf(o) \in ActiveStatuses}),
   cancelled |-> Cardinality(Having(InRange(s), "CANCELLED"))]

SalesTrend(s) ==
  [k \in {DayOf(RangeStart + 2 * i) : i \in 0..RangeDays - 1} |->
     Sales({o \in InRange(s) : DayOf(order[o].at) = k})]

(* By product and by category: lines of delivered orders only. *)
SoldLines(s) == UNION {{[order |-> o, line |-> l] : l \in Facts[o].lines} : o \in Realized(InRange(s))}
LineSales(S) ==
  [quantity |-> SumFunction([x \in S |-> x.line.quantity]),
   gross    |-> SumFunction([x \in S |-> x.line.price * x.line.quantity]),
   orders   |-> Cardinality({x.order : x \in S})]

SoldBy(s, key(_)) == LET g == GroupBy(SoldLines(s), key) IN [k \in DOMAIN g |-> LineSales(g[k])]
SoldProducts(s)    == SoldBy(s, LAMBDA x : x.line.product)
SalesByCategory(s) == SoldBy(s, LAMBDA x : x.line.category)

(* By governorate, city and payment method: every order, delivered ones    *)
(* with their total; an order without a city is in no city's row.          *)
SalesBy(S, key(_)) == LET g == GroupBy(S, key) IN [k \in DOMAIN g |-> Sales(g[k])]
SalesByGovernorate(s) == SalesBy(InRange(s), LAMBDA o : Facts[o].governorate)
PaymentMethods(s)     == SalesBy(InRange(s), LAMBDA o : Facts[o].method)

Shipping(S) == SumFunction([o \in S |-> Facts[o].shipping])
Kept(S)     == S \ Having(S, "CANCELLED")
SalesByCity(s) ==
  LET g == GroupBy({o \in InRange(s) : Facts[o].city # "none"}, LAMBDA o : Facts[o].city)
  IN [c \in DOMAIN g |-> [orders |-> Cardinality(g[c]), gross |-> Gross(g[c]),
                           delivery |-> Shipping(Kept(g[c]))]]

DeliveryStats(s) ==
  [revenue |-> Shipping(Kept(InRange(s))),
   orders  |-> Cardinality({o \in Kept(InRange(s)) : Facts[o].shipping > 0})]

(* Every breakdown of the report adds up to its summary: by day, by        *)
(* governorate and by payment method; by status; by city, but for orders   *)
(* without one; and the products and categories sold to the revenue less   *)
(* shipping and plus the discounts.                                        *)
MerchantAddsUp ==
  \A s \in Registered :
    LET sum       == SalesSummary(s)
        delivered == Realized(InRange(s))
        discounts == SumFunction([o \in delivered |-> Facts[o].discount])
        whole(f)  == OrdersIn(f) = sum.orders /\ GrossIn(f) = sum.revenue
    IN /\ whole(SalesTrend(s)) /\ whole(SalesByGovernorate(s)) /\ whole(PaymentMethods(s))
       /\ sum.delivered + sum.pending + sum.cancelled = sum.orders
       /\ \A f \in {SoldProducts(s), SalesByCategory(s)} :
            GrossIn(f) = sum.revenue - Shipping(delivered) + discounts
       /\ Adding(SalesByCity(s), LAMBDA v : v.delivery) =
            DeliveryStats(s).revenue - Shipping(Kept({o \in InRange(s) : Facts[o].city = "none"}))
       /\ DeliveryStats(s).orders <= sum.orders - sum.cancelled
=============================================================================
