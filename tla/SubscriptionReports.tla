------------------------- MODULE SubscriptionReports -------------------------
(***************************************************************************)
(* The super admin's subscriptions page (src/subscriptions): the list, its *)
(* summary and its analytics.  EXPIRED is no status of a row: it is derived*)
(* at every read from the end of the store's period, and the filters that  *)
(* the database knows are applied before those that need what is derived.  *)
(***************************************************************************)
EXTENDS ReportData

CONSTANTS
  SoonDays,      \* EXPIRING_SOON_DAYS, and the dashboard's seven days
  PeriodDays,    \* days the analytics go back
  Asked          \* the queries the three parts of the page are compared for

(* A query: what its fields ask for, "any" where one is not given (the     *)
(* ranges of dates and prices, and the search, filter like "within").      *)
Query == [status : ContractStatuses \cup {"EXPIRED", "any"}, plan : Plans \cup {"any"},
          within : {"any", "soon"}]
Every == [status |-> "any", plan |-> "any", within |-> "any"]

ASSUME SubscriptionReportsAssumption ==
  SoonDays \in Nat /\ PeriodDays \in 1..90 /\ Asked \subseteq Query

-----------------------------------------------------------------------------
Contracts == {s \in Registered : store[s].contract # "NONE"}

(* Mutant: what is left of a day does not count. *)
DaysLeftFloor(s) == (store[s].end - now) \div 2

(* Days begun: on the day a period ends there are none left, not -1. *)
DaysLeft(s) == (store[s].end - now + 1) \div 2

Running == {"TRIAL", "ACTIVE"}
EffectiveStatus(s) ==
  IF store[s].contract \in Running /\ DaysLeft(s) < 0 THEN "EXPIRED" ELSE store[s].contract
ExpiringSoon(s) == EffectiveStatus(s) \in Running /\ DaysLeft(s) <= SoonDays

(* Prices as agreed; nothing gives a discount or adds a tax. *)
AgreedPrice(s) ==
  IF store[s].yearly THEN PriceOf[store[s].plan].yearly ELSE PriceOf[store[s].plan].monthly
Revenue(S) == SumFunction([s \in S |-> AgreedPrice(s)])

FetchFiltered(q) ==
  {s \in Contracts :
     /\ q.plan = "any" \/ store[s].plan = q.plan
     /\ q.status \in {"any", "EXPIRED"} \/ store[s].contract = q.status
     /\ q.status = "EXPIRED" => EffectiveStatus(s) = "EXPIRED"
     /\ q.within = "soon" => DaysLeft(s) \in 0..SoonDays}

(* What the page shows of a row. *)
Serialize(s) ==
  [store |-> s, plan |-> store[s].plan, status |-> store[s].contract,
   effectiveStatus |-> EffectiveStatus(s), expiringSoon |-> ExpiringSoon(s),
   endAt |-> store[s].end, daysLeft |-> DaysLeft(s), finalAmount |-> AgreedPrice(s)]

(* The list by the end of the period (one of its sort keys), and a page.   *)
SubscriptionList(q, asc) ==
  Sorted(FetchFiltered(q),
    LAMBDA s, u : IF asc THEN store[s].end < store[u].end ELSE store[s].end > store[u].end)
SubscriptionPage(q, asc, page, size) ==
  LET l     == SubscriptionList(q, asc)
      total == Cardinality(FetchFiltered(q))
      last  == IF page * size < total THEN page * size ELSE total
  IN [items |-> [i \in 1..last - (page - 1) * size |-> Serialize(l[(page - 1) * size + i])],
      total |-> total]

Summary(q) ==
  LET items == FetchFiltered(q)
      count(st) == Cardinality({s \in items : EffectiveStatus(s) = st})
  IN [total |-> Cardinality(items), active |-> count("ACTIVE"), trial |-> count("TRIAL"),
      expired |-> count("EXPIRED"), cancelled |-> count("CANCELLED"),
      suspended |-> count("SUSPENDED"), pendingPayment |-> count("PENDING_PAYMENT"),
      expiringSoon |-> Cardinality({s \in items : ExpiringSoon(s)}), revenue |-> Revenue(items)]

(* The groups, and the series by local days, today's the last. *)
SubscriptionAnalytics(q) ==
  LET items == FetchFiltered(q)
      group(key(_)) == LET g == GroupBy(items, key)
                       IN [k \in DOMAIN g |-> [stores |-> Cardinality(g[k]), revenue |-> Revenue(g[k])]]
      day(i)    == StartOfDay(now - 2 * i)
      born(i)   == {s \in items : day(i) <= store[s].since /\ store[s].since < day(i) + 2}
  IN [new       |-> Cardinality({s \in items : store[s].since >= now - 2 * PeriodDays}),
      expired   |-> Cardinality({s \in items : EffectiveStatus(s) = "EXPIRED"}),
      revenue   |-> Revenue(items),
      byPackage |-> group(LAMBDA s : store[s].plan),
      byStatus  |-> group(EffectiveStatus),
      byCycle   |-> group(LAMBDA s : IF store[s].yearly THEN "YEARLY" ELSE "MONTHLY"),
      growth    |-> [i \in 0..PeriodDays - 1 |->
                       [stores |-> Cardinality(born(i)), revenue |-> Revenue(born(i))]]]

-----------------------------------------------------------------------------
(* The page's three parts are computed by three requests: whatever is      *)
(* asked for, the tiles of the summary and each grouping of the analytics  *)
(* share out the same rows and the same money, the pages of the list put   *)
(* together are as many as the summary's total, and no contract is in the  *)
(* series of growth that is not among the new ones.                        *)
SubscriptionsAddUp ==
  \A q \in Asked :
    LET m == Summary(q)
        a == SubscriptionAnalytics(q)
        stores(f)  == Adding(f, LAMBDA v : v.stores)
        shared(f)  == stores(f) = m.total /\ Adding(f, LAMBDA v : v.revenue) = m.revenue
        page(i)    == SubscriptionPage(q, FALSE, i, 1)
    IN /\ m.active + m.trial + m.expired + m.cancelled + m.suspended + m.pendingPayment = m.total
       /\ shared(a.byPackage) /\ shared(a.byStatus) /\ shared(a.byCycle)
       /\ {page(i).items[1].store : i \in 1..page(1).total} = FetchFiltered(q)
       /\ page(1).total = m.total
       /\ a.expired = m.expired /\ stores(a.growth) <= a.new
       /\ m.expiringSoon <= m.active + m.trial

(* A filter by a derived status finds what the summary counts; one by a    *)
(* status of the row finds the expired ones too.                           *)
FiltersTell ==
  LET of(st) == Cardinality(FetchFiltered([Every EXCEPT !.status = st]))
      m == Summary(Every)
  IN /\ of("EXPIRED") = m.expired
     /\ of("ACTIVE") + of("TRIAL") = m.active + m.trial + m.expired
=============================================================================
