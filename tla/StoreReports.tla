---------------------------- MODULE StoreReports ----------------------------
(***************************************************************************)
(* The reports next to each other: the super admin's, the merchant's and   *)
(* the stock pages.  Each is computed by queries of its own; here they are *)
(* of one state of the database, and have to tell the same story.          *)
(***************************************************************************)
EXTENDS PlatformReports, MerchantReports, StockPages

reportVars == <<dataVars, pageVars>>

ReportsInit == DataInit /\ PagesInit

(* The lists and the other reports share no row: a behaviour is of the one *)
(* or of the others, and for the lists one without orders will do.         *)
ReportsNext ==
  \/ changes = 0 /\ DataNext /\ UNCHANGED pageVars
  \/ Registered = {} /\ now = Start /\ PagesNext /\ UNCHANGED dataVars

ReportsSpec == ReportsInit /\ [][ReportsNext]_reportVars

-----------------------------------------------------------------------------
(* The rows are of the kinds the code writes, none is of a time to come,   *)
(* every order is of a store, and a contract, a plan and the end of a      *)
(* period come together.                                                   *)
ReportsTypeOK ==
  /\ now \in Start..Start + MaxTicks /\ writes \in 0..MaxWrites
  /\ order \in [Orders -> {Absent} \cup Placing(now)]
  /\ store \in [Stores -> {Absent} \cup Opening(now)]
  /\ \A s \in Registered : Consistent(store[s])
  /\ \A o \in Placed : Facts[o].store \in Registered
  /\ PagesTypeOK

(* Within a report, what is counted in different ways is counted alike:    *)
(* the dashboard, the merchant's sales and the stock figures, each of which*)
(* is put together by several loops over its rows.                         *)
ReportsAddUp == DashboardAddsUp /\ MerchantAddsUp /\ StockAgrees /\ SubscriptionsAddUp /\ FiltersTell

(* Gross sales are computed by five queries (analytics, platformReport, the*)
(* customers' figures, the dashboard's window and the merchant's range),   *)
(* orders by six, the revenue expected of plans by three and what is       *)
(* pending by two: over one state they agree, a merchant's page tells what *)
(* the platform's leaderboard says of the store, and a customer's list of  *)
(* orders what his figures count.                                          *)
ReportsAgree ==
  LET a == Analytics
      p == PlatformReport
      d == Dashboard
      c == CustomerStats
      guests == {o \in Placed : Facts[o].customer = Nobody}
  IN /\ a.grossSales = p.gross
     /\ GrossIn(c) + Gross(guests) = a.grossSales
     /\ OrdersIn(c) + Cardinality(guests) = a.orders
     /\ OrdersIn(StoreList) = a.orders
     /\ \A x \in Customers :
          /\ Cardinality(DOMAIN CustomerPage(x).orders) = c[x].orders
          /\ c[x].orders > 0 => order[CustomerPage(x).orders[1]].at = c[x].lastOrderAt
          /\ SumFunction([s \in Registered |->
               Cardinality(DOMAIN StoreCustomerPage(s, x).orders)]) = c[x].orders
     /\ SumFunction([s \in Registered |-> SalesSummary(s).revenue]) = d.gmv.value
     /\ \A s \in DOMAIN d.perStore :
          d.perStore[s] = [orders |-> SalesSummary(s).orders, gross |-> SalesSummary(s).revenue]
     /\ d.mrr = p.mrr /\ Adding(d.planMix, LAMBDA m : m.mrr) = d.mrr
     /\ p.yearly + p.monthly = Adding(d.planMix, LAMBDA m : m.stores)
     /\ (a.pendingStores > 0) = ("stores-pending" \in d.queue)
     /\ Cardinality(p.dormant) <= d.activeStores

(* The dashboard asks the database for periods that ended and periods that *)
(* end soon, the subscriptions page derives both from the days left: they  *)
(* differ by the day on which a period ends, when the dashboard calls the  *)
(* store expired and the page says it runs out.                            *)
EndedToday(s) == store[s].end < now /\ now - store[s].end < 2
ContractsAgree ==
  LET running    == {s \in Contracts : store[s].contract \in Running}
      endedToday == {s \in running : EndedToday(s)}
      expired    == {s \in Contracts : EffectiveStatus(s) = "EXPIRED"}
  IN /\ expired \cap Active = (Expired \cap running) \ endedToday
     /\ {s \in Contracts : ExpiringSoon(s)} = DueSoon \cup endedToday

(* The figures of a report, those of different reports, and the months     *)
(* that a trend claims to cover.                                           *)
ReportsSound == ReportsTypeOK /\ TrendByTheDay /\ ReportsAddUp /\ ReportsAgree /\ ContractsAgree

=============================================================================
