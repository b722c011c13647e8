----------------------------- MODULE ReportData -----------------------------
(***************************************************************************)
(* What the reports read: orders with their status and createdAt, stores   *)
(* with their contract, and the clock, in half days, with a calendar of    *)
(* three years.  The writes are those of the other modules, reduced to the *)
(* columns a report tells apart.                                           *)
(***************************************************************************)
EXTENDS Integers, Sequences, FiniteSets, FiniteSetsExt

CONSTANTS
  Orders, Stores, Customers, Plans,
  Facts,       \* Facts[o]: what an order keeps for good: store, customer, lines, ...
  PriceOf,     \* PriceOf[p]: priceMonthly and priceYearly of a plan
  OrderStatuses, \* the statuses orders move to
  Histories,   \* the orders there may be when a behaviour starts
  Openings,    \* and the stores
  Start,       \* the time it starts
  Offset,      \* local time ahead of UTC, in half days
  MaxTicks,    \* bound: half days that pass
  MaxWrites    \* bound: writes in a behaviour

VARIABLES order, store, now, writes

dataVars == <<order, store, now, writes>>

Nobody == "guest"
Absent == [at |-> -1]
NoEnd  == -1

-----------------------------------------------------------------------------
(* The calendar: the days before each month of three years. *)
DaysOfYear == <<0, 31, 59, 90, 120, 151, 181, 212, 243, 273, 304, 334>>
DaysBefore == [m \in 0..36 |-> 365 * (m \div 12) + DaysOfYear[(m % 12) + 1]]
LengthOf(m) == DaysBefore[m + 1] - DaysBefore[m]

DayOf(t)        == t \div 2
MonthOfDay == [d \in 0..DaysBefore[36] - 1 |->
                 CHOOSE m \in 0..35 : DaysBefore[m] <= d /\ d < DaysBefore[m + 1]]
MonthOf(t)      == MonthOfDay[DayOf(t)]
DayOfMonth(t)   == DayOf(t) - DaysBefore[MonthOf(t)] + 1
FirstOfMonth(m) == 2 * DaysBefore[m]

(* setMonth(getMonth() + n): days the month does not have run over. *)
AddMonths(t, n) ==
  LET m == MonthOf(t + Offset) IN t + 2 * (DaysBefore[m + n] - DaysBefore[m])

(* setHours(0, 0, 0, 0), in local time. *)
StartOfDay(t) == 2 * DayOf(t + Offset) - Offset

(* Rows; a behaviour starts with five months of the calendar behind it.    *)
ActiveStatuses  == {"PENDING", "CONFIRMED", "PROCESSING", "SHIPPED", "OUT_FOR_DELIVERY"}
SettledStatuses == {"DELIVERED", "CANCELLED"}
Placing(t) == [status : ActiveStatuses \cup SettledStatuses, at : 0..t]

ContractStatuses == {"TRIAL", "ACTIVE", "SUSPENDED", "CANCELLED", "PENDING_PAYMENT"}
LifeStatuses     == {"PENDING", "ACTIVE", "SUSPENDED", "REJECTED"}
Opening(t) ==
  [status : LifeStatuses, plan : Plans \cup {"none"}, yearly : BOOLEAN, at : 0..t, since : 0..t,
   end : Nat \cup {NoEnd}, contract : ContractStatuses \cup {"NONE"}]
Consistent(s) == /\ (s.contract = "NONE") = (s.plan = "none")
                 /\ (s.contract = "NONE") = (s.end = NoEnd)

ASSUME ReportAssumption ==
  /\ \A S \in {Orders, Stores, Customers, Plans} : IsFiniteSet(S)
  /\ "none" \notin Plans /\ Nobody \notin Customers
  /\ Facts \in [Orders -> [store : Stores, customer : Customers \cup {Nobody}, method : STRING,
                           governorate : STRING, city : STRING, shipping : Nat, discount : Nat,
                           lines : SUBSET [product : STRING, category : STRING, quantity : Nat, price : Nat]]]
  /\ \A o \in Orders : IsFiniteSet(Facts[o].lines)
  /\ PriceOf \in [Plans -> [monthly : Nat, yearly : Nat]]
  /\ OrderStatuses \subseteq ActiveStatuses \cup SettledStatuses
  /\ Start \in 2 * DaysBefore[5]..2 * DaysBefore[12] + 59
  /\ Offset \in 0..1 /\ MaxTicks \in 0..59 /\ MaxWrites \in Nat
  /\ Histories \subseteq [Orders -> {Absent} \cup Placing(Start)]
  /\ Openings \subseteq [Stores -> {Absent} \cup {s \in Opening(Start) : Consistent(s)}]

-----------------------------------------------------------------------------
Placed     == {o \in Orders : order[o] # Absent}
Registered == {s \in Stores : store[s] # Absent}

DataInit ==
  /\ order \in Histories /\ store \in Openings
  /\ \A o \in Placed : Facts[o].store \in Registered
  /\ now = Start /\ writes = 0

Write == writes < MaxWrites /\ writes' = writes + 1 /\ UNCHANGED now

PlaceOrder(o) ==
  /\ o \notin Placed /\ Facts[o].store \in Registered
  /\ order' = [order EXCEPT ![o] = [status |-> "PENDING", at |-> now]]
  /\ Write /\ UNCHANGED store

MoveOrder(o, st) ==
  /\ o \in Placed /\ order[o].status # st
  /\ order' = [order EXCEPT ![o].status = st]
  /\ Write /\ UNCHANGED store

OpenStore(s) ==
  /\ s \notin Registered
  /\ \E p \in Plans, y \in BOOLEAN :
       store' = [store EXCEPT ![s] = [status |-> "PENDING", plan |-> p, yearly |-> y, at |-> now,
                   contract |-> "TRIAL", since |-> now, end |-> AddMonths(now, 1)]]
  /\ Write /\ UNCHANGED order

SetStatus(s, st) ==
  /\ s \in Registered /\ store[s].status # st
  /\ store' = [store EXCEPT ![s].status = st]
  /\ Write /\ UNCHANGED order

(* updatePlan: a period from now, and a contract for a store without one.  *)
(* (The Subscription row is written next; Subscriptions.tla has the two    *)
(* commits, and shows where nextRenewalAt is the end of the period.)       *)
PeriodFrom(t, yearly) == AddMonths(t, IF yearly THEN 12 ELSE 1)
NoContract(s) == store[s].contract = "NONE"
SetPlan(s, p, yearly) ==
  /\ s \in Registered
  /\ store' = [store EXCEPT ![s].plan = p, ![s].yearly = yearly, ![s].end = PeriodFrom(now, yearly),
                 ![s].contract = IF NoContract(s) THEN "ACTIVE" ELSE @,
                 ![s].since = IF NoContract(s) THEN now ELSE @]
  /\ Write /\ UNCHANGED order

(* renew, and the handlers that move the status (Subscriptions.tla). *)
Renew(s) ==
  /\ s \in Registered /\ store[s].contract \in {"TRIAL", "ACTIVE", "PENDING_PAYMENT"}
  /\ store' = [store EXCEPT ![s].contract = "ACTIVE", ![s].end = PeriodFrom(now, store[s].yearly)]
  /\ Write /\ UNCHANGED order

MoveContract(s, st) ==
  /\ s \in Registered /\ ~ NoContract(s) /\ store[s].contract # st
  /\ IF st = "ACTIVE" THEN store[s].contract = "SUSPENDED" ELSE store[s].contract # "CANCELLED"
  /\ store' = [store EXCEPT ![s].contract = st]
  /\ Write /\ UNCHANGED order

Tick ==
  /\ now < Start + MaxTicks
  /\ now' = now + 1
  /\ UNCHANGED <<order, store, writes>>

DataNext ==
  \/ \E o \in Orders : PlaceOrder(o) \/ \E st \in OrderStatuses : MoveOrder(o, st)
  \/ \E s \in Stores :
       \/ OpenStore(s)
       \/ \E st \in LifeStatuses : SetStatus(s, st)
       \/ \E p \in Plans, y \in BOOLEAN : SetPlan(s, p, y)
       \/ Renew(s) \/ \E st \in {"ACTIVE", "SUSPENDED", "CANCELLED"} : MoveContract(s, st)
  \/ Tick

-----------------------------------------------------------------------------
(* Sums over a set of orders; REALIZED_STATUSES is DELIVERED. *)
Subtotal(o)      == SumFunction([l \in Facts[o].lines |-> l.price * l.quantity])
Total(o)         == Subtotal(o) + Facts[o].shipping - Facts[o].discount
Having(S, st)    == {o \in S : order[o].status = st}
Realized(S)      == Having(S, "DELIVERED")
Gross(S)         == SumFunction([o \in Realized(S) |-> Total(o)])
Since(S, t)      == {o \in S : order[o].at >= t}
OrdersOfStore(s) == {o \in Placed : Facts[o].store = s}

(* groupBy, and the numbers most reports give of a group. *)
GroupBy(S, key(_)) == [k \in {key(x) : x \in S} |-> {x \in S : key(x) = k}]
CountBy(S, key(_)) == LET g == GroupBy(S, key) IN [k \in DOMAIN g |-> Cardinality(g[k])]
Sales(S)           == [orders |-> Cardinality(S), gross |-> Gross(S)]
StatusOf(o)        == order[o].status

(* sort: a row that comes before another is not after it in the list. *)
Sorted(S, before(_, _)) ==
  CHOOSE l \in [1..Cardinality(S) -> S] :
    \A i, j \in 1..Cardinality(S) : i < j => l[i] # l[j] /\ ~ before(l[j], l[i])

(* Summing a field of the values of a function. *)
Adding(f, value(_)) == SumFunction([k \in DOMAIN f |-> value(f[k])])
OrdersIn(f)         == Adding(f, LAMBDA v : v.orders)
GrossIn(f)          == Adding(f, LAMBDA v : v.gross)
=============================================================================
