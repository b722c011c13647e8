------------------------------ MODULE StockPages ------------------------------
(***************************************************************************)
(* The inventory reports (src/merchant-reports/inventory-reports): totals  *)
(* over the stock rows, and the list of rows, newest change first, read    *)
(* page by page while rows change.  A page's rows and the total are two    *)
(* queries of one Promise.all; the merchant turns pages up to the last     *)
(* total he was told.  The lists of movements, of returns and damages and  *)
(* of transactions are read the same way, newest row first.                *)
(***************************************************************************)
EXTENDS Integers, FiniteSets, FiniteSetsExt

CONSTANTS
  Items,       \* stock rows, one per product
  Levels,      \* values of available
  WarehouseOf, \* WarehouseOf[i]: the warehouse of a row
  ActiveItems, \* the rows of products that are active
  FirstRows,   \* the rows there may be when a behaviour starts
  FirstAt,     \* FirstAt[i]: updatedAt of a row at the start, all different
  PageSize,
  MaxChanges   \* bound: changes of rows, and lists opened, in a behaviour

VARIABLES
  item,       \* item[i]: the available units of a row, or Gone
  updatedAt,  \* updatedAt[i]: the change that wrote the row last
  reader,     \* the merchant's way through the pages
  changes

pageVars == <<item, updatedAt, reader, changes>>

Gone    == -1
Filters == {"all", "IN_STOCK", "LOW_STOCK", "OUT_OF_STOCK"}
Threshold == 5  \* DEFAULT_LOW_STOCK_THRESHOLD; reorderLevel is 0, nothing writes it

ASSUME PageAssumption ==
  /\ Levels \subseteq Nat /\ PageSize \in Nat \ {0} /\ MaxChanges \in Nat
  /\ FirstRows \subseteq [Items -> Levels \cup {-1}] /\ ActiveItems \subseteq Items
  /\ FirstAt \in [Items -> Int] /\ \A i \in Items : FirstAt[i] <= 0
  /\ \A i, j \in Items : FirstAt[i] = FirstAt[j] => i = j
  /\ IsFiniteSet(Items)

-----------------------------------------------------------------------------
StatusOfStock(n) == IF n <= 0 THEN "OUT_OF_STOCK" ELSE IF n <= Threshold THEN "LOW_STOCK" ELSE "IN_STOCK"

(* The where clause of a list, and a page of it: orderBy updatedAt desc,   *)
(* skip, take.                                                             *)
Where(f, n) == f = "all" \/ StatusOfStock(n) = f
ListOf(stock, f) == {i \in Items : stock[i] # Gone /\ Where(f, stock[i])}
Listed(f)   == ListOf(item, f)

(* Mutant: the oldest change is listed first. *)
OldestFirst(f, i) == {j \in Listed(f) : updatedAt[j] < updatedAt[i]}

Before(f, i) == {j \in Listed(f) : updatedAt[j] > updatedAt[i]}
Page(f, n)   == {i \in Listed(f) : Cardinality(Before(f, i)) \in (n - 1) * PageSize..n * PageSize - 1}
Pages(total) == IF total = 0 THEN 1 ELSE (total + PageSize - 1) \div PageSize

NoReader == [filter |-> "none"]

PagesInit ==
  /\ item \in FirstRows
  /\ updatedAt = FirstAt
  /\ reader = NoReader /\ changes = 0

(* What a change of rows means to the reader: the rows touched, whether a  *)
(* row left his list, and whether one came between the two queries of a    *)
(* page, the count before the rows.                                        *)
Witness(i) ==
  IF reader = NoReader THEN UNCHANGED reader
  ELSE LET old == Listed(reader.filter)
           new == ListOf(item', reader.filter)
       IN reader' = [reader EXCEPT !.touched = @ \cup {i},
                       !.left = @ \/ ~ old \subseteq new,
                       !.late = @ \/ (reader.counted /\ ~ reader.read /\ ~ new \subseteq old)]

Change == changes < MaxChanges /\ changes' = changes + 1

SetStock(i, n) ==
  /\ item[i] # Gone /\ Change
  /\ item' = [item EXCEPT ![i] = n]
  /\ updatedAt' = [updatedAt EXCEPT ![i] = changes + 1]
  /\ Witness(i)

AddRow(i, n) ==
  /\ item[i] = Gone /\ Change
  /\ item' = [item EXCEPT ![i] = n]
  /\ updatedAt' = [updatedAt EXCEPT ![i] = changes + 1]
  /\ Witness(i)

DropRow(i) ==
  /\ item[i] # Gone /\ Change
  /\ item' = [item EXCEPT ![i] = Gone]
  /\ Witness(i) /\ UNCHANGED updatedAt

-----------------------------------------------------------------------------
OpenList(f) ==
  /\ reader = NoReader
  /\ reader' = [filter |-> f, page |-> 1, read |-> FALSE, counted |-> FALSE, total |-> 0,
                shown |-> {}, first |-> Listed(f), touched |-> {}, left |-> FALSE,
                late |-> FALSE, closed |-> FALSE]
  /\ Change /\ UNCHANGED <<item, updatedAt>>

Reading == reader # NoReader /\ ~ reader.closed

ReadRows ==
  /\ Reading /\ ~ reader.read
  /\ reader' = [reader EXCEPT !.read = TRUE, !.shown = @ \cup Page(reader.filter, reader.page)]
  /\ UNCHANGED <<item, updatedAt, changes>>

CountRows ==
  /\ Reading /\ ~ reader.counted
  /\ reader' = [reader EXCEPT !.counted = TRUE, !.total = Cardinality(Listed(reader.filter))]
  /\ UNCHANGED <<item, updatedAt, changes>>

TurnPage ==
  /\ Reading /\ reader.read /\ reader.counted
  /\ reader' = IF reader.page < Pages(reader.total)
               THEN [reader EXCEPT !.page = @ + 1, !.read = FALSE, !.counted = FALSE]
               ELSE [reader EXCEPT !.closed = TRUE]
  /\ UNCHANGED <<item, updatedAt, changes>>

PagesNext ==
  \/ \E i \in Items : DropRow(i) \/ \E n \in Levels : SetStock(i, n) \/ AddRow(i, n)
  \/ \E f \in Filters : OpenList(f)
  \/ ReadRows \/ CountRows \/ TurnPage

PagesSpec == PagesInit /\ [][PagesNext]_pageVars

-----------------------------------------------------------------------------
(* summary and warehouses: over rows of active products. *)
Rows       == {i \in Items : item[i] # Gone}
ActiveRows == {i \in Rows : i \in ActiveItems}
UnitsOf(S) == SumFunction([i \in S |-> item[i]])

StockSummary ==
  [available  |-> UnitsOf(ActiveRows),
   rows       |-> Cardinality(Rows),
   inStock    |-> Cardinality({i \in ActiveRows : item[i] > Threshold}),
   lowStock   |-> Cardinality({i \in ActiveRows : 0 < item[i] /\ item[i] <= Threshold}),
   outOfStock |-> Cardinality({i \in ActiveRows : item[i] <= 0})]

Warehouses ==
  [w \in {WarehouseOf[i] : i \in Items} |-> UnitsOf({i \in ActiveRows : WarehouseOf[i] = w})]

(* No two rows were written by one change, so that a page is in one order. *)
PagesTypeOK ==
  /\ item \in [Items -> Levels \cup {Gone}]
  /\ updatedAt \in [Items -> Int] /\ \A i, j \in Items : updatedAt[i] = updatedAt[j] => i = j
  /\ changes \in 0..MaxChanges

(* The list is in the order of the changes, so whatever is sold meanwhile, *)
(* a merchant who reads it to the end has seen every row that was there and*)
(* did not change (one that did is at the front), provided no row left the *)
(* list, which moves the rest up, and none came between the two queries of *)
(* a page.                                                                 *)
PagesCover ==
  reader # NoReader /\ reader.closed /\ ~ reader.left /\ ~ reader.late =>
    reader.first \ reader.touched \subseteq reader.shown

(* The summary counts with the row's reorder level and the list filters    *)
(* with the default threshold: for active products they agree, and the     *)
(* warehouses add up to the totals.                                        *)
StockAgrees ==
  LET active(f) == Cardinality({i \in ActiveRows : Where(f, item[i])})
  IN /\ StockSummary.inStock = active("IN_STOCK")
     /\ StockSummary.lowStock = active("LOW_STOCK")
     /\ StockSummary.outOfStock = active("OUT_OF_STOCK")
     /\ SumFunction(Warehouses) = StockSummary.available
=============================================================================
