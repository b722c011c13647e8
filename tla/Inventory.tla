----------------------------- MODULE Inventory -----------------------------
(***************************************************************************)
(* The inventory of one store: src/inventory/inventory.service.ts, and the *)
(* product edits that touch the same rows (src/products).                  *)
(*                                                                         *)
(* A line is what stock is counted for: a product, or one variant of it.   *)
(* Base[l] is the product's own line.  An order reserves, sells or         *)
(* releases all its lines in one database transaction, after locking the   *)
(* order's row and with conditional, atomic column updates: one action.    *)
(* adjustStock reads the row, checks it, and only then updates it, at READ *)
(* COMMITTED: two actions of a worker, with anything in between.  The      *)
(* first touch of a line creates its row in the same transaction; two      *)
(* overlapping first touches are not modelled here.                        *)
(***************************************************************************)
EXTENDS StockLevels, FiniteSets

CONSTANTS
  Lines,         \* products and variants of the store
  Base,          \* Base[l]: the product-level line of l
  Orders,        \* ids orders can get
  Workers,       \* concurrent merchant requests that adjust stock
  AdjustTypes,   \* the adjustments requested, a subset of AdjustType
  MaxQty,        \* bound: units of one line in one cart or adjustment
  MaxStock,      \* bound: stock a merchant types into the product form
  MaxAdjusted    \* bound: units of one line adjusted in a behaviour

ASSUME LinesAssumption   == Base \in [Lines -> Lines] /\ \A l \in Lines : Base[Base[l]] = Base[l]
ASSUME OrdersAssumption  == IsFiniteSet(Orders)
ASSUME AdjustAssumption  == AdjustTypes \subseteq AdjustType
ASSUME BoundsAssumption  == MaxQty \in Nat \ {0} /\ MaxStock \in Nat /\ MaxAdjusted \in Nat

VARIABLES
  live,     \* lines whose product (and variant) row exists
  stock,    \* Product.stock / ProductVariant.stock, the cache the shop shows
  tracked,  \* lines that have an InventoryItem row
  level,    \* level[l]: the columns of that row
  ledger,   \* ledger[l]: its StockMovement rows, summed per type
  placed,   \* orders that exist
  hold,     \* hold[o][l]: the StockReservation rows of an order for a line
  adjust    \* adjust[w]: the adjustment worker w has checked, not yet written

vars == <<live, stock, tracked, level, ledger, placed, hold, adjust>>

-----------------------------------------------------------------------------
HoldStatus == {"NONE", "ACTIVE", "COMMITTED", "RELEASED"}
Hold       == [qty : 0..MaxQty, status : HoldStatus]
NoHold     == [qty |-> 0, status |-> "NONE"]

Adjustment   == [line : Lines, type : AdjustTypes, qty : 1..MaxQty]
NoAdjustment == [line |-> "none"]
Carts        == {c \in [Lines -> 0..MaxQty] : \E l \in Lines : c[l] > 0}

Init ==
  /\ live = Lines
  /\ stock \in [Lines -> 0..MaxStock]
  /\ tracked = {}
  /\ level = [l \in Lines |-> NoLevel]
  /\ ledger = [l \in Lines |-> EmptyLedger]
  /\ placed = {}
  /\ hold = [o \in Orders |-> [l \in Lines |-> NoHold]]
  /\ adjust = [w \in Workers |-> NoAdjustment]

(* Mutant: getOrCreateInventoryItem forgets the OPENING_STOCK movement. *)
TouchedLedgerUnopened(l) == IF l \in tracked THEN ledger[l] ELSE EmptyLedger

(* getOrCreateInventoryItem: the row a transaction works on, created from  *)
(* the stock cache with an OPENING_STOCK movement if it is not there.      *)
Touched(l)       == IF l \in tracked THEN level[l] ELSE Opening(stock[l])
TouchedLedger(l) == IF l \in tracked THEN ledger[l]
                    ELSE Entered(EmptyLedger, "OPENING_STOCK", stock[l])

(* Mutant: the update's condition counts units that are already reserved. *)
OnShelf(l, q) == Touched(l).quantity >= q

(* The condition of reserveForOrder's update: available >= quantity. *)
InStock(l, q) == Touched(l).available >= q

-----------------------------------------------------------------------------
(* Checkout reserves every line of the cart, or nothing at all: a line     *)
(* short of available stock rolls the whole transaction back.              *)
ReserveForOrder(o, cart) ==
  LET S == {l \in Lines : cart[l] > 0}
  IN /\ o \notin placed
     /\ S \subseteq live
     /\ \A l \in S : InStock(l, cart[l])
     /\ placed' = placed \cup {o}
     /\ tracked' = tracked \cup S
     /\ level' = [l \in Lines |-> IF l \in S THEN Reserve(Touched(l), cart[l]) ELSE level[l]]
     /\ stock' = [l \in Lines |-> stock[l] - cart[l]]
     /\ ledger' = [l \in Lines |->
                     IF l \in S THEN Entered(TouchedLedger(l), "ORDER_RESERVATION", cart[l])
                                ELSE ledger[l]]
     /\ hold' = [hold EXCEPT ![o] = [l \in Lines |->
                   IF l \in S THEN [qty |-> cart[l], status |-> "ACTIVE"] ELSE NoHold]]
     /\ UNCHANGED <<live, adjust>>

(* Mutant: the status of the reservation is not looked at. *)
EverHeld(o) == {l \in tracked : hold[o][l].status # "NONE"}

(* The reservations commitSale and releaseReservation find to resolve. *)
Resolvable(o) == {l \in tracked : hold[o][l].status = "ACTIVE"}

Resolve(o, status) ==
  hold' = [hold EXCEPT ![o] = [l \in Lines |->
             IF l \in Resolvable(o) THEN [qty |-> hold[o][l].qty, status |-> status]
                                    ELSE hold[o][l]]]

(* The order is delivered: its units leave the warehouse. *)
CommitSale(o) ==
  LET S == Resolvable(o)
  IN /\ o \in placed
     /\ level' = [l \in Lines |-> IF l \in S THEN Sell(level[l], hold[o][l].qty) ELSE level[l]]
     /\ ledger' = [l \in Lines |-> IF l \in S THEN Entered(ledger[l], "SALE", -hold[o][l].qty)
                                              ELSE ledger[l]]
     /\ Resolve(o, "COMMITTED")
     /\ UNCHANGED <<live, stock, tracked, placed, adjust>>

(* The order is cancelled: its units are available again. *)
ReleaseReservation(o) ==
  LET S == Resolvable(o)
  IN /\ o \in placed
     /\ level' = [l \in Lines |-> IF l \in S THEN Release(level[l], hold[o][l].qty) ELSE level[l]]
     /\ stock' = [l \in Lines |-> IF l \in S THEN stock[l] + hold[o][l].qty ELSE stock[l]]
     /\ ledger' = [l \in Lines |-> IF l \in S
                                   THEN Entered(ledger[l], "RESERVATION_RELEASE", -hold[o][l].qty)
                                   ELSE ledger[l]]
     /\ Resolve(o, "RELEASED")
     /\ UNCHANGED <<live, tracked, placed, adjust>>

-----------------------------------------------------------------------------
(* Units of l adjusted so far; the bound on behaviours. *)
Adjusted(l) == ledger[l]["DAMAGED"] - ledger[l]["LOST"]
                 + ledger[l]["RETURN_TO_STOCK"] + ledger[l]["DAMAGED_RETURN"]
Within(l, q) == Adjusted(l) + q <= MaxAdjusted

Sufficient(v, type, q) == type \in TakingTypes => v.available >= q

(* The write half of adjustStock on row v with ledger led. *)
WriteAdjustment(l, type, q) ==
  /\ level' = [level EXCEPT ![l] = Adjust(Touched(l), type, q)]
  /\ ledger' = [ledger EXCEPT ![l] = Entered(TouchedLedger(l), type, AdjustChange(type, q))]
  /\ stock' = [stock EXCEPT ![l] = @ + MirrorDelta(type, q)]
  /\ tracked' = tracked \cup {l}
  /\ UNCHANGED <<live, placed, hold>>

(* adjustStock reads the row and passes its check. *)
AdjustRead(w, l, type, q) ==
  /\ adjust[w] = NoAdjustment
  /\ l \in tracked
  /\ Within(l, q)
  /\ Sufficient(level[l], type, q)
  /\ adjust' = [adjust EXCEPT ![w] = [line |-> l, type |-> type, qty |-> q]]
  /\ UNCHANGED <<live, stock, tracked, level, ledger, placed, hold>>

(* It updates the row by id, whatever the row holds by now. *)
AdjustWrite(w) ==
  /\ adjust[w] # NoAdjustment
  /\ adjust[w].line \in tracked
  /\ WriteAdjustment(adjust[w].line, adjust[w].type, adjust[w].qty)
  /\ adjust' = [adjust EXCEPT ![w] = NoAdjustment]

(* The transaction is rolled back: timeout, lost connection, row deleted.  *)
AdjustAbort(w) ==
  /\ adjust[w] # NoAdjustment
  /\ adjust' = [adjust EXCEPT ![w] = NoAdjustment]
  /\ UNCHANGED <<live, stock, tracked, level, ledger, placed, hold>>

(* adjustStock on a line without a row: the row it checks and updates is   *)
(* the one this transaction has just inserted, which nobody else sees.     *)
AdjustFirst(w, l, type, q) ==
  /\ adjust[w] = NoAdjustment
  /\ l \in live \ tracked
  /\ Within(l, q)
  /\ Sufficient(Touched(l), type, q)
  /\ WriteAdjustment(l, type, q)
  /\ UNCHANGED adjust

-----------------------------------------------------------------------------
(* ProductsService.update / syncVariants: the form's stock replaces the    *)
(* cache; the InventoryItem row is not touched.                            *)
EditStock(l, n) ==
  /\ l \in live
  /\ stock' = [stock EXCEPT ![l] = n]
  /\ UNCHANGED <<live, tracked, level, ledger, placed, hold, adjust>>

(* Mutant: the foreign key of the inventory rows does not cascade. *)
DeleteKeepingRow(S) ==
  /\ live' = live \ S
  /\ UNCHANGED <<tracked, stock, level, ledger, hold, placed, adjust>>

(* Deleting a product or variant row cascades to its inventory rows. *)
Delete(S) ==
  /\ live' = live \ S
  /\ tracked' = tracked \ S
  /\ stock' = [l \in Lines |-> IF l \in S THEN 0 ELSE stock[l]]
  /\ level' = [l \in Lines |-> IF l \in S THEN NoLevel ELSE level[l]]
  /\ ledger' = [l \in Lines |-> IF l \in S THEN EmptyLedger ELSE ledger[l]]
  /\ hold' = [o \in Orders |-> [l \in Lines |-> IF l \in S THEN NoHold ELSE hold[o][l]]]
  /\ UNCHANGED <<placed, adjust>>

(* ProductsService.remove deletes the product whatever its history. *)
RemoveProduct(p) ==
  /\ p \in live
  /\ Base[p] = p
  /\ Delete({l \in Lines : Base[l] = p})

(* syncVariants hard-deletes a dropped variant only if it has no order     *)
(* line, reservation or movement, that is, if nothing touched it yet.      *)
DropVariant(l) ==
  /\ l \in live \ tracked
  /\ Base[l] # l
  /\ Delete({l})

-----------------------------------------------------------------------------
OrderStep ==
  \E o \in Orders :
    \/ \E cart \in Carts : ReserveForOrder(o, cart)
    \/ CommitSale(o)
    \/ ReleaseReservation(o)

AdjustStep ==
  \E w \in Workers :
    \/ \E l \in Lines, type \in AdjustTypes, q \in 1..MaxQty :
         AdjustRead(w, l, type, q) \/ AdjustFirst(w, l, type, q)
    \/ AdjustWrite(w)
    \/ AdjustAbort(w)

EditStep ==
  \E l \in Lines :
    \/ \E n \in 0..MaxStock : EditStock(l, n)
    \/ RemoveProduct(l)
    \/ DropVariant(l)

Next == OrderStep \/ AdjustStep \/ EditStep

Spec == Init /\ [][Next]_vars

-----------------------------------------------------------------------------
TypeOK ==
  /\ live \subseteq Lines
  /\ stock \in [Lines -> Int]
  /\ tracked \subseteq live
  /\ level \in [Lines -> Level]
  /\ ledger \in [Lines -> Ledger]
  /\ placed \subseteq Orders
  /\ hold \in [Orders -> [Lines -> Hold]]
  /\ adjust \in [Workers -> Adjustment \cup {NoAdjustment}]

(* available = quantity - reserved - damaged in every row: no path of the  *)
(* service, and no interleaving of adjustments with orders, loses or       *)
(* invents a unit between the four columns.                                *)
Balanced == \A l \in Lines : IsBalanced(level[l])

(* "The current InventoryItem numbers must always be reconcilable by       *)
(* replaying this ledger" (schema.prisma, StockMovement).                  *)
LedgerReconciles == \A l \in Lines : Reconciles(level[l], ledger[l])

(* The units of line l that orders hold with the given status, one by one. *)
Units(l, status) ==
  {u \in Orders \X (1..MaxQty) : hold[u[1]][l].status = status /\ u[2] <= hold[u[1]][l].qty}

(* What a row says is reserved is exactly what its ACTIVE reservations     *)
(* hold, and what its ledger says was sold is what COMMITTED ones held:    *)
(* no unit is settled twice, and none is forgotten.                        *)
HoldsAccounted ==
  \A l \in Lines : /\ level[l].reserved = Cardinality(Units(l, "ACTIVE"))
                   /\ ledger[l]["SALE"] = -Cardinality(Units(l, "COMMITTED"))

(* A line without a row has no trace of a sale, hold or movement, and the  *)
(* cache its row will be opened from is not negative; an order that does   *)
(* not exist holds nothing.  With this a first touch cannot count a unit   *)
(* twice, nor a second checkout overwrite a hold.                          *)
FreshStart ==
  /\ \A l \in Lines \ tracked :
       /\ level[l] = NoLevel /\ ledger[l] = EmptyLedger /\ stock[l] >= 0
       /\ \A o \in Orders : hold[o][l] = NoHold
  /\ \A o \in Orders \ placed, l \in Lines : hold[o][l] = NoHold

(* The rows of the store agree with each other, whoever did what in        *)
(* whatever order: columns with columns, rows with the ledger, held and    *)
(* sold units with reservations, and what is gone leaves no trace.         *)
StockReconciles == Balanced /\ LedgerReconciles /\ HoldsAccounted /\ FreshStart

(* The inductive invariant. *)
IInv == TypeOK /\ Balanced /\ LedgerReconciles /\ HoldsAccounted /\ FreshStart

(* Orders are never promised a unit that is not there: available can be    *)
(* short by no more than merchants took away by hand, with adjustments     *)
(* checked on a row read earlier.                                          *)
TakenByHand(l) == ledger[l]["DAMAGED"] - ledger[l]["LOST"]
OversoldByLossesOnly == \A l \in Lines : level[l].available + TakenByHand(l) >= 0

(* The quantity of a loss is refused when it is larger than what is        *)
(* available now (the error message of adjustStock).                       *)
NoOversell == \A l \in Lines : level[l].available >= 0

(* A reservation is resolved once: COMMITTED and RELEASED are final, for   *)
(* as long as the product itself exists (schema.prisma, StockReservation). *)
ResolvedOnce ==
  [][\A o \in Orders, l \in live' :
       hold[o][l].status \in {"COMMITTED", "RELEASED"} => hold'[o][l] = hold[o][l]]_vars

(* A step that changes inventory rows moves the stock cache of each by as  *)
(* much as its available column, so the two drift apart by edits only.     *)
MirrorFollows ==
  [][level' # level =>
       \A l \in tracked \cap tracked' :
         stock'[l] - stock[l] = level'[l].available - level[l].available]_vars

=============================================================================
