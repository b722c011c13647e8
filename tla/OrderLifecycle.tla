--------------------------- MODULE OrderLifecycle ---------------------------
(***************************************************************************)
(* The orders of a store on top of its inventory: the checkout transaction *)
(* (src/storefront), the merchant's status updates (src/orders), the       *)
(* customer's own cancellation (src/customer-account) and the loyalty      *)
(* points the three move.                                                  *)
(*                                                                         *)
(* A handler reads the order, checks what it read, and opens a transaction *)
(* whose first statement locks the order's row: two actions of a request,  *)
(* the second one working from what the first one read.                    *)
(***************************************************************************)
EXTENDS Inventory

CONSTANTS
  Customers,   \* registered customers of the store
  Guest,       \* the buyer of an order without an account
  Requests,    \* concurrent requests about existing orders
  Saved,       \* Saved[c]: points of c from orders older than Orders
  Prices,      \* points a discount may cost, as the merchant edits it
  Awards,      \* points a delivery may earn, as the merchant edits it
  Targets,     \* statuses merchants ask for, a subset of OrderStatus
  MaxUpdates   \* bound: writes of one order's row in a behaviour

Cancellable == {"PENDING", "CONFIRMED", "PROCESSING"}
OrderStatus == Cancellable \cup {"SHIPPED", "OUT_FOR_DELIVERY", "DELIVERED", "CANCELLED"}

ASSUME CustomersAssumption == Guest \notin Customers /\ Saved \in [Customers -> Nat]
ASSUME PointsAssumption    == Prices \subseteq Nat \ {0} /\ Awards \subseteq Nat \ {0}
ASSUME TargetsAssumption   == Targets \subseteq OrderStatus /\ MaxUpdates \in Nat

VARIABLES
  order,    \* order[o]: the order's row
  points,   \* points[o]: its LoyaltyPointTransaction rows, 0 for no row
  balance,  \* balance[c]: User.loyaltyPoints
  request   \* request[r]: what a request read before its transaction

orderVars == <<order, points, balance, request>>

-----------------------------------------------------------------------------
(* updatedAt counts the writes of the row: it tells two versions apart. *)
Order   == [status : OrderStatus, buyer : Customers \cup {Guest}, redeemed : Nat,
            driver : BOOLEAN, updatedAt : 0..MaxUpdates]
NoOrder == [status |-> "NONE"]

PointRows == [EARNED : Nat, REDEEMED : Nat, RESTORED : Nat]
NoRows    == [EARNED |-> 0, REDEEMED |-> 0, RESTORED |-> 0]

(* existing is the row as the handler read it. *)
Request ==
  [kind : {"status"}, id : Orders, existing : Order, status : Targets, expected : BOOLEAN]
    \cup [kind : {"cancel", "driver"}, id : Orders, existing : Order]
Idle == [kind |-> "idle"]

OrdersInit ==
  /\ Init
  /\ order = [o \in Orders |-> NoOrder]
  /\ points = [o \in Orders |-> NoRows]
  /\ balance = Saved
  /\ request = [r \in Requests |-> Idle]

-----------------------------------------------------------------------------
(* Mutant: the points are deducted without the condition on the balance. *)
Registered(buyer, n) == n > 0 => buyer # Guest

(* The conditional decrement of the customer's points. *)
Affordable(buyer, n) == n > 0 => buyer # Guest /\ balance[buyer] >= n

(* createOrderTransaction: the order, the redeemed points and every hold,  *)
(* or nothing.  The price was read with the store, before the transaction. *)
PlaceOrder(o, buyer, cart, redeemed) ==
  /\ Affordable(buyer, redeemed)
  /\ ReserveForOrder(o, cart)
  /\ order' = [order EXCEPT ![o] = [status |-> "PENDING", buyer |-> buyer,
                 redeemed |-> redeemed, driver |-> FALSE, updatedAt |-> 0]]
  /\ points' = [points EXCEPT ![o].REDEEMED = redeemed]
  /\ balance' = IF redeemed > 0 THEN [balance EXCEPT ![buyer] = @ - redeemed] ELSE balance
  /\ UNCHANGED request

(* requireOrder, and what each handler checks on the row it has read.  A   *)
(* client that names the version it saw passes assertNotStale only if that *)
(* is the version read here.                                               *)
Read(r, o, req) ==
  /\ request[r] = Idle
  /\ o \in placed
  /\ request' = [request EXCEPT ![r] = req]
  /\ UNCHANGED <<order, points, balance, vars>>

ReadForStatus(r, o, status, expected) ==
  Read(r, o, [kind |-> "status", id |-> o, existing |-> order[o],
              status |-> status, expected |-> expected])

ReadForCancel(r, o) ==
  /\ order[o].status \in Cancellable
  /\ order[o].buyer # Guest
  /\ Read(r, o, [kind |-> "cancel", id |-> o, existing |-> order[o]])

ReadForDriver(r, o) ==
  /\ order[o].status # "CANCELLED"
  /\ Read(r, o, [kind |-> "driver", id |-> o, existing |-> order[o]])

-----------------------------------------------------------------------------
(* Every order.update of a transaction renews updatedAt. *)
Written(o, row) ==
  /\ order[o].updatedAt < MaxUpdates
  /\ order' = [order EXCEPT ![o] = [row EXCEPT !.updatedAt = @ + 1]]

Done(r) == request' = [request EXCEPT ![r] = Idle]

(* Mutant: the balance grows whether or not the row was a duplicate. *)
CreditAlways(o, buyer, type, n) ==
  IF buyer # Guest /\ n > 0
  THEN /\ points' = [points EXCEPT ![o][type] = IF @ = 0 THEN n ELSE @]
       /\ balance' = [balance EXCEPT ![buyer] = @ + n]
  ELSE UNCHANGED <<points, balance>>

(* createMany with skipDuplicates, then the balance if a row was created. *)
Credit(o, buyer, type, n) ==
  IF buyer # Guest /\ n > 0 /\ points[o][type] = 0
  THEN /\ points' = [points EXCEPT ![o][type] = n]
       /\ balance' = [balance EXCEPT ![buyer] = @ + n]
  ELSE UNCHANGED <<points, balance>>

(* Mutant: the holds of an order are sold only if it was on its way when   *)
(* the request read it.                                                    *)
DeliverOnTransition(o, existing, award) ==
  /\ IF existing.status \in {"SHIPPED", "OUT_FOR_DELIVERY"}
     THEN CommitSale(o) ELSE UNCHANGED vars
  /\ IF existing.status # "DELIVERED"
     THEN Credit(o, existing.buyer, "EARNED", award) ELSE UNCHANGED <<points, balance>>
(* Delivery sells the holds and earns points; award is 0 while the program *)
(* is switched off.                                                        *)
Deliver(o, existing, award) ==
  /\ CommitSale(o)
  /\ IF existing.status # "DELIVERED"
     THEN Credit(o, existing.buyer, "EARNED", award)
     ELSE UNCHANGED <<points, balance>>

(* Mutant: "the pre-existing gap where cancelling an order never restored  *)
(* stock" (inventory.service.ts), the hold being marked released all the same. *)
CancelWithoutStock(o, existing) ==
  /\ o \in placed
  /\ Resolve(o, "RELEASED")
  /\ UNCHANGED <<live, stock, tracked, level, ledger, placed, adjust>>
  /\ Credit(o, existing.buyer, "RESTORED", existing.redeemed)

(* A merchant's cancellation frees the holds and restores the points. *)
Cancel(o, existing) ==
  /\ ReleaseReservation(o)
  /\ Credit(o, existing.buyer, "RESTORED", existing.redeemed)

(* updateStatus: any status may follow any other. *)
UpdateStatus(r) ==
  LET req == request[r]
      o   == req.id
  IN /\ req.kind = "status"
     /\ Written(o, [order[o] EXCEPT !.status = req.status])
     /\ \/ req.status = "DELIVERED" /\ \E n \in Awards \cup {0} : Deliver(o, req.existing, n)
        \/ req.status = "CANCELLED" /\ Cancel(o, req.existing)
        \/ req.status \notin {"DELIVERED", "CANCELLED"} /\ UNCHANGED <<points, balance, vars>>
     /\ Done(r)

(* cancelOrder of the customer: whatever the order has become meanwhile,   *)
(* it is cancelled and its holds are released; no points are restored.     *)
CancelByCustomer(r) ==
  /\ request[r].kind = "cancel"
  /\ Written(request[r].id, [order[request[r].id] EXCEPT !.status = "CANCELLED"])
  /\ ReleaseReservation(request[r].id)
  /\ Done(r)
  /\ UNCHANGED <<points, balance>>

AssignDriver(r) ==
  /\ request[r].kind = "driver"
  /\ Written(request[r].id, [order[request[r].id] EXCEPT !.driver = TRUE])
  /\ Done(r)
  /\ UNCHANGED <<points, balance, vars>>

(* markPickedUp, reportDeliveryFailure, updatePayment, createRefund: other *)
(* columns of the row, and so a new version of it.                         *)
TouchOrder(o) ==
  /\ o \in placed
  /\ Written(o, order[o])
  /\ UNCHANGED <<points, balance, request, vars>>

(* The transaction is rolled back, or the process stops before it. *)
AbortRequest(r) ==
  /\ request[r] # Idle
  /\ Done(r)
  /\ UNCHANGED <<order, points, balance, vars>>

-----------------------------------------------------------------------------
PlaceStep ==
  \E o \in Orders, buyer \in Customers \cup {Guest}, cart \in Carts, n \in Prices \cup {0} :
    PlaceOrder(o, buyer, cart, n)

ReadStep ==
  \E r \in Requests, o \in Orders :
    \/ \E s \in Targets, expected \in BOOLEAN : ReadForStatus(r, o, s, expected)
    \/ ReadForCancel(r, o)
    \/ ReadForDriver(r, o)

CommitStep ==
  \/ \E r \in Requests :
       UpdateStatus(r) \/ CancelByCustomer(r) \/ AssignDriver(r) \/ AbortRequest(r)
  \/ \E o \in Orders : TouchOrder(o)

(* Adjustments and product edits go on beside the orders. *)
StockStep == (AdjustStep \/ EditStep) /\ UNCHANGED orderVars

OrdersNext == PlaceStep \/ ReadStep \/ CommitStep \/ StockStep

OrdersSpec == OrdersInit /\ [][OrdersNext]_<<vars, orderVars>>

-----------------------------------------------------------------------------
OrdersTypeOK ==
  /\ TypeOK
  /\ order \in [Orders -> Order \cup {NoOrder}]
  /\ points \in [Orders -> PointRows]
  /\ balance \in [Customers -> Nat]
  /\ request \in [Requests -> Request \cup {Idle}]
  /\ placed = {o \in Orders : order[o] # NoOrder}

(* An order that is delivered or cancelled holds nothing back any more: in *)
(* no interleaving of the shop, the merchant and the customer does a       *)
(* finished order keep units reserved for ever.                            *)
SettledHoldsNothing ==
  \A o \in placed : order[o].status \in {"DELIVERED", "CANCELLED"} =>
    \A l \in Lines : hold[o][l].status # "ACTIVE"

(* Points follow the holds: they are earned or given back only once the    *)
(* order's units are sold or freed, and what is given back is exactly what *)
(* the order took, whatever the price was changed to in between.           *)
PointsFollowOrder ==
  \A o \in placed :
    /\ points[o].EARNED > 0 \/ points[o].RESTORED > 0 =>
         \A l \in Lines : hold[o][l].status # "ACTIVE"
    /\ points[o].REDEEMED = order[o].redeemed
    /\ points[o].RESTORED \in {0, points[o].REDEEMED}
    /\ order[o].buyer = Guest => points[o] = NoRows

(* A settled order has settled everything: its units and its points.       *)
SettledOnce == SettledHoldsNothing /\ PointsFollowOrder

(* A balance is what replaying the customer's points ledger gives: no      *)
(* retry, double click or repeated transition pays or charges twice.       *)
PointUnits(c, type) ==
  UNION {{o} \X (1..points[o][type]) : o \in {x \in placed : order[x].buyer = c}}

BalanceReconciles ==
  \A c \in Customers :
    balance[c] = Saved[c] + Cardinality(PointUnits(c, "EARNED"))
                          + Cardinality(PointUnits(c, "RESTORED"))
                          - Cardinality(PointUnits(c, "REDEEMED"))

(* Orders use the inventory only through its own transactions, so          *)
(* everything that is true of Inventory is true of it here.                *)
StockSpec == Spec

-----------------------------------------------------------------------------
(* What the repository's comments and tests claim and the code does not    *)
(* keep.                                                                   *)

(* "Orders can only be customer-cancelled before they've left the          *)
(* merchant's hands" (account.service.ts).                                 *)
DocCancelledBeforeHandover ==
  [][\A r \in Requests : CancelByCustomer(r) =>
       order[request[r].id].status \in Cancellable]_<<vars, orderVars>>

(* "restores redeemed points once when a discounted order is cancelled"    *)
(* (orders.service.spec.ts).                                               *)
DocPointsRestored ==
  \A o \in placed : order[o].status = "CANCELLED" => points[o].RESTORED = points[o].REDEEMED

(* "This order was changed elsewhere - please refresh the page": an update *)
(* that names the version it saw applies to that version only.             *)
DocNotStale ==
  [][\A r \in Requests : UpdateStatus(r) /\ request[r].expected =>
       order[request[r].id].updatedAt = request[r].existing.updatedAt]_<<vars, orderVars>>
=============================================================================
