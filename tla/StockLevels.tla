---------------------------- MODULE StockLevels ----------------------------
(***************************************************************************)
(* The arithmetic of one InventoryItem row and of its StockMovement ledger *)
(* (src/inventory/inventory.service.ts).  A level is the row's four        *)
(* columns; quantities are counted in the smallest saleable unit (the      *)
(* Decimal(12,3) columns of weighed goods become whole steps).             *)
(***************************************************************************)
EXTENDS Integers

Level == [quantity : Int, reserved : Int, available : Int, damaged : Int]

(* A change of the columns by dq, dr, da and dd. *)
Shift(v, dq, dr, da, dd) ==
  [quantity |-> v.quantity + dq, reserved |-> v.reserved + dr,
   available |-> v.available + da, damaged |-> v.damaged + dd]

(* A row that does not exist yet, and the one that getOrCreateInventoryItem *)
(* inserts when the stock cache shows n units.                              *)
NoLevel    == [quantity |-> 0, reserved |-> 0, available |-> 0, damaged |-> 0]
Opening(n) == Shift(NoLevel, n, 0, n, 0)

(* Mutant: a damaged return is put back on sale. *)
MirrorDeltaOfAnyReturn(type, q) == IF type \in {"DAMAGED", "LOST"} THEN -q ELSE q

(* reserveForOrder, commitSale and releaseReservation on the held row.     *)
(*                     quantity reserved available damaged                 *)
Reserve(v, q) == Shift(v,     0,       q,       -q,      0)
Sell(v, q)    == Shift(v,    -q,      -q,        0,      0)
Release(v, q) == Shift(v,     0,      -q,        q,      0)

(* adjustStock: the four kinds of manual adjustment.                       *)
TakingTypes == {"DAMAGED", "LOST"}
AdjustType  == TakingTypes \cup {"RETURN_TO_STOCK", "DAMAGED_RETURN"}

Adjust(v, type, q) ==
  CASE type = "DAMAGED"         -> Shift(v,  0, 0, -q, q)
    [] type = "LOST"            -> Shift(v, -q, 0, -q, 0)
    [] type = "RETURN_TO_STOCK" -> Shift(v,  q, 0,  q, 0)
    [] type = "DAMAGED_RETURN"  -> Shift(v,  q, 0,  0, q)

(* stockDelta: what the same adjustment does to the Product.stock mirror. *)
MirrorDelta(type, q) ==
  CASE type \in TakingTypes      -> -q
    [] type = "RETURN_TO_STOCK"  -> q
    [] type = "DAMAGED_RETURN"   -> 0

(* The ledger of a row, kept as the sum of quantityChanged per type. *)
MovementType == AdjustType \cup
                {"OPENING_STOCK", "ORDER_RESERVATION", "SALE", "RESERVATION_RELEASE"}
Ledger == [MovementType -> Int]

EmptyLedger == [t \in MovementType |-> 0]
Entered(led, type, change) == [led EXCEPT ![type] = @ + change]

(* quantityChanged of an adjustment: only LOST is entered as negative. *)
AdjustChange(type, q) == IF type = "LOST" THEN -q ELSE q

-----------------------------------------------------------------------------
(* A level is balanced when every physical unit is free, held for an order *)
(* or set aside as damaged.                                                *)
IsBalanced(v) == v.available = v.quantity - v.reserved - v.damaged

(* Replaying the ledger gives the row: each column is a sum of movements.  *)
Reconciles(v, led) ==
  /\ v.quantity = led["OPENING_STOCK"] + led["SALE"] + led["LOST"]
                    + led["RETURN_TO_STOCK"] + led["DAMAGED_RETURN"]
  /\ v.reserved = led["ORDER_RESERVATION"] + led["RESERVATION_RELEASE"] + led["SALE"]
  /\ v.damaged  = led["DAMAGED"] + led["DAMAGED_RETURN"]
=============================================================================
