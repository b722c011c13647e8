------------------------ MODULE OrderLifecycle_proofs ------------------------
(***************************************************************************)
(* Proofs about the stock of a store and about its orders, for any lines,  *)
(* orders, customers and concurrent requests, any bounds.                  *)
(*                                                                         *)
(* The first part is about Inventory alone.  In the second, every step of  *)
(* an order is a step of the inventory or leaves it alone (StepIsStock),   *)
(* so the inventory's own invariant holds there too (StockSpec); with it,  *)
(* what the orders promise is inductive once it says what a request        *)
(* remembers (RequestsAgree).                                              *)
(***************************************************************************)
EXTENDS OrderLifecycle, FiniteSetTheorems, TLAPS

-----------------------------------------------------------------------------
(* The arithmetic of a single row.                                         *)

(* Every operation of the service maps a level to a level, and balance     *)
(* survives each of them.                                                  *)
LEMMA LevelOps ==
  ASSUME NEW v \in Level, NEW q \in Int, NEW type \in AdjustType
  PROVE  /\ Reserve(v, q) \in Level /\ Sell(v, q) \in Level
         /\ Release(v, q) \in Level /\ Adjust(v, type, q) \in Level
         /\ IsBalanced(v) => /\ IsBalanced(Reserve(v, q))
                             /\ IsBalanced(Sell(v, q))
                             /\ IsBalanced(Release(v, q))
                             /\ IsBalanced(Adjust(v, type, q))
<1> USE DEF Level, Shift, IsBalanced
<1>1. /\ Reserve(v, q) \in Level /\ Sell(v, q) \in Level /\ Release(v, q) \in Level
      /\ IsBalanced(v) => /\ IsBalanced(Reserve(v, q))
                          /\ IsBalanced(Sell(v, q))
                          /\ IsBalanced(Release(v, q))
  BY DEF Reserve, Sell, Release
<1>2. Adjust(v, type, q) \in Level /\ (IsBalanced(v) => IsBalanced(Adjust(v, type, q)))
  BY DEF Adjust, AdjustType, TakingTypes
<1> QED
  BY <1>1, <1>2

(* A movement is entered under its type and changes no other sum.          *)
LEMMA LedgerOps ==
  ASSUME NEW led \in Ledger, NEW q \in Int, NEW type \in MovementType
  PROVE  /\ Entered(led, type, q) \in Ledger
         /\ Entered(led, type, q)[type] = led[type] + q
         /\ \A t \in MovementType \ {type} : Entered(led, type, q)[t] = led[t]
BY DEF Ledger, Entered

(* Each operation enters the movement that keeps its row reconcilable.     *)
LEMMA OpsReconcile ==
  ASSUME NEW v \in Level, NEW led \in Ledger, NEW q \in Int, NEW type \in AdjustType,
         Reconciles(v, led)
  PROVE  /\ Reconciles(Reserve(v, q), Entered(led, "ORDER_RESERVATION", q))
         /\ Reconciles(Sell(v, q), Entered(led, "SALE", -q))
         /\ Reconciles(Release(v, q), Entered(led, "RESERVATION_RELEASE", -q))
         /\ Reconciles(Adjust(v, type, q), Entered(led, type, AdjustChange(type, q)))
<1> USE DEF Level, Ledger, MovementType, AdjustType, TakingTypes, Reconciles, Entered, Shift
<1>1. Reconciles(Reserve(v, q), Entered(led, "ORDER_RESERVATION", q))
  BY DEF Reserve
<1>2. Reconciles(Sell(v, q), Entered(led, "SALE", -q))
  BY DEF Sell
<1>3. Reconciles(Release(v, q), Entered(led, "RESERVATION_RELEASE", -q))
  BY DEF Release
<1>4. Reconciles(Adjust(v, type, q), Entered(led, type, AdjustChange(type, q)))
  <2>1. CASE type = "DAMAGED"
    BY <2>1 DEF Adjust, AdjustChange
  <2>2. CASE type = "LOST"
    BY <2>2 DEF Adjust, AdjustChange
  <2>3. CASE type = "RETURN_TO_STOCK"
    BY <2>3 DEF Adjust, AdjustChange
  <2>4. CASE type = "DAMAGED_RETURN"
    BY <2>4 DEF Adjust, AdjustChange
  <2> QED
    BY <2>1, <2>2, <2>3, <2>4
<1> QED
  BY <1>1, <1>2, <1>3, <1>4

-----------------------------------------------------------------------------
(* Counting held units.                                                    *)

(* The units 1..q of order o.                                              *)
Block(o, q) == {u \in Orders \X (1..MaxQty) : u[1] = o /\ u[2] <= q}

LEMMA BlockCardinality ==
  ASSUME NEW o \in Orders, NEW q \in 0..MaxQty
  PROVE  IsFiniteSet(Block(o, q)) /\ Cardinality(Block(o, q)) = q
<1> DEFINE f == [i \in 1..q |-> <<o, i>>]
<1>1. q \in Nat /\ MaxQty \in Nat /\ q <= MaxQty
  BY BoundsAssumption
<1>2. f \in Bijection(1..q, Block(o, q))
  <2>1. \A i \in 1..q : f[i] \in Block(o, q)
    BY <1>1 DEF Block
  <2>2. \A i, j \in 1..q : f[i] = f[j] => i = j
    OBVIOUS
  <2>3. \A u \in Block(o, q) : \E i \in 1..q : f[i] = u
    <3>1. TAKE u \in Block(o, q)
    <3>2. u[1] = o /\ u[2] \in 1..q /\ u = <<u[1], u[2]>>
      BY <1>1 DEF Block
    <3> QED
      BY <3>2
  <2> QED
    BY <2>1, <2>2, <2>3 DEF Bijection, Injection, Surjection, IsInjective
<1>3. ExistsBijection(1..q, Block(o, q))
  BY <1>2 DEF ExistsBijection
<1>4. IsFiniteSet(1..q) /\ Cardinality(1..q) = q
  BY <1>1, FS_Interval
<1> QED
  BY <1>3, <1>4, FS_Bijection

LEMMA UnitsFinite ==
  ASSUME NEW l \in Lines, NEW s \in HoldStatus
  PROVE  IsFiniteSet(Units(l, s)) /\ Cardinality(Units(l, s)) \in Nat
<1>1. IsFiniteSet(Orders \X (1..MaxQty))
  <2>1. IsFiniteSet(1..MaxQty)
    BY BoundsAssumption, FS_Interval
  <2> QED
    BY <2>1, OrdersAssumption, FS_Product
<1>2. Units(l, s) \in SUBSET (Orders \X (1..MaxQty))
  BY DEF Units
<1> QED
  BY <1>1, <1>2, FS_Subset, FS_CardinalityType

(* Adding a block of new units, or taking one away, moves the count by     *)
(* the block's size.                                                       *)
LEMMA CountAdd ==
  ASSUME NEW S, IsFiniteSet(S), NEW o \in Orders, NEW q \in 0..MaxQty,
         S \cap Block(o, q) = {}
  PROVE  Cardinality(S \cup Block(o, q)) = Cardinality(S) + q
<1>1. Cardinality(S \cap Block(o, q)) = 0
  BY FS_EmptySet
<1>2. Cardinality(S) \in Nat /\ q \in Nat
  BY FS_CardinalityType, BoundsAssumption
<1>3. IsFiniteSet(Block(o, q)) /\ Cardinality(Block(o, q)) = q
  BY BlockCardinality
<1>4. Cardinality(S \cup Block(o, q))
        = Cardinality(S) + Cardinality(Block(o, q)) - Cardinality(S \cap Block(o, q))
  BY <1>3, FS_Union
<1> QED
  BY <1>1, <1>2, <1>3, <1>4

LEMMA CountRemove ==
  ASSUME NEW S, IsFiniteSet(S), NEW o \in Orders, NEW q \in 0..MaxQty,
         Block(o, q) \subseteq S
  PROVE  Cardinality(S \ Block(o, q)) = Cardinality(S) - q
<1> DEFINE R == S \ Block(o, q)
<1>1. IsFiniteSet(R)
  BY FS_Subset
<1>2. R \cap Block(o, q) = {} /\ R \cup Block(o, q) = S
  OBVIOUS
<1>3. Cardinality(S) = Cardinality(R) + q
  BY <1>1, <1>2, CountAdd
<1>4. Cardinality(R) \in Nat /\ q \in Int
  BY <1>1, FS_CardinalityType, BoundsAssumption
<1> QED
  BY <1>3, <1>4

-----------------------------------------------------------------------------
(* Type correctness.                                                       *)

LEMMA TouchedType ==
  ASSUME TypeOK, NEW l \in Lines
  PROVE  Touched(l) \in Level /\ TouchedLedger(l) \in Ledger
<1>1. EmptyLedger \in Ledger /\ "OPENING_STOCK" \in MovementType
  BY DEF EmptyLedger, Ledger, MovementType
<1>2. stock[l] \in Int /\ level[l] \in Level /\ ledger[l] \in Ledger
  BY DEF TypeOK
<1>3. Entered(EmptyLedger, "OPENING_STOCK", stock[l]) \in Ledger
  BY <1>1, <1>2 DEF Entered, Ledger
<1>4. Opening(stock[l]) \in Level
  BY <1>2 DEF Opening, NoLevel, Shift, Level
<1> QED
  BY <1>2, <1>3, <1>4 DEF Touched, TouchedLedger

LEMMA MovementTypes ==
  /\ {"ORDER_RESERVATION", "SALE", "RESERVATION_RELEASE", "OPENING_STOCK"} \subseteq MovementType
  /\ AdjustType \subseteq MovementType
BY DEF MovementType

LEMMA InitTypeOK == Init => TypeOK
<1>1. NoLevel \in Level /\ EmptyLedger \in Ledger
  BY DEF NoLevel, Level, EmptyLedger, Ledger
<1>2. NoHold \in Hold
  BY BoundsAssumption DEF NoHold, Hold, HoldStatus
<1> QED
  BY <1>1, <1>2, BoundsAssumption DEF Init, TypeOK

LEMMA ReserveTypeOK ==
  ASSUME TypeOK, NEW o \in Orders, NEW cart \in Carts, ReserveForOrder(o, cart)
  PROVE  TypeOK'
<1> DEFINE S == {l \in Lines : cart[l] > 0}
<1>1. cart \in [Lines -> 0..MaxQty] /\ \A l \in Lines : cart[l] \in Int
  BY BoundsAssumption DEF Carts
<1>2. level' \in [Lines -> Level]
  <2>1. \A l \in Lines : Reserve(Touched(l), cart[l]) \in Level /\ level[l] \in Level
    BY <1>1, TouchedType, LevelOps DEF TypeOK, AdjustType, TakingTypes
  <2> QED
    BY <2>1 DEF ReserveForOrder
<1>3. ledger' \in [Lines -> Ledger]
  <2>1. \A l \in Lines : /\ Entered(TouchedLedger(l), "ORDER_RESERVATION", cart[l]) \in Ledger
                         /\ ledger[l] \in Ledger
    BY <1>1, TouchedType, LedgerOps, MovementTypes DEF TypeOK
  <2> QED
    BY <2>1 DEF ReserveForOrder
<1>4. hold' \in [Orders -> [Lines -> Hold]]
  BY <1>1, BoundsAssumption DEF ReserveForOrder, TypeOK, Hold, NoHold, HoldStatus
<1>5. stock' \in [Lines -> Int]
  BY <1>1 DEF ReserveForOrder, TypeOK
<1> QED
  BY <1>2, <1>3, <1>4, <1>5 DEF ReserveForOrder, TypeOK

LEMMA ResolveTypeOK ==
  ASSUME TypeOK, NEW o \in Orders, NEW s \in {"COMMITTED", "RELEASED"}, Resolve(o, s)
  PROVE  hold' \in [Orders -> [Lines -> Hold]]
<1>1. \A l \in Lines : hold[o][l] \in Hold /\ hold[o][l].qty \in 0..MaxQty
  BY DEF TypeOK, Hold
<1>2. \A l \in Lines : [qty |-> hold[o][l].qty, status |-> s] \in Hold
  BY <1>1 DEF Hold, HoldStatus
<1> QED
  BY <1>1, <1>2 DEF Resolve, TypeOK

LEMMA CommitTypeOK ==
  ASSUME TypeOK, NEW o \in Orders, CommitSale(o)
  PROVE  TypeOK'
<1>1. \A l \in Lines : hold[o][l].qty \in Int /\ -hold[o][l].qty \in Int
  BY BoundsAssumption DEF TypeOK, Hold
<1>2. \A l \in Lines : Sell(level[l], hold[o][l].qty) \in Level /\ level[l] \in Level
  BY <1>1, LevelOps DEF TypeOK, AdjustType, TakingTypes
<1>3. \A l \in Lines : Entered(ledger[l], "SALE", -hold[o][l].qty) \in Ledger /\ ledger[l] \in Ledger
  BY <1>1, LedgerOps, MovementTypes DEF TypeOK
<1>4. hold' \in [Orders -> [Lines -> Hold]]
  BY ResolveTypeOK DEF CommitSale
<1> QED
  BY <1>2, <1>3, <1>4 DEF CommitSale, TypeOK

LEMMA ReleaseTypeOK ==
  ASSUME TypeOK, NEW o \in Orders, ReleaseReservation(o)
  PROVE  TypeOK'
<1>1. \A l \in Lines : hold[o][l].qty \in Int /\ -hold[o][l].qty \in Int
  BY BoundsAssumption DEF TypeOK, Hold
<1>2. \A l \in Lines : Release(level[l], hold[o][l].qty) \in Level /\ level[l] \in Level
  BY <1>1, LevelOps DEF TypeOK, AdjustType, TakingTypes
<1>3. \A l \in Lines : /\ Entered(ledger[l], "RESERVATION_RELEASE", -hold[o][l].qty) \in Ledger
                       /\ ledger[l] \in Ledger
  BY <1>1, LedgerOps, MovementTypes DEF TypeOK
<1>4. hold' \in [Orders -> [Lines -> Hold]]
  BY ResolveTypeOK DEF ReleaseReservation
<1>5. stock' \in [Lines -> Int]
  BY <1>1 DEF ReleaseReservation, TypeOK
<1> QED
  BY <1>2, <1>3, <1>4, <1>5 DEF ReleaseReservation, TypeOK

LEMMA WriteTypeOK ==
  ASSUME TypeOK, NEW l \in live, NEW type \in AdjustType, NEW q \in 1..MaxQty,
         WriteAdjustment(l, type, q)
  PROVE  /\ live' = live /\ placed' = placed /\ hold' = hold
         /\ tracked' \subseteq live
         /\ level' \in [Lines -> Level] /\ ledger' \in [Lines -> Ledger]
         /\ stock' \in [Lines -> Int]
<1>0. l \in Lines /\ q \in Int /\ type \in MovementType
  BY BoundsAssumption, MovementTypes DEF TypeOK
<1>1. Adjust(Touched(l), type, q) \in Level
  BY <1>0, TouchedType, LevelOps
<1>2. AdjustChange(type, q) \in Int /\ MirrorDelta(type, q) \in Int
  BY <1>0 DEF AdjustChange, MirrorDelta, AdjustType, TakingTypes
<1>3. Entered(TouchedLedger(l), type, AdjustChange(type, q)) \in Ledger
  BY <1>0, <1>2, TouchedType, LedgerOps
<1>4. stock[l] + MirrorDelta(type, q) \in Int
  BY <1>0, <1>2 DEF TypeOK
<1> QED
  BY <1>0, <1>1, <1>3, <1>4 DEF WriteAdjustment, TypeOK

LEMMA AdjustTypeOK ==
  ASSUME TypeOK, AdjustStep
  PROVE  TypeOK'
<1>1. PICK w \in Workers :
        \/ \E l \in Lines, type \in AdjustTypes, q \in 1..MaxQty :
             AdjustRead(w, l, type, q) \/ AdjustFirst(w, l, type, q)
        \/ AdjustWrite(w)
        \/ AdjustAbort(w)
  BY DEF AdjustStep
<1>2. ASSUME NEW l \in Lines, NEW type \in AdjustTypes, NEW q \in 1..MaxQty,
             AdjustRead(w, l, type, q)
      PROVE  TypeOK'
  BY <1>2 DEF AdjustRead, TypeOK, Adjustment
<1>3. ASSUME NEW l \in Lines, NEW type \in AdjustTypes, NEW q \in 1..MaxQty,
             AdjustFirst(w, l, type, q)
      PROVE  TypeOK'
  <2>1. l \in live /\ type \in AdjustType /\ WriteAdjustment(l, type, q) /\ adjust' = adjust
    BY <1>3, AdjustAssumption DEF AdjustFirst
  <2> QED
    BY <2>1, WriteTypeOK DEF TypeOK
<1>4. ASSUME AdjustWrite(w)
      PROVE  TypeOK'
  <2>1. adjust[w] \in Adjustment
    BY <1>4 DEF AdjustWrite, TypeOK
  <2>2. /\ adjust[w].line \in live /\ adjust[w].type \in AdjustType /\ adjust[w].qty \in 1..MaxQty
        /\ WriteAdjustment(adjust[w].line, adjust[w].type, adjust[w].qty)
        /\ adjust' = [adjust EXCEPT ![w] = NoAdjustment]
    BY <1>4, <2>1, AdjustAssumption DEF AdjustWrite, Adjustment, TypeOK
  <2> QED
    BY <2>2, WriteTypeOK DEF TypeOK
<1>5. ASSUME AdjustAbort(w)
      PROVE  TypeOK'
  BY <1>5 DEF AdjustAbort, TypeOK
<1> QED
  BY <1>1, <1>2, <1>3, <1>4, <1>5

LEMMA EditTypeOK ==
  ASSUME TypeOK, EditStep
  PROVE  TypeOK'
<1>0. NoLevel \in Level /\ EmptyLedger \in Ledger /\ NoHold \in Hold
  BY BoundsAssumption DEF NoLevel, Level, EmptyLedger, Ledger, NoHold, Hold, HoldStatus
<1>1. ASSUME NEW l \in Lines, NEW n \in 0..MaxStock, EditStock(l, n)
      PROVE  TypeOK'
  BY <1>1, BoundsAssumption DEF EditStock, TypeOK
<1>2. ASSUME NEW S \in SUBSET Lines, Delete(S)
      PROVE  TypeOK'
  BY <1>0, <1>2 DEF Delete, TypeOK
<1> QED
  BY <1>1, <1>2 DEF EditStep, RemoveProduct, DropVariant

(* Every reachable state of every instance is well typed: in particular a  *)
(* row is only ever kept for a product that exists.                        *)
THEOREM TypeCorrect == Spec => []TypeOK
<1>1. TypeOK /\ [Next]_vars => TypeOK'
  <2> SUFFICES ASSUME TypeOK, [Next]_vars PROVE TypeOK'
    OBVIOUS
  <2>1. CASE OrderStep
    BY <2>1, ReserveTypeOK, CommitTypeOK, ReleaseTypeOK DEF OrderStep
  <2>2. CASE AdjustStep
    BY <2>2, AdjustTypeOK
  <2>3. CASE EditStep
    BY <2>3, EditTypeOK
  <2>4. CASE UNCHANGED vars
    BY <2>4 DEF vars, TypeOK
  <2> QED
    BY <2>1, <2>2, <2>3, <2>4 DEF Next
<1> QED
  BY <1>1, InitTypeOK, PTL DEF Spec

-----------------------------------------------------------------------------
(* The inductive invariant.                                                *)

(* What a transaction finds or creates on first touch is a row in order:   *)
(* balanced, reconcilable, and with nothing held or sold that the line's   *)
(* reservations do not account for.                                        *)
LEMMA TouchedFacts ==
  ASSUME IInv, NEW l \in Lines
  PROVE  /\ Touched(l) \in Level /\ TouchedLedger(l) \in Ledger
         /\ IsBalanced(Touched(l))
         /\ Reconciles(Touched(l), TouchedLedger(l))
         /\ Touched(l).reserved = level[l].reserved
         /\ TouchedLedger(l)["SALE"] = ledger[l]["SALE"]
<1>1. Touched(l) \in Level /\ TouchedLedger(l) \in Ledger
  BY TouchedType DEF IInv
<1>2. CASE l \in tracked
  BY <1>1, <1>2 DEF IInv, Touched, TouchedLedger, Balanced, LedgerReconciles
<1>3. CASE l \notin tracked
  <2>1. level[l] = NoLevel /\ ledger[l] = EmptyLedger /\ stock[l] \in Int
    BY <1>3 DEF IInv, FreshStart, TypeOK
  <2>2. /\ Touched(l) = Opening(stock[l])
        /\ TouchedLedger(l) = Entered(EmptyLedger, "OPENING_STOCK", stock[l])
    BY <1>3 DEF Touched, TouchedLedger
  <2>3. IsBalanced(Opening(stock[l])) /\ Opening(stock[l]).reserved = 0
    BY <2>1 DEF Opening, NoLevel, Shift, IsBalanced
  <2>4. /\ Reconciles(Opening(stock[l]), Entered(EmptyLedger, "OPENING_STOCK", stock[l]))
        /\ Entered(EmptyLedger, "OPENING_STOCK", stock[l])["SALE"] = 0
    BY <2>1 DEF Opening, NoLevel, Shift, Reconciles, Entered, EmptyLedger, MovementType,
                AdjustType, TakingTypes
  <2> QED
    BY <1>1, <2>1, <2>2, <2>3, <2>4 DEF NoLevel, EmptyLedger, MovementType
<1> QED
  BY <1>2, <1>3

(* The rows of l: what must be shown of a line that a step may change.     *)
LineInv(l) ==
  /\ IsBalanced(level[l])
  /\ Reconciles(level[l], ledger[l])
  /\ level[l].reserved = Cardinality(Units(l, "ACTIVE"))
  /\ ledger[l]["SALE"] = -Cardinality(Units(l, "COMMITTED"))

LEMMA LineByLine ==
  /\ IInv <=> TypeOK /\ FreshStart /\ \A l \in Lines : LineInv(l)
  /\ IInv' <=> TypeOK' /\ FreshStart' /\ \A l \in Lines : LineInv(l)'
BY DEF IInv, LineInv, Balanced, LedgerReconciles, HoldsAccounted

(* A line whose row, ledger and holds a step leaves alone.                 *)
LEMMA LineUnchanged ==
  ASSUME NEW l \in Lines, LineInv(l), level'[l] = level[l], ledger'[l] = ledger[l],
         \A o \in Orders : hold'[o][l] = hold[o][l]
  PROVE  LineInv(l)'
<1>1. Units(l, "ACTIVE")' = Units(l, "ACTIVE") /\ Units(l, "COMMITTED")' = Units(l, "COMMITTED")
  BY DEF Units
<1> QED
  BY <1>1 DEF LineInv

LEMMA InitIInv == Init => IInv
<1> SUFFICES ASSUME Init PROVE IInv
  OBVIOUS
<1>1. FreshStart
  BY BoundsAssumption DEF Init, FreshStart
<1>2. ASSUME NEW l \in Lines
      PROVE  LineInv(l)
  <2>1. Units(l, "ACTIVE") = {} /\ Units(l, "COMMITTED") = {}
    BY DEF Init, Units, NoHold
  <2>2. level[l] = NoLevel /\ ledger[l] = EmptyLedger
    BY DEF Init
  <2>3. Cardinality({}) = 0
    BY FS_EmptySet
  <2> QED
    BY <2>1, <2>2, <2>3 DEF LineInv, NoLevel, EmptyLedger, IsBalanced, Reconciles,
                            MovementType, AdjustType, TakingTypes
<1> QED
  BY <1>1, <1>2, InitTypeOK, LineByLine

(* The units of a new hold were nobody's before, so the count grows by     *)
(* exactly what was reserved.                                              *)
LEMMA ReserveIInv ==
  ASSUME IInv, NEW o \in Orders, NEW cart \in Carts, ReserveForOrder(o, cart)
  PROVE  IInv'
<1> DEFINE S == {l \in Lines : cart[l] > 0}
<1>1. TypeOK /\ FreshStart /\ \A l \in Lines : LineInv(l)
  BY LineByLine
<1>2. cart \in [Lines -> 0..MaxQty] /\ \A l \in Lines : cart[l] \in 0..MaxQty /\ cart[l] \in Int
  BY BoundsAssumption DEF Carts
<1>3. TypeOK'
  BY <1>1, ReserveTypeOK
<1>4. \A l \in Lines : hold[o][l] = NoHold
  BY <1>1 DEF ReserveForOrder, FreshStart
<1>5. /\ \A l \in Lines : hold'[o][l] = IF l \in S THEN [qty |-> cart[l], status |-> "ACTIVE"]
                                                  ELSE NoHold
      /\ \A x \in Orders \ {o} : hold'[x] = hold[x]
  BY <1>1 DEF ReserveForOrder, TypeOK
<1>6. FreshStart'
  <2>1. \A l \in Lines \ tracked' : /\ l \notin S /\ l \notin tracked
                                    /\ level'[l] = level[l] /\ ledger'[l] = ledger[l]
                                    /\ stock'[l] = stock[l]
    BY <1>1, <1>2 DEF ReserveForOrder, TypeOK
  <2>2. ASSUME NEW l \in Lines \ tracked', NEW x \in Orders
        PROVE  hold'[x][l] = NoHold
    <3>1. l \notin S /\ hold[x][l] = NoHold
      BY <1>1, <2>1 DEF FreshStart
    <3> QED
      BY <1>5, <3>1
  <2>3. \A x \in Orders \ placed', l \in Lines : hold'[x][l] = NoHold
    BY <1>1, <1>5 DEF ReserveForOrder, FreshStart
  <2> QED
    BY <1>1, <2>1, <2>2, <2>3 DEF FreshStart
<1>7. ASSUME NEW l \in Lines
      PROVE  LineInv(l)'
  <2>1. CASE l \notin S
    BY <1>1, <1>4, <1>5, <2>1, LineUnchanged DEF ReserveForOrder
  <2>2. CASE l \in S
    <3>1. /\ level'[l] = Reserve(Touched(l), cart[l])
          /\ ledger'[l] = Entered(TouchedLedger(l), "ORDER_RESERVATION", cart[l])
      BY <2>2 DEF ReserveForOrder
    <3>2. IsBalanced(level'[l]) /\ Reconciles(level'[l], ledger'[l])
      BY <1>2, <3>1, TouchedFacts, LevelOps, OpsReconcile DEF AdjustType, TakingTypes
    <3>3. /\ level'[l].reserved = level[l].reserved + cart[l]
          /\ ledger'[l]["SALE"] = ledger[l]["SALE"]
      BY <1>2, <3>1, TouchedFacts, LedgerOps
         DEF Reserve, Shift, Level, MovementType
    <3>4. /\ Units(l, "ACTIVE")' = Units(l, "ACTIVE") \cup Block(o, cart[l])
          /\ Units(l, "ACTIVE") \cap Block(o, cart[l]) = {}
          /\ Units(l, "COMMITTED")' = Units(l, "COMMITTED")
      <4>1. hold[o][l].status = "NONE" /\ hold'[o][l].status = "ACTIVE" /\ hold'[o][l].qty = cart[l]
        <5>1. hold'[o][l] = [qty |-> cart[l], status |-> "ACTIVE"]
          BY <1>5, <2>2
        <5>2. hold[o][l] = NoHold
          BY <1>4
        <5> HIDE DEF S
        <5> QED
          BY <5>1, <5>2 DEF NoHold
      <4>2. \A u \in Orders \X (1..MaxQty) : u[1] # o => hold'[u[1]][l] = hold[u[1]][l]
        BY <1>5
      <4> QED
        BY <4>1, <4>2 DEF Units, Block
    <3>5. Cardinality(Units(l, "ACTIVE")') = Cardinality(Units(l, "ACTIVE")) + cart[l]
      BY <1>2, <3>4, UnitsFinite, CountAdd DEF HoldStatus
    <3> QED
      BY <1>1, <3>2, <3>3, <3>4, <3>5 DEF LineInv
  <2> QED
    BY <2>1, <2>2
<1> QED
  BY <1>3, <1>6, <1>7, LineByLine

(* Resolving the holds of o on line l moves a block of units from ACTIVE   *)
(* to the new status and leaves every other unit where it was.             *)
LEMMA ResolveUnits ==
  ASSUME IInv, NEW o \in Orders, NEW s \in {"COMMITTED", "RELEASED"}, Resolve(o, s),
         NEW l \in Resolvable(o)
  PROVE  LET B == Block(o, hold[o][l].qty)
         IN  /\ hold[o][l].qty \in 0..MaxQty
             /\ B \subseteq Units(l, "ACTIVE")
             /\ Units(l, "ACTIVE")' = Units(l, "ACTIVE") \ B
             /\ Units(l, s)' = Units(l, s) \cup B
             /\ Units(l, s) \cap B = {}
             /\ \A t \in HoldStatus \ {"ACTIVE", s} : Units(l, t)' = Units(l, t)
<1>1. l \in Lines /\ hold[o][l].status = "ACTIVE" /\ hold[o][l].qty \in 0..MaxQty
  BY DEF IInv, TypeOK, Resolvable, Hold
<1>2. hold'[o][l] = [qty |-> hold[o][l].qty, status |-> s]
  BY <1>1 DEF Resolve, IInv, TypeOK
<1>3. hold'[o][l].qty = hold[o][l].qty /\ hold'[o][l].status = s
  BY <1>2
<1>4. \A u \in Orders \X (1..MaxQty) : u[1] # o => hold'[u[1]][l] = hold[u[1]][l]
  BY <1>1 DEF Resolve, IInv, TypeOK
<1>5. s # "ACTIVE"
  OBVIOUS
<1> QED
  BY <1>1, <1>3, <1>4, <1>5 DEF Units, Block

(* A line on which o has nothing to resolve keeps all its holds.           *)
LEMMA ResolveElsewhere ==
  ASSUME TypeOK, NEW o \in Orders, NEW s \in {"COMMITTED", "RELEASED"}, Resolve(o, s),
         NEW l \in Lines \ Resolvable(o), NEW x \in Orders
  PROVE  hold'[x][l] = hold[x][l]
BY DEF Resolve, TypeOK

LEMMA ResolveFresh ==
  ASSUME IInv, NEW o \in placed, NEW s \in {"COMMITTED", "RELEASED"}, Resolve(o, s),
         tracked' = tracked, placed' = placed,
         \A l \in Lines \ Resolvable(o) : /\ level'[l] = level[l] /\ ledger'[l] = ledger[l]
                                          /\ stock'[l] = stock[l]
  PROVE  FreshStart'
<1>1. o \in Orders /\ TypeOK /\ FreshStart
  BY DEF IInv, TypeOK
<1>2. \A l \in Lines \ tracked : l \notin Resolvable(o)
  BY DEF Resolvable
<1>3. \A l \in Lines \ tracked, x \in Orders : hold'[x][l] = hold[x][l]
  BY <1>1, <1>2, ResolveElsewhere
<1>4. \A x \in Orders \ placed, l \in Lines : hold'[x][l] = hold[x][l]
  BY <1>1 DEF Resolve, TypeOK
<1> QED
  BY <1>1, <1>2, <1>3, <1>4 DEF FreshStart

LEMMA CommitIInv ==
  ASSUME IInv, NEW o \in Orders, CommitSale(o)
  PROVE  IInv'
<1>1. TypeOK /\ FreshStart /\ \A l \in Lines : LineInv(l)
  BY LineByLine
<1>2. TypeOK' /\ Resolve(o, "COMMITTED") /\ o \in placed
  BY <1>1, CommitTypeOK DEF CommitSale
<1>3. FreshStart'
  BY <1>2, ResolveFresh DEF CommitSale
<1>4. ASSUME NEW l \in Lines
      PROVE  LineInv(l)'
  <2> DEFINE q == hold[o][l].qty
  <2>1. CASE l \notin Resolvable(o)
    BY <1>1, <1>2, <2>1, LineUnchanged, ResolveElsewhere DEF CommitSale
  <2>2. CASE l \in Resolvable(o)
    <3>1. level'[l] = Sell(level[l], q) /\ ledger'[l] = Entered(ledger[l], "SALE", -q)
      BY <2>2 DEF CommitSale
    <3>2. level[l] \in Level /\ ledger[l] \in Ledger /\ q \in 0..MaxQty /\ q \in Int /\ -q \in Int
      BY <1>1, BoundsAssumption DEF TypeOK, Hold
    <3>3. IsBalanced(level'[l]) /\ Reconciles(level'[l], ledger'[l])
      BY <1>1, <3>1, <3>2, LevelOps, OpsReconcile DEF AdjustType, TakingTypes, LineInv
    <3>4. /\ level'[l].reserved = level[l].reserved - q
          /\ ledger'[l]["SALE"] = ledger[l]["SALE"] - q
      <4>1. level'[l].reserved = level[l].reserved - q
        BY <3>1, <3>2 DEF Sell, Shift, Level
      <4>2. ledger'[l]["SALE"] = ledger[l]["SALE"] + -q
        BY <3>1, <3>2, LedgerOps DEF MovementType
      <4>3. ledger[l]["SALE"] \in Int
        BY <3>2 DEF Ledger, MovementType
      <4> QED
        BY <3>2, <4>1, <4>2, <4>3
    <3>5. /\ Cardinality(Units(l, "ACTIVE")') = Cardinality(Units(l, "ACTIVE")) - q
          /\ Cardinality(Units(l, "COMMITTED")') = Cardinality(Units(l, "COMMITTED")) + q
      BY <1>2, <2>2, <3>2, ResolveUnits, UnitsFinite, CountAdd, CountRemove DEF HoldStatus
    <3>6. /\ Cardinality(Units(l, "ACTIVE")) \in Nat
          /\ Cardinality(Units(l, "COMMITTED")) \in Nat
      BY UnitsFinite DEF HoldStatus
    <3> QED
      BY <1>1, <3>2, <3>3, <3>4, <3>5, <3>6 DEF LineInv
  <2> QED
    BY <2>1, <2>2
<1> QED
  BY <1>2, <1>3, <1>4, LineByLine

LEMMA ReleaseIInv ==
  ASSUME IInv, NEW o \in Orders, ReleaseReservation(o)
  PROVE  IInv'
<1>1. TypeOK /\ FreshStart /\ \A l \in Lines : LineInv(l)
  BY LineByLine
<1>2. TypeOK' /\ Resolve(o, "RELEASED") /\ o \in placed
  BY <1>1, ReleaseTypeOK DEF ReleaseReservation
<1>3. FreshStart'
  BY <1>2, ResolveFresh DEF ReleaseReservation
<1>4. ASSUME NEW l \in Lines
      PROVE  LineInv(l)'
  <2> DEFINE q == hold[o][l].qty
  <2>1. CASE l \notin Resolvable(o)
    BY <1>1, <1>2, <2>1, LineUnchanged, ResolveElsewhere DEF ReleaseReservation
  <2>2. CASE l \in Resolvable(o)
    <3>1. /\ level'[l] = Release(level[l], q)
          /\ ledger'[l] = Entered(ledger[l], "RESERVATION_RELEASE", -q)
      BY <2>2 DEF ReleaseReservation
    <3>2. level[l] \in Level /\ ledger[l] \in Ledger /\ q \in 0..MaxQty /\ q \in Int /\ -q \in Int
      BY <1>1, BoundsAssumption DEF TypeOK, Hold
    <3>3. IsBalanced(level'[l]) /\ Reconciles(level'[l], ledger'[l])
      BY <1>1, <3>1, <3>2, LevelOps, OpsReconcile DEF AdjustType, TakingTypes, LineInv
    <3>4. level'[l].reserved = level[l].reserved - q
      BY <3>1, <3>2 DEF Release, Shift, Level
    <3>5. ledger'[l]["SALE"] = ledger[l]["SALE"]
      BY <3>1, <3>2, LedgerOps DEF MovementType
    <3>6. /\ Cardinality(Units(l, "ACTIVE")') = Cardinality(Units(l, "ACTIVE")) - q
          /\ Units(l, "COMMITTED")' = Units(l, "COMMITTED")
      BY <1>2, <2>2, <3>2, ResolveUnits, UnitsFinite, CountRemove DEF HoldStatus
    <3> QED
      BY <1>1, <3>2, <3>3, <3>4, <3>5, <3>6 DEF LineInv
  <2> QED
    BY <2>1, <2>2
<1> QED
  BY <1>2, <1>3, <1>4, LineByLine

-----------------------------------------------------------------------------
(* Adjustments hold nothing and sell nothing; they keep a row balanced and *)
(* reconcilable whatever it holds when the write comes.                    *)
LEMMA WriteIInv ==
  ASSUME IInv, TypeOK', NEW l \in live, NEW type \in AdjustType, NEW q \in 1..MaxQty,
         WriteAdjustment(l, type, q)
  PROVE  IInv'
<1>1. TypeOK /\ FreshStart /\ \A k \in Lines : LineInv(k)
  BY LineByLine
<1>2. l \in Lines /\ q \in Int /\ type \in MovementType /\ type # "SALE"
  BY <1>1, BoundsAssumption, MovementTypes DEF TypeOK, AdjustType, TakingTypes
<1>3. /\ hold' = hold /\ placed' = placed /\ tracked' = tracked \cup {l}
      /\ \A k \in Lines \ {l} : level'[k] = level[k] /\ ledger'[k] = ledger[k] /\ stock'[k] = stock[k]
  BY <1>1 DEF WriteAdjustment, TypeOK
<1>4. FreshStart'
  BY <1>1, <1>3 DEF FreshStart
<1>5. LineInv(l)'
  <2>1. /\ level'[l] = Adjust(Touched(l), type, q)
        /\ ledger'[l] = Entered(TouchedLedger(l), type, AdjustChange(type, q))
    BY <1>1, <1>2 DEF WriteAdjustment, TypeOK
  <2>2. IsBalanced(level'[l]) /\ Reconciles(level'[l], ledger'[l])
    BY <1>2, <2>1, TouchedFacts, LevelOps, OpsReconcile
  <2>3. level'[l].reserved = level[l].reserved
    BY <1>2, <2>1, TouchedFacts DEF Adjust, Shift, Level, AdjustType, TakingTypes
  <2>4. AdjustChange(type, q) \in Int /\ "SALE" \in MovementType
    BY <1>2, MovementTypes DEF AdjustChange
  <2>5. ledger'[l]["SALE"] = ledger[l]["SALE"]
    BY <1>2, <2>1, <2>4, TouchedFacts, LedgerOps
  <2>6. Units(l, "ACTIVE")' = Units(l, "ACTIVE") /\ Units(l, "COMMITTED")' = Units(l, "COMMITTED")
    BY <1>3 DEF Units
  <2> QED
    BY <1>1, <1>2, <2>2, <2>3, <2>5, <2>6 DEF LineInv
<1>6. \A k \in Lines \ {l} : LineInv(k)'
  BY <1>1, <1>3, LineUnchanged
<1> QED
  BY <1>4, <1>5, <1>6, LineByLine

LEMMA AdjustIInv ==
  ASSUME IInv, AdjustStep
  PROVE  IInv'
<1>1. TypeOK /\ TypeOK' /\ FreshStart /\ \A l \in Lines : LineInv(l)
  BY AdjustTypeOK, LineByLine
<1>2. PICK w \in Workers :
        \/ \E l \in Lines, type \in AdjustTypes, q \in 1..MaxQty :
             AdjustRead(w, l, type, q) \/ AdjustFirst(w, l, type, q)
        \/ AdjustWrite(w)
        \/ AdjustAbort(w)
  BY DEF AdjustStep
<1>3. ASSUME UNCHANGED <<stock, tracked, level, ledger, placed, hold>>
      PROVE  IInv'
  <2>1. FreshStart'
    BY <1>1, <1>3 DEF FreshStart
  <2>2. \A l \in Lines : LineInv(l)'
    BY <1>1, <1>3, LineUnchanged
  <2> QED
    BY <1>1, <2>1, <2>2, LineByLine
<1>4. ASSUME NEW l \in Lines, NEW type \in AdjustTypes, NEW q \in 1..MaxQty,
             AdjustFirst(w, l, type, q)
      PROVE  IInv'
  BY <1>1, <1>4, AdjustAssumption, WriteIInv DEF AdjustFirst
<1>5. ASSUME AdjustWrite(w)
      PROVE  IInv'
  <2>1. adjust[w] \in Adjustment
    BY <1>1, <1>5 DEF AdjustWrite, TypeOK
  <2>2. /\ adjust[w].line \in live /\ adjust[w].type \in AdjustType /\ adjust[w].qty \in 1..MaxQty
        /\ WriteAdjustment(adjust[w].line, adjust[w].type, adjust[w].qty)
    BY <1>1, <1>5, <2>1, AdjustAssumption DEF AdjustWrite, Adjustment, TypeOK
  <2> QED
    BY <1>1, <2>2, WriteIInv
<1> QED
  BY <1>2, <1>3, <1>4, <1>5 DEF AdjustRead, AdjustAbort

LEMMA EditIInv ==
  ASSUME IInv, EditStep
  PROVE  IInv'
<1>1. TypeOK /\ TypeOK' /\ FreshStart /\ \A l \in Lines : LineInv(l)
  BY EditTypeOK, LineByLine
<1>2. ASSUME NEW l \in Lines, NEW n \in 0..MaxStock, EditStock(l, n)
      PROVE  IInv'
  <2>1. FreshStart'
    BY <1>1, <1>2, BoundsAssumption DEF FreshStart, EditStock, TypeOK
  <2>2. \A k \in Lines : LineInv(k)'
    BY <1>1, <1>2, LineUnchanged DEF EditStock
  <2> QED
    BY <1>1, <2>1, <2>2, LineByLine
<1>3. ASSUME NEW S \in SUBSET Lines, Delete(S)
      PROVE  IInv'
  <2>1. /\ tracked' = tracked \ S /\ placed' = placed
        /\ \A l \in S : /\ level'[l] = NoLevel /\ ledger'[l] = EmptyLedger /\ stock'[l] = 0
                        /\ \A o \in Orders : hold'[o][l] = NoHold
        /\ \A l \in Lines \ S : /\ level'[l] = level[l] /\ ledger'[l] = ledger[l]
                                /\ stock'[l] = stock[l]
                                /\ \A o \in Orders : hold'[o][l] = hold[o][l]
    BY <1>3 DEF Delete
  <2>2. FreshStart'
    BY <1>1, <2>1 DEF FreshStart
  <2>3. ASSUME NEW l \in S
        PROVE  LineInv(l)'
    <3>1. Units(l, "ACTIVE")' = {} /\ Units(l, "COMMITTED")' = {}
      BY <2>1 DEF Units, NoHold
    <3>2. level'[l] = NoLevel /\ ledger'[l] = EmptyLedger /\ Cardinality({}) = 0
      BY <2>1, FS_EmptySet
    <3> QED
      BY <3>1, <3>2 DEF LineInv, NoLevel, EmptyLedger, IsBalanced, Reconciles,
                        MovementType, AdjustType, TakingTypes
  <2>4. \A l \in Lines \ S : LineInv(l)'
    BY <1>1, <2>1, LineUnchanged
  <2> QED
    BY <1>1, <2>2, <2>3, <2>4, LineByLine
<1> QED
  BY <1>2, <1>3 DEF EditStep, RemoveProduct, DropVariant

LEMMA NextIInv == IInv /\ [Next]_vars => IInv'
<1> SUFFICES ASSUME IInv, [Next]_vars PROVE IInv'
  OBVIOUS
<1>1. CASE OrderStep
  BY <1>1, ReserveIInv, CommitIInv, ReleaseIInv DEF OrderStep
<1>2. CASE AdjustStep
  BY <1>2, AdjustIInv
<1>3. CASE EditStep
  BY <1>3, EditIInv
<1>4. CASE UNCHANGED vars
  <2>1. TypeOK' /\ FreshStart'
    BY <1>4 DEF vars, IInv, TypeOK, FreshStart
  <2>2. \A l \in Lines : LineInv(l)'
    BY <1>4, LineByLine, LineUnchanged DEF vars
  <2> QED
    BY <2>1, <2>2, LineByLine
<1> QED
  BY <1>1, <1>2, <1>3, <1>4 DEF Next

(* The inductive invariant holds in every reachable state.                 *)
THEOREM Invariance == Spec => []IInv
BY InitIInv, NextIInv, PTL DEF Spec

(* The columns of every row, its ledger, the reservations of the orders    *)
(* and the rows that are gone agree in every reachable state: nothing is   *)
(* lost, invented or settled twice, whatever the interleaving.             *)
THEOREM StockAlwaysReconciles == Spec => []StockReconciles
<1>1. IInv => StockReconciles
  BY DEF IInv, StockReconciles
<1> QED
  BY <1>1, Invariance, PTL

-----------------------------------------------------------------------------
(* What a single step may do.                                              *)

LEMMA DeletedLines ==
  ASSUME TypeOK, EditStep, NEW o \in Orders, NEW l \in live'
  PROVE  hold'[o][l] = hold[o][l]
<1>1. ASSUME NEW S \in SUBSET Lines, Delete(S)
      PROVE  hold'[o][l] = hold[o][l]
  BY <1>1 DEF Delete, TypeOK
<1>2. ASSUME NEW k \in Lines, NEW n \in 0..MaxStock, EditStock(k, n)
      PROVE  hold'[o][l] = hold[o][l]
  BY <1>2 DEF EditStock
<1> QED
  BY <1>1, <1>2 DEF EditStep, RemoveProduct, DropVariant

(* A reservation that was committed or released is never resolved again,   *)
(* as long as its product exists: a late delivery or a second cancellation *)
(* finds nothing to settle, and no checkout reuses the hold.               *)
THEOREM AlwaysResolvedOnce == Spec => ResolvedOnce
<1> DEFINE Final == \A o \in Orders, l \in live' :
              hold[o][l].status \in {"COMMITTED", "RELEASED"} => hold'[o][l] = hold[o][l]
<1>1. IInv /\ [Next]_vars => [Final]_vars
  <2> SUFFICES ASSUME IInv, Next, NEW o \in Orders, NEW l \in live',
                      hold[o][l].status \in {"COMMITTED", "RELEASED"}
               PROVE  hold'[o][l] = hold[o][l]
    OBVIOUS
  <2>0. TypeOK /\ TypeOK' /\ l \in Lines
    BY NextIInv DEF IInv, TypeOK
  <2>1. ASSUME NEW x \in Orders, NEW cart \in Carts, ReserveForOrder(x, cart)
        PROVE  hold'[o][l] = hold[o][l]
    <3>1. x # o
      BY <2>0, <2>1 DEF IInv, FreshStart, ReserveForOrder, NoHold
    <3> QED
      BY <2>0, <2>1, <3>1 DEF ReserveForOrder, TypeOK
  <2>2. ASSUME NEW x \in Orders, NEW s \in {"COMMITTED", "RELEASED"}, Resolve(x, s)
        PROVE  hold'[o][l] = hold[o][l]
    <3>1. x # o \/ l \notin Resolvable(x)
      BY DEF Resolvable
    <3> QED
      BY <2>0, <2>2, <3>1 DEF Resolve, TypeOK
  <2>3. ASSUME AdjustStep
        PROVE  hold' = hold
    BY <2>3 DEF AdjustStep, AdjustRead, AdjustFirst, AdjustWrite, AdjustAbort, WriteAdjustment
  <2>4. CASE EditStep
    BY <2>0, <2>4, DeletedLines
  <2> QED
    BY <2>1, <2>2, <2>3, <2>4 DEF Next, OrderStep, CommitSale, ReleaseReservation
<1>2. Spec => [][Final]_vars
  BY <1>1, Invariance, PTL DEF Spec
<1> QED
  BY <1>2 DEF ResolvedOnce

(* While merchants only take returns back into stock, no order is ever     *)
(* promised a unit that is not on the shelf: the conditional update of the *)
(* checkout is enough, however stale what the request read before it.      *)
THEOREM NeverOversells ==
  ASSUME AdjustTypes \cap TakingTypes = {}
  PROVE  Spec => []NoOversell
<1>1. Init => NoOversell
  BY DEF Init, NoOversell, NoLevel
<1>2. IInv /\ NoOversell /\ [Next]_vars => NoOversell'
  <2> SUFFICES ASSUME IInv, NoOversell, [Next]_vars, NEW l \in Lines
               PROVE  level'[l].available >= 0
    BY DEF NoOversell
  <2>0. /\ TypeOK /\ level[l] \in Level /\ level[l].available >= 0
        /\ level[l].available \in Int
    BY DEF IInv, TypeOK, NoOversell, Level
  <2>1. Touched(l) \in Level /\ Touched(l).available >= 0
    <3>1. Touched(l) \in Level
      BY <2>0, TouchedFacts DEF IInv
    <3>2. l \in tracked => Touched(l).available >= 0
      BY <2>0 DEF Touched
    <3>3. l \notin tracked => Touched(l).available >= 0
      <4>1. l \notin tracked => stock[l] >= 0 /\ stock[l] \in Int
        BY <2>0 DEF IInv, FreshStart, TypeOK
      <4> QED
        BY <4>1 DEF Touched, Opening, NoLevel, Shift
    <3> QED
      BY <3>1, <3>2, <3>3
  <2>2. ASSUME NEW o \in Orders, NEW cart \in Carts, ReserveForOrder(o, cart)
        PROVE  level'[l].available >= 0
    <3>1. cart[l] \in Int
      BY BoundsAssumption DEF Carts
    <3>2. CASE cart[l] > 0
      <4>1. Touched(l).available >= cart[l] /\ level'[l] = Reserve(Touched(l), cart[l])
        BY <2>2, <3>2 DEF ReserveForOrder, InStock
      <4> QED
        BY <2>1, <3>1, <4>1 DEF Reserve, Shift, Level
    <3>3. CASE ~(cart[l] > 0)
      BY <2>0, <2>2, <3>3 DEF ReserveForOrder
    <3> QED
      BY <3>2, <3>3
  <2>3. ASSUME NEW o \in Orders, CommitSale(o)
        PROVE  level'[l].available >= 0
    <3>1. hold[o][l].qty \in Int
      BY <2>0, BoundsAssumption DEF TypeOK, Hold
    <3> QED
      BY <2>0, <2>3, <3>1 DEF CommitSale, Sell, Shift, Level
  <2>4. ASSUME NEW o \in Orders, ReleaseReservation(o)
        PROVE  level'[l].available >= 0
    <3>1. hold[o][l].qty \in Nat
      BY <2>0, BoundsAssumption DEF TypeOK, Hold
    <3> QED
      BY <2>0, <2>4, <3>1 DEF ReleaseReservation, Release, Shift, Level
  <2>5. ASSUME NEW k \in live, NEW type \in AdjustTypes, NEW q \in 1..MaxQty,
               WriteAdjustment(k, type, q)
        PROVE  level'[l].available >= 0
    <3>1. type \in {"RETURN_TO_STOCK", "DAMAGED_RETURN"} /\ q \in Nat /\ k \in Lines
      BY <2>0, AdjustAssumption, BoundsAssumption DEF AdjustType, TypeOK
    <3>2. CASE k = l
      <4>1. level'[l] = Adjust(Touched(l), type, q)
        BY <2>0, <2>5, <3>2 DEF WriteAdjustment, TypeOK
      <4> QED
        BY <2>1, <3>1, <4>1 DEF Adjust, Shift, Level, TakingTypes
    <3>3. CASE k # l
      BY <2>0, <2>5, <3>3 DEF WriteAdjustment, TypeOK
    <3> QED
      BY <3>2, <3>3
  <2>6. CASE AdjustStep
    <3>1. ASSUME NEW w \in Workers, AdjustWrite(w)
          PROVE  level'[l].available >= 0
      <4>1. adjust[w] \in Adjustment
        BY <2>0, <3>1 DEF AdjustWrite, TypeOK
      <4>2. adjust[w].line \in live /\ adjust[w].type \in AdjustTypes /\ adjust[w].qty \in 1..MaxQty
        BY <2>0, <3>1, <4>1 DEF AdjustWrite, Adjustment, TypeOK
      <4> QED
        BY <2>5, <3>1, <4>2 DEF AdjustWrite
    <3>2. ASSUME NEW w \in Workers, NEW k \in Lines, NEW type \in AdjustTypes, NEW q \in 1..MaxQty,
                 AdjustFirst(w, k, type, q)
          PROVE  level'[l].available >= 0
      BY <2>5, <3>2 DEF AdjustFirst
    <3>3. ASSUME level' = level
          PROVE  level'[l].available >= 0
      BY <2>0, <3>3
    <3> QED
      BY <2>6, <3>1, <3>2, <3>3 DEF AdjustStep, AdjustRead, AdjustAbort
  <2>7. CASE EditStep
    <3>1. ASSUME NEW S \in SUBSET Lines, Delete(S)
          PROVE  level'[l].available >= 0
      BY <2>0, <3>1 DEF Delete, NoLevel
    <3>2. ASSUME level' = level
          PROVE  level'[l].available >= 0
      BY <2>0, <3>2
    <3> QED
      BY <2>7, <3>1, <3>2 DEF EditStep, EditStock, RemoveProduct, DropVariant
  <2>8. CASE UNCHANGED vars
    BY <2>0, <2>8 DEF vars
  <2> QED
    BY <2>2, <2>3, <2>4, <2>6, <2>7, <2>8 DEF Next, OrderStep
<1> QED
  BY <1>1, <1>2, Invariance, PTL DEF Spec
-----------------------------------------------------------------------------
(* Whatever adjustments overlap, the shortage of a line is at most what    *)
(* merchants took from it by hand: the sums of DAMAGED and LOST movements  *)
(* only grow in size, and a checkout never goes below zero.                *)
ShortByLosses(v, led) ==
  /\ led["DAMAGED"] >= 0 /\ led["LOST"] <= 0
  /\ v.available + (led["DAMAGED"] - led["LOST"]) >= 0

LEMMA OpsShort ==
  ASSUME NEW v \in Level, NEW led \in Ledger, NEW q \in Nat, ShortByLosses(v, led)
  PROVE  /\ v.available >= q => ShortByLosses(Reserve(v, q), Entered(led, "ORDER_RESERVATION", q))
         /\ ShortByLosses(Sell(v, q), Entered(led, "SALE", -q))
         /\ ShortByLosses(Release(v, q), Entered(led, "RESERVATION_RELEASE", -q))
         /\ \A type \in AdjustType :
              ShortByLosses(Adjust(v, type, q), Entered(led, type, AdjustChange(type, q)))
<1>1. /\ v.available \in Int /\ led["DAMAGED"] \in Int /\ led["LOST"] \in Int
      /\ \A t \in MovementType : led[t] \in Int
  BY DEF Level, Ledger, MovementType, AdjustType, TakingTypes
<1>2. /\ Reserve(v, q).available = v.available - q
      /\ Sell(v, q).available = v.available
      /\ Release(v, q).available = v.available + q
  BY <1>1 DEF Reserve, Sell, Release, Shift, Level
<1>3. \A t \in {"ORDER_RESERVATION", "SALE", "RESERVATION_RELEASE"}, n \in Int :
        /\ Entered(led, t, n)["DAMAGED"] = led["DAMAGED"]
        /\ Entered(led, t, n)["LOST"] = led["LOST"]
  BY MovementTypes DEF Entered, Ledger, AdjustType, TakingTypes
<1>4. ASSUME NEW type \in AdjustType
      PROVE  ShortByLosses(Adjust(v, type, q), Entered(led, type, AdjustChange(type, q)))
  <2>1. CASE type = "DAMAGED"
    <3>1. Adjust(v, type, q).available = v.available - q /\ AdjustChange(type, q) = q
      BY <2>1, <1>1 DEF Adjust, AdjustChange, Shift, Level
    <3>2. /\ Entered(led, type, q)["DAMAGED"] = led["DAMAGED"] + q
          /\ Entered(led, type, q)["LOST"] = led["LOST"]
      BY <2>1, MovementTypes DEF Entered, Ledger, AdjustType, TakingTypes
    <3> QED
      BY <3>1, <3>2, <1>1 DEF ShortByLosses
  <2>2. CASE type = "LOST"
    <3>1. Adjust(v, type, q).available = v.available - q /\ AdjustChange(type, q) = -q
      BY <2>2, <1>1 DEF Adjust, AdjustChange, Shift, Level
    <3>2. /\ Entered(led, type, -q)["DAMAGED"] = led["DAMAGED"]
          /\ Entered(led, type, -q)["LOST"] = led["LOST"] - q
      BY <2>2, <1>1, MovementTypes DEF Entered, Ledger, AdjustType, TakingTypes
    <3> QED
      BY <3>1, <3>2, <1>1 DEF ShortByLosses
  <2>3. CASE type \in {"RETURN_TO_STOCK", "DAMAGED_RETURN"}
    <3>1. Adjust(v, type, q).available >= v.available /\ Adjust(v, type, q).available \in Int
      BY <2>3, <1>1 DEF Adjust, Shift, Level, TakingTypes
    <3>2. /\ Entered(led, type, AdjustChange(type, q))["DAMAGED"] = led["DAMAGED"]
          /\ Entered(led, type, AdjustChange(type, q))["LOST"] = led["LOST"]
      BY <2>3, MovementTypes DEF Entered, Ledger, AdjustType, TakingTypes
    <3> QED
      BY <3>1, <3>2, <1>1 DEF ShortByLosses
  <2> QED
    BY <2>1, <2>2, <2>3 DEF AdjustType, TakingTypes
<1> QED
  BY <1>1, <1>2, <1>3, <1>4 DEF ShortByLosses

OnlyLosses == \A l \in Lines : ShortByLosses(level[l], ledger[l])

(* The row a transaction works on is short by losses only, whether it was  *)
(* there or is opened from a stock cache that is not negative.             *)
LEMMA TouchedShort ==
  ASSUME IInv, OnlyLosses, NEW l \in Lines
  PROVE  /\ Touched(l) \in Level /\ TouchedLedger(l) \in Ledger
         /\ ShortByLosses(Touched(l), TouchedLedger(l))
<1>1. Touched(l) \in Level /\ TouchedLedger(l) \in Ledger
  BY TouchedFacts
<1>2. CASE l \in tracked
  BY <1>1, <1>2 DEF OnlyLosses, Touched, TouchedLedger
<1>3. CASE l \notin tracked
  <2>1. stock[l] \in Int /\ stock[l] >= 0
    BY <1>3 DEF IInv, TypeOK, FreshStart
  <2>2. Touched(l).available = stock[l]
    BY <1>3, <2>1 DEF Touched, Opening, NoLevel, Shift
  <2>3. TouchedLedger(l)["DAMAGED"] = 0 /\ TouchedLedger(l)["LOST"] = 0
    BY <1>3, MovementTypes DEF TouchedLedger, Entered, EmptyLedger, AdjustType, TakingTypes
  <2> QED
    BY <1>1, <2>1, <2>2, <2>3 DEF ShortByLosses
<1> QED
  BY <1>1, <1>2, <1>3

LEMMA OnlyLossesInductive == IInv /\ OnlyLosses /\ [Next]_vars => OnlyLosses'
<1> SUFFICES ASSUME IInv, OnlyLosses, [Next]_vars, NEW l \in Lines
             PROVE  ShortByLosses(level'[l], ledger'[l])
  BY DEF OnlyLosses
<1>0. /\ TypeOK /\ level[l] \in Level /\ ledger[l] \in Ledger
      /\ ShortByLosses(level[l], ledger[l])
  BY DEF IInv, TypeOK, OnlyLosses
<1>1. ASSUME level'[l] = level[l], ledger'[l] = ledger[l]
      PROVE  ShortByLosses(level'[l], ledger'[l])
  BY <1>0, <1>1
<1>2. ASSUME NEW o \in Orders, NEW cart \in Carts, ReserveForOrder(o, cart)
      PROVE  ShortByLosses(level'[l], ledger'[l])
  <2>1. cart[l] \in Nat
    BY BoundsAssumption DEF Carts
  <2>2. CASE cart[l] > 0
    <3>1. /\ Touched(l).available >= cart[l]
          /\ level'[l] = Reserve(Touched(l), cart[l])
          /\ ledger'[l] = Entered(TouchedLedger(l), "ORDER_RESERVATION", cart[l])
      BY <1>2, <2>2 DEF ReserveForOrder, InStock
    <3> QED
      BY <3>1, <2>1, TouchedShort, OpsShort
  <2>3. CASE ~(cart[l] > 0)
    BY <1>1, <1>2, <2>3 DEF ReserveForOrder
  <2> QED
    BY <2>2, <2>3
<1>3. ASSUME NEW o \in Orders, CommitSale(o) \/ ReleaseReservation(o)
      PROVE  ShortByLosses(level'[l], ledger'[l])
  <2>1. hold[o][l].qty \in Nat
    BY <1>0, BoundsAssumption DEF TypeOK, Hold
  <2>2. CASE l \in Resolvable(o)
    <3>1. \/ /\ level'[l] = Sell(level[l], hold[o][l].qty)
             /\ ledger'[l] = Entered(ledger[l], "SALE", -hold[o][l].qty)
          \/ /\ level'[l] = Release(level[l], hold[o][l].qty)
             /\ ledger'[l] = Entered(ledger[l], "RESERVATION_RELEASE", -hold[o][l].qty)
      BY <1>3, <2>2 DEF CommitSale, ReleaseReservation
    <3> QED
      BY <3>1, <2>1, <1>0, OpsShort
  <2>3. CASE l \notin Resolvable(o)
    BY <1>1, <1>3, <2>3 DEF CommitSale, ReleaseReservation
  <2> QED
    BY <2>2, <2>3
<1>4. ASSUME NEW k \in live, NEW type \in AdjustTypes, NEW q \in 1..MaxQty,
             WriteAdjustment(k, type, q)
      PROVE  ShortByLosses(level'[l], ledger'[l])
  <2>1. type \in AdjustType /\ q \in Nat /\ k \in Lines
    BY <1>0, AdjustAssumption, BoundsAssumption DEF TypeOK
  <2>2. CASE k = l
    <3>1. /\ level'[l] = Adjust(Touched(l), type, q)
          /\ ledger'[l] = Entered(TouchedLedger(l), type, AdjustChange(type, q))
      BY <1>0, <1>4, <2>2 DEF WriteAdjustment, TypeOK
    <3> QED
      BY <3>1, <2>1, TouchedShort, OpsShort
  <2>3. CASE k # l
    BY <1>0, <1>1, <1>4, <2>3 DEF WriteAdjustment, TypeOK
  <2> QED
    BY <2>2, <2>3
<1>5. CASE AdjustStep
  <2>1. ASSUME NEW w \in Workers, AdjustWrite(w)
        PROVE  ShortByLosses(level'[l], ledger'[l])
    <3>1. adjust[w] \in Adjustment
      BY <1>0, <2>1 DEF AdjustWrite, TypeOK
    <3>2. adjust[w].line \in live /\ adjust[w].type \in AdjustTypes /\ adjust[w].qty \in 1..MaxQty
      BY <1>0, <2>1, <3>1 DEF AdjustWrite, Adjustment, TypeOK
    <3> QED
      BY <1>4, <2>1, <3>2 DEF AdjustWrite
  <2>2. ASSUME NEW w \in Workers, NEW k \in Lines, NEW type \in AdjustTypes, NEW q \in 1..MaxQty,
               AdjustFirst(w, k, type, q)
        PROVE  ShortByLosses(level'[l], ledger'[l])
    BY <1>4, <2>2 DEF AdjustFirst
  <2>3. ASSUME level' = level, ledger' = ledger
        PROVE  ShortByLosses(level'[l], ledger'[l])
    BY <1>1, <2>3
  <2> QED
    BY <1>5, <2>1, <2>2, <2>3 DEF AdjustStep, AdjustRead, AdjustAbort
<1>6. CASE EditStep
  <2>1. ASSUME NEW S \in SUBSET Lines, Delete(S)
        PROVE  ShortByLosses(level'[l], ledger'[l])
    <3>1. CASE l \in S
      <4>1. level'[l] = NoLevel /\ ledger'[l] = EmptyLedger
        BY <2>1, <3>1 DEF Delete
      <4> QED
        BY <4>1, MovementTypes
        DEF NoLevel, EmptyLedger, ShortByLosses, AdjustType, TakingTypes
    <3>2. CASE l \notin S
      BY <1>1, <2>1, <3>2 DEF Delete
    <3> QED
      BY <3>1, <3>2
  <2>2. ASSUME level' = level, ledger' = ledger
        PROVE  ShortByLosses(level'[l], ledger'[l])
    BY <1>1, <2>2
  <2> QED
    BY <1>6, <2>1, <2>2 DEF EditStep, EditStock, RemoveProduct, DropVariant
<1>7. CASE UNCHANGED vars
  BY <1>1, <1>7 DEF vars
<1> QED
  BY <1>2, <1>3, <1>5, <1>6, <1>7 DEF Next, OrderStep

(* Orders are never promised a unit that is not there, except for what     *)
(* merchants took away by hand after it was checked.                       *)
THEOREM OversoldOnlyByHand == Spec => []OversoldByLossesOnly
<1>1. Init => OnlyLosses
  <2> SUFFICES ASSUME Init, NEW l \in Lines PROVE ShortByLosses(level[l], ledger[l])
    BY DEF OnlyLosses
  <2>1. level[l] = NoLevel /\ ledger[l] = EmptyLedger
    BY DEF Init
  <2> QED
    BY <2>1, MovementTypes
    DEF NoLevel, EmptyLedger, ShortByLosses, AdjustType, TakingTypes
<1>2. OnlyLosses => OversoldByLossesOnly
  BY DEF OnlyLosses, OversoldByLossesOnly, ShortByLosses, TakenByHand
<1> QED
  BY <1>1, <1>2, OnlyLossesInductive, Invariance, PTL DEF Spec

-----------------------------------------------------------------------------
(* A step moves the stock cache of a line as it moves its available column. *)
MovesAlike(l) == stock'[l] - stock[l] = level'[l].available - level[l].available

LEMMA UntouchedMovesAlike ==
  ASSUME TypeOK, NEW l \in Lines, stock'[l] = stock[l], level'[l].available = level[l].available
  PROVE  MovesAlike(l)
BY DEF MovesAlike, TypeOK, Level

LEMMA OrdersMoveAlike ==
  ASSUME TypeOK, OrderStep, NEW l \in tracked
  PROVE  MovesAlike(l)
<1>1. l \in Lines /\ level[l] \in Level /\ stock[l] \in Int /\ Touched(l) = level[l]
  BY DEF TypeOK, Touched
<1>2. ASSUME NEW o \in Orders, NEW cart \in Carts, ReserveForOrder(o, cart)
      PROVE  MovesAlike(l)
  <2>1. cart[l] \in Int /\ cart[l] >= 0 /\ stock'[l] = stock[l] - cart[l]
    BY <1>1, <1>2, BoundsAssumption DEF Carts, ReserveForOrder
  <2>2. level'[l] = IF cart[l] > 0 THEN Reserve(level[l], cart[l]) ELSE level[l]
    BY <1>1, <1>2 DEF ReserveForOrder
  <2>3. CASE cart[l] > 0
    BY <1>1, <2>1, <2>2, <2>3 DEF MovesAlike, Reserve, Shift, Level
  <2>4. CASE cart[l] = 0
    BY <1>1, <2>1, <2>2, <2>4, UntouchedMovesAlike
  <2> QED
    BY <2>1, <2>3, <2>4
<1>3. ASSUME NEW o \in Orders, CommitSale(o) \/ ReleaseReservation(o)
      PROVE  MovesAlike(l)
  <2>1. hold[o][l].qty \in Int
    BY <1>1, BoundsAssumption DEF TypeOK, Hold
  <2>2. CASE CommitSale(o)
    BY <1>1, <2>1, <2>2 DEF CommitSale, MovesAlike, Sell, Shift, Level
  <2>3. CASE ReleaseReservation(o)
    BY <1>1, <2>1, <2>3 DEF ReleaseReservation, MovesAlike, Release, Shift, Level
  <2> QED
    BY <1>3, <2>2, <2>3
<1> QED
  BY <1>2, <1>3 DEF OrderStep

LEMMA AdjustmentsMoveAlike ==
  ASSUME TypeOK, AdjustStep, NEW l \in tracked
  PROVE  MovesAlike(l)
<1>1. l \in Lines /\ level[l] \in Level /\ stock[l] \in Int /\ Touched(l) = level[l]
  BY DEF TypeOK, Touched
<1>2. ASSUME NEW k \in Lines, NEW type \in AdjustType, NEW q \in 1..MaxQty,
             WriteAdjustment(k, type, q)
      PROVE  MovesAlike(l)
  <2>1. q \in Int
    BY BoundsAssumption
  <2>2. CASE k # l
    BY <1>1, <1>2, <2>2, UntouchedMovesAlike DEF WriteAdjustment, TypeOK
  <2>3. CASE k = l
    <3>1. stock'[l] = stock[l] + MirrorDelta(type, q) /\ level'[l] = Adjust(level[l], type, q)
      BY <1>1, <1>2, <2>3 DEF WriteAdjustment, TypeOK
    <3> QED
      BY <1>1, <2>1, <3>1 DEF MovesAlike, Adjust, MirrorDelta, Shift, Level, AdjustType, TakingTypes
  <2> QED
    BY <2>2, <2>3
<1>3. ASSUME NEW w \in Workers, AdjustWrite(w)
      PROVE  MovesAlike(l)
  BY <1>2, <1>3, AdjustAssumption DEF AdjustWrite, TypeOK, Adjustment
<1>4. ASSUME NEW w \in Workers, NEW k \in Lines, NEW type \in AdjustTypes, NEW q \in 1..MaxQty,
             AdjustFirst(w, k, type, q)
      PROVE  MovesAlike(l)
  BY <1>2, <1>4, AdjustAssumption DEF AdjustFirst
<1> QED
  BY <1>1, <1>3, <1>4, UntouchedMovesAlike DEF AdjustStep, AdjustRead, AdjustAbort

(* The shop's stock cache moves with the available column, whatever        *)
(* reserves, sells, releases or adjusts: only the product form parts them. *)
THEOREM MirrorAlwaysFollows == Spec => MirrorFollows
<1> DEFINE Alike ==
      level' # level => \A l \in tracked \cap tracked' :
        stock'[l] - stock[l] = level'[l].available - level[l].available
<1>1. TypeOK /\ [Next]_vars => [Alike]_vars
  <2> SUFFICES ASSUME TypeOK, Next, level' # level, NEW l \in tracked \cap tracked'
               PROVE  MovesAlike(l)
    BY DEF MovesAlike
  <2>1. l \in Lines
    BY DEF TypeOK
  <2>2. ASSUME NEW S \in SUBSET Lines, Delete(S)
        PROVE  MovesAlike(l)
    BY <2>1, <2>2, UntouchedMovesAlike DEF Delete
  <2>3. CASE EditStep
    BY <2>2, <2>3 DEF EditStep, EditStock, RemoveProduct, DropVariant
  <2> QED
    BY <2>3, OrdersMoveAlike, AdjustmentsMoveAlike DEF Next
<1>2. Spec => [][Alike]_vars
  BY <1>1, TypeCorrect, PTL DEF Spec
<1> QED
  BY <1>2 DEF MirrorFollows

-----------------------------------------------------------------------------
(* The orders.                                                             *)
allVars == <<vars, orderVars>>

(* What a handler has read of a row and still relies on never changes: the *)
(* order exists, and its buyer and the points it redeemed are the same.    *)
RequestsAgree ==
  \A r \in Requests : request[r] # Idle =>
    /\ request[r].id \in placed
    /\ request[r].existing.buyer = order[request[r].id].buyer
    /\ request[r].existing.redeemed = order[request[r].id].redeemed

(* An order that does not exist has no points. *)
NoPointsBefore == \A o \in Orders \ placed : points[o] = NoRows

OrdersIInv ==
  /\ IInv
  /\ OrdersTypeOK
  /\ RequestsAgree
  /\ NoPointsBefore
  /\ SettledHoldsNothing
  /\ PointsFollowOrder

-----------------------------------------------------------------------------
(* Orders use the inventory through its own actions only.                  *)

LEMMA UpdateIsStock ==
  ASSUME TypeOK, NEW r \in Requests, UpdateStatus(r)
  PROVE  [Next]_vars
<1> DEFINE o == request[r].id
<1>1. placed \subseteq Orders
  BY DEF TypeOK
<1>2. CommitSale(o) \/ ReleaseReservation(o) \/ UNCHANGED vars
  BY DEF UpdateStatus, Deliver, Cancel
<1>3. CommitSale(o) \/ ReleaseReservation(o) => o \in Orders
  BY <1>1 DEF CommitSale, ReleaseReservation
<1> QED
  BY <1>2, <1>3 DEF Next, OrderStep

LEMMA StepIsStock == TypeOK /\ [OrdersNext]_allVars => [Next]_vars
<1> SUFFICES ASSUME TypeOK, [OrdersNext]_allVars PROVE [Next]_vars
  OBVIOUS
<1>1. CASE PlaceStep
  BY <1>1 DEF PlaceStep, PlaceOrder, Next, OrderStep
<1>2. CASE ReadStep
  BY <1>2 DEF ReadStep, ReadForStatus, ReadForCancel, ReadForDriver, Read
<1>3. CASE CommitStep
  <2>1. ASSUME NEW r \in Requests, CancelByCustomer(r)
        PROVE  [Next]_vars
    <3>1. request[r].id \in Orders /\ ReleaseReservation(request[r].id)
      BY <2>1 DEF CancelByCustomer, ReleaseReservation, TypeOK
    <3> QED
      BY <3>1 DEF Next, OrderStep
  <2>2. ASSUME NEW r \in Requests, AssignDriver(r) \/ AbortRequest(r)
        PROVE  [Next]_vars
    BY <2>2 DEF AssignDriver, AbortRequest
  <2>3. ASSUME NEW o \in Orders, TouchOrder(o)
        PROVE  [Next]_vars
    BY <2>3 DEF TouchOrder
  <2> QED
    BY <1>3, <2>1, <2>2, <2>3, UpdateIsStock DEF CommitStep
<1>4. CASE StockStep
  BY <1>4 DEF StockStep, Next
<1>5. CASE UNCHANGED allVars
  BY <1>5 DEF allVars
<1> QED
  BY <1>1, <1>2, <1>3, <1>4, <1>5 DEF OrdersNext

(* The store's orders are an implementation of its inventory: every run of *)
(* checkouts, status updates and cancellations moves the inventory rows    *)
(* only by reserve, commit, release, adjust and edit, so whatever is       *)
(* proved of Inventory is true of the orders.                              *)
THEOREM OrdersImplementStock == OrdersSpec => StockSpec
<1>1. OrdersInit => Init /\ IInv
  BY InitIInv DEF OrdersInit
<1>2. IInv /\ [OrdersNext]_allVars => IInv'
  BY StepIsStock, NextIInv DEF IInv
<1>3. IInv /\ [OrdersNext]_allVars => [Next]_vars
  BY StepIsStock DEF IInv
<1> QED
  BY <1>1, <1>2, <1>3, PTL DEF OrdersSpec, StockSpec, Spec, allVars

-----------------------------------------------------------------------------
(* The order rows and the points ledger.                                   *)

(* Writing a row keeps its buyer and its redeemed points.                  *)
LEMMA WrittenRow ==
  ASSUME OrdersTypeOK, NEW o \in placed, NEW row \in Order, Written(o, row),
         row.buyer = order[o].buyer, row.redeemed = order[o].redeemed,
         row.updatedAt = order[o].updatedAt
  PROVE  /\ order' \in [Orders -> Order \cup {NoOrder}]
         /\ order'[o] \in Order
         /\ order'[o].status = row.status
         /\ order'[o].buyer = order[o].buyer
         /\ order'[o].redeemed = order[o].redeemed
         /\ \A x \in Orders : x # o => order'[x] = order[x]
         /\ \A x \in Orders : order'[x] # NoOrder <=> order[x] # NoOrder
<1> DEFINE new == [row EXCEPT !.updatedAt = @ + 1]
<1>1. o \in Orders /\ order \in [Orders -> Order \cup {NoOrder}]
  BY DEF OrdersTypeOK, TypeOK
<1>2. order' = [order EXCEPT ![o] = new] /\ order[o].updatedAt < MaxUpdates
  BY DEF Written
<1>3. new \in Order
  BY <1>2, TargetsAssumption DEF Order
<1>4. NoOrder \notin Order
  BY DEF NoOrder, Order, OrderStatus, Cancellable
<1>5. order'[o] = new
  BY <1>1, <1>2
<1>6. new.status = row.status /\ new.buyer = row.buyer /\ new.redeemed = row.redeemed
  BY DEF Order
<1>7. order[o] # NoOrder
  BY DEF OrdersTypeOK
<1> HIDE DEF new
<1> QED
  BY <1>1, <1>2, <1>3, <1>4, <1>5, <1>6, <1>7

(* Crediting touches one column of one order and one balance.              *)
LEMMA CreditFacts ==
  ASSUME OrdersTypeOK, NEW o \in Orders, NEW buyer \in Customers \cup {Guest},
         NEW type \in {"EARNED", "RESTORED"}, NEW n \in Nat,
         Credit(o, buyer, type, n)
  PROVE  /\ points' \in [Orders -> PointRows]
         /\ balance' \in [Customers -> Nat]
         /\ \A x \in Orders : x # o => points'[x] = points[x]
         /\ points'[o].REDEEMED = points[o].REDEEMED
         /\ type = "EARNED" => points'[o].RESTORED = points[o].RESTORED
         /\ type = "RESTORED" => /\ points'[o].EARNED = points[o].EARNED
                                 /\ points'[o].RESTORED \in {points[o].RESTORED, n}
         /\ buyer = Guest => points' = points
<1>1. points \in [Orders -> PointRows] /\ balance \in [Customers -> Nat] /\ points[o] \in PointRows
  BY DEF OrdersTypeOK
<1>2. CASE UNCHANGED <<points, balance>>
  BY <1>1, <1>2
<1>3. CASE /\ buyer # Guest
           /\ points' = [points EXCEPT ![o][type] = n]
           /\ balance' = [balance EXCEPT ![buyer] = @ + n]
  <2>1. balance' \in [Customers -> Nat]
    BY <1>1, <1>3
  <2>2. points'[o] = [points[o] EXCEPT ![type] = n]
    BY <1>1, <1>3
  <2>3. points'[o] \in PointRows
    BY <1>1, <2>2 DEF PointRows
  <2>4. points' \in [Orders -> PointRows] /\ \A x \in Orders : x # o => points'[x] = points[x]
    BY <1>1, <1>3, <2>3
  <2>5. /\ points'[o].REDEEMED = points[o].REDEEMED
        /\ type = "EARNED" => points'[o].RESTORED = points[o].RESTORED
        /\ type = "RESTORED" => points'[o].EARNED = points[o].EARNED /\ points'[o].RESTORED = n
    BY <1>1, <2>2 DEF PointRows
  <2> QED
    BY <1>3, <2>1, <2>4, <2>5
<1> QED
  BY <1>2, <1>3 DEF Credit

(* Settling an order leaves it no ACTIVE hold, and the others as they were. *)
LEMMA SettledHolds ==
  ASSUME IInv, NEW o \in Orders, CommitSale(o) \/ ReleaseReservation(o)
  PROVE  /\ \A l \in Lines : hold'[o][l].status # "ACTIVE"
         /\ \A x \in Orders : x # o => hold'[x] = hold[x]
         /\ placed' = placed
<1>1. hold \in [Orders -> [Lines -> Hold]] /\ tracked \subseteq Lines
  BY DEF IInv, TypeOK
<1>2. PICK s \in {"COMMITTED", "RELEASED"} : Resolve(o, s)
  BY DEF CommitSale, ReleaseReservation
<1>3. ASSUME NEW l \in Lines
      PROVE  hold'[o][l].status # "ACTIVE"
  <2>1. CASE l \in Resolvable(o)
    <3>1. hold'[o][l] = [qty |-> hold[o][l].qty, status |-> s]
      BY <1>1, <1>2, <2>1 DEF Resolve
    <3> QED
      BY <3>1
  <2>2. CASE l \notin Resolvable(o)
    <3>1. hold'[o][l] = hold[o][l]
      BY <1>1, <1>2, <2>2 DEF Resolve
    <3>2. l \notin tracked => hold[o][l] = NoHold
      BY DEF IInv, FreshStart
    <3> QED
      BY <2>2, <3>1, <3>2 DEF Resolvable, NoHold
  <2> QED
    BY <2>1, <2>2
<1>4. \A x \in Orders : x # o => hold'[x] = hold[x]
  BY <1>1, <1>2 DEF Resolve
<1> QED
  BY <1>3, <1>4 DEF CommitSale, ReleaseReservation

(* Holds only ever leave ACTIVE when the inventory changes beside them.    *)
LEMMA StockStepHolds ==
  ASSUME IInv, AdjustStep \/ EditStep
  PROVE  /\ placed' = placed
         /\ \A o \in Orders, l \in Lines :
              hold[o][l].status # "ACTIVE" => hold'[o][l].status # "ACTIVE"
<1>1. CASE AdjustStep
  BY <1>1 DEF AdjustStep, AdjustRead, AdjustFirst, AdjustWrite, AdjustAbort, WriteAdjustment
<1>2. ASSUME NEW S \in SUBSET Lines, Delete(S)
      PROVE  /\ placed' = placed
             /\ \A o \in Orders, l \in Lines :
                  hold[o][l].status # "ACTIVE" => hold'[o][l].status # "ACTIVE"
  BY <1>2 DEF Delete, NoHold
<1>3. ASSUME NEW k \in Lines, NEW n \in 0..MaxStock, EditStock(k, n)
      PROVE  hold' = hold /\ placed' = placed
  BY <1>3 DEF EditStock
<1> QED
  BY <1>1, <1>2, <1>3 DEF EditStep, RemoveProduct, DropVariant

-----------------------------------------------------------------------------
(* The invariant, order by order.                                          *)
OrderInv(o) ==
  /\ order[o].status \in {"DELIVERED", "CANCELLED"} =>
       \A l \in Lines : hold[o][l].status # "ACTIVE"
  /\ points[o].EARNED > 0 \/ points[o].RESTORED > 0 =>
       \A l \in Lines : hold[o][l].status # "ACTIVE"
  /\ points[o].REDEEMED = order[o].redeemed
  /\ points[o].RESTORED \in {0, points[o].REDEEMED}
  /\ order[o].buyer = Guest => points[o] = NoRows

LEMMA OrderByOrder ==
  SettledHoldsNothing /\ PointsFollowOrder <=> \A o \in placed : OrderInv(o)
BY DEF SettledHoldsNothing, PointsFollowOrder, OrderInv

LEMMA OrdersInitIInv == OrdersInit => OrdersIInv
<1> SUFFICES ASSUME OrdersInit PROVE OrdersIInv
  OBVIOUS
<1>1. IInv /\ TypeOK /\ placed = {}
  BY InitIInv DEF OrdersInit, IInv, Init
<1>2. NoRows \in PointRows
  BY DEF NoRows, PointRows
<1>3. OrdersTypeOK
  BY <1>1, <1>2, CustomersAssumption DEF OrdersInit, OrdersTypeOK
<1>4. RequestsAgree /\ NoPointsBefore
  BY DEF OrdersInit, RequestsAgree, NoPointsBefore
<1> QED
  BY <1>1, <1>3, <1>4, OrderByOrder DEF OrdersIInv

(* What another order does leaves this one as it is.                       *)
LEMMA OrderElsewhere ==
  ASSUME NEW o \in Orders, OrderInv(o), order'[o] = order[o], points'[o] = points[o],
         \A l \in Lines : hold[o][l].status # "ACTIVE" => hold'[o][l].status # "ACTIVE"
  PROVE  OrderInv(o)'
BY DEF OrderInv

(* A transaction that writes one order's row, moves points of that order   *)
(* only and leaves it in order, keeps the invariant.                       *)
LEMMA OneOrderWritten ==
  ASSUME OrdersIInv, IInv', placed' = placed,
         NEW o \in placed, NEW row \in Order, Written(o, row),
         row.buyer = order[o].buyer, row.redeemed = order[o].redeemed,
         row.updatedAt = order[o].updatedAt,
         points' \in [Orders -> PointRows], balance' \in [Customers -> Nat],
         \A x \in Orders : x # o => points'[x] = points[x],
         \A x \in Orders, l \in Lines : x # o =>
            (hold[x][l].status # "ACTIVE" => hold'[x][l].status # "ACTIVE"),
         request' \in [Requests -> Request \cup {Idle}],
         \A r \in Requests : request'[r] \in {request[r], Idle},
         OrderInv(o)'
  PROVE  OrdersIInv'
<1>1. OrdersTypeOK /\ RequestsAgree /\ NoPointsBefore /\ placed \subseteq Orders
  BY DEF OrdersIInv, OrdersTypeOK, TypeOK
<1>2. /\ order' \in [Orders -> Order \cup {NoOrder}]
      /\ order'[o].buyer = order[o].buyer
      /\ order'[o].redeemed = order[o].redeemed
      /\ \A x \in Orders : x # o => order'[x] = order[x]
      /\ \A x \in Orders : order'[x] # NoOrder <=> order[x] # NoOrder
  BY <1>1, WrittenRow
<1>3. OrdersTypeOK'
  BY <1>1, <1>2 DEF OrdersTypeOK, IInv
<1>4. RequestsAgree'
  <2> SUFFICES ASSUME NEW r \in Requests, request'[r] # Idle
               PROVE  /\ request'[r].id \in placed'
                      /\ request'[r].existing.buyer = order'[request'[r].id].buyer
                      /\ request'[r].existing.redeemed = order'[request'[r].id].redeemed
    BY DEF RequestsAgree
  <2>1. request'[r] = request[r] /\ request[r] # Idle
    OBVIOUS
  <2>2. request[r].id \in Orders
    BY <1>1, <2>1 DEF RequestsAgree
  <2> QED
    BY <1>1, <1>2, <2>1, <2>2 DEF RequestsAgree
<1>5. NoPointsBefore'
  BY <1>1 DEF NoPointsBefore
<1>6. \A x \in placed : OrderInv(x)
  BY OrderByOrder DEF OrdersIInv
<1>7. \A x \in placed : OrderInv(x)'
  <2> SUFFICES ASSUME NEW x \in placed, x # o PROVE OrderInv(x)'
    OBVIOUS
  <2>1. x \in Orders
    BY <1>1
  <2> QED
    BY <1>2, <1>6, <2>1, OrderElsewhere
<1>8. (SettledHoldsNothing /\ PointsFollowOrder)'
  BY <1>7 DEF SettledHoldsNothing, PointsFollowOrder, OrderInv
<1> QED
  BY <1>3, <1>4, <1>5, <1>8 DEF OrdersIInv

-----------------------------------------------------------------------------
(* One lemma per action.                                                   *)

LEMMA PlaceInv ==
  ASSUME OrdersIInv, IInv', PlaceStep
  PROVE  OrdersIInv'
<1>1. PICK o \in Orders, buyer \in Customers \cup {Guest}, cart \in Carts, n \in Prices \cup {0} :
        PlaceOrder(o, buyer, cart, n)
  BY DEF PlaceStep
<1>2. /\ OrdersTypeOK /\ RequestsAgree /\ NoPointsBefore
      /\ placed \subseteq Orders /\ o \notin placed /\ placed' = placed \cup {o}
      /\ \A x \in placed : OrderInv(x)
      /\ n \in Nat
  BY <1>1, OrderByOrder, PointsAssumption DEF OrdersIInv, OrdersTypeOK, TypeOK, PlaceOrder, ReserveForOrder
<1> DEFINE new == [status |-> "PENDING", buyer |-> buyer, redeemed |-> n,
                   driver |-> FALSE, updatedAt |-> 0]
           rows == [NoRows EXCEPT !.REDEEMED = n]
<1>3. new \in Order /\ new # NoOrder
  BY <1>2, TargetsAssumption DEF Order, OrderStatus, Cancellable, NoOrder
<1>4. rows \in PointRows /\ rows.REDEEMED = n /\ rows.EARNED = 0 /\ rows.RESTORED = 0
      /\ (n = 0 => rows = NoRows)
  BY <1>2 DEF PointRows, NoRows
<1>5. /\ order' = [order EXCEPT ![o] = new]
      /\ points' = [points EXCEPT ![o] = rows]
      /\ hold' = [hold EXCEPT ![o] = hold'[o]]
      /\ request' = request
  <2>1. points[o] = NoRows
    BY <1>2 DEF NoPointsBefore
  <2>2. points' = [points EXCEPT ![o].REDEEMED = n]
    BY <1>1 DEF PlaceOrder
  <2>3. points' = [points EXCEPT ![o] = rows]
    BY <1>2, <2>1, <2>2 DEF OrdersTypeOK
  <2>4. hold \in [Orders -> [Lines -> Hold]]
    BY DEF OrdersIInv, IInv, TypeOK
  <2> QED
    BY <1>1, <2>3, <2>4 DEF PlaceOrder, ReserveForOrder
<1>6. balance' \in [Customers -> Nat]
  BY <1>1, <1>2 DEF PlaceOrder, Affordable, OrdersTypeOK
<1> HIDE DEF new, rows
<1>7. OrdersTypeOK'
  BY <1>2, <1>3, <1>4, <1>5, <1>6 DEF OrdersTypeOK, IInv
<1>8. RequestsAgree' /\ NoPointsBefore'
  BY <1>2, <1>5 DEF RequestsAgree, NoPointsBefore, OrdersTypeOK
<1>9. OrderInv(o)'
  <2>1. order'[o] = new /\ points'[o] = rows
    BY <1>2, <1>5 DEF OrdersTypeOK
  <2>2. new.status = "PENDING" /\ new.buyer = buyer /\ new.redeemed = n
    BY DEF new
  <2>3. buyer = Guest => n = 0
    BY <1>1, <1>2 DEF PlaceOrder, Affordable
  <2> QED
    BY <1>2, <1>4, <2>1, <2>2, <2>3 DEF OrderInv
<1>10. ASSUME NEW x \in placed PROVE OrderInv(x)'
  <2>1. x # o /\ x \in Orders
    BY <1>2
  <2>2. order'[x] = order[x] /\ points'[x] = points[x] /\ hold'[x] = hold[x]
    <3>1. hold \in [Orders -> [Lines -> Hold]]
      BY DEF OrdersIInv, IInv, TypeOK
    <3> QED
      BY <1>2, <1>5, <2>1, <3>1 DEF OrdersTypeOK
  <2> QED
    BY <1>2, <2>1, <2>2, OrderElsewhere
<1>11. (SettledHoldsNothing /\ PointsFollowOrder)'
  BY <1>2, <1>9, <1>10 DEF SettledHoldsNothing, PointsFollowOrder, OrderInv
<1> QED
  BY <1>7, <1>8, <1>11 DEF OrdersIInv

LEMMA ReadInv ==
  ASSUME OrdersIInv, IInv', ReadStep
  PROVE  OrdersIInv'
<1>1. /\ OrdersTypeOK /\ RequestsAgree /\ NoPointsBefore /\ SettledHoldsNothing
      /\ PointsFollowOrder /\ placed \subseteq Orders
  BY DEF OrdersIInv, OrdersTypeOK, TypeOK
<1>2. PICK r \in Requests, o \in Orders, req \in Request :
        Read(r, o, req) /\ req.id = o /\ req.existing = order[o]
  <2>1. PICK r \in Requests, o \in Orders :
          \/ \E s \in Targets, expected \in BOOLEAN : ReadForStatus(r, o, s, expected)
          \/ ReadForCancel(r, o)
          \/ ReadForDriver(r, o)
    BY DEF ReadStep
  <2>2. o \in placed
    BY <2>1 DEF ReadForStatus, ReadForCancel, ReadForDriver, Read
  <2>3. order[o] \in Order
    BY <1>1, <2>2 DEF OrdersTypeOK
  <2>4. ASSUME NEW s \in Targets, NEW expected \in BOOLEAN, ReadForStatus(r, o, s, expected)
        PROVE  \E req \in Request : Read(r, o, req) /\ req.id = o /\ req.existing = order[o]
    BY <2>3, <2>4 DEF ReadForStatus, Request
  <2>5. ASSUME ReadForCancel(r, o)
        PROVE  \E req \in Request : Read(r, o, req) /\ req.id = o /\ req.existing = order[o]
    BY <2>3, <2>5 DEF ReadForCancel, Request
  <2>6. ASSUME ReadForDriver(r, o)
        PROVE  \E req \in Request : Read(r, o, req) /\ req.id = o /\ req.existing = order[o]
    BY <2>3, <2>6 DEF ReadForDriver, Request
  <2> QED
    BY <2>1, <2>4, <2>5, <2>6
<1>3. /\ UNCHANGED <<order, points, balance, hold, placed>> /\ o \in placed
      /\ request' = [request EXCEPT ![r] = req]
  BY <1>2 DEF Read, vars
<1>4. OrdersTypeOK'
  BY <1>1, <1>2, <1>3 DEF OrdersTypeOK, IInv
<1>5. RequestsAgree'
  BY <1>1, <1>2, <1>3 DEF RequestsAgree, OrdersTypeOK
<1>6. NoPointsBefore' /\ SettledHoldsNothing' /\ PointsFollowOrder'
  BY <1>1, <1>3 DEF NoPointsBefore, SettledHoldsNothing, PointsFollowOrder
<1> QED
  BY <1>4, <1>5, <1>6 DEF OrdersIInv

(* What a running request knows of its order.                              *)
LEMMA RunningRequest ==
  ASSUME OrdersIInv, NEW r \in Requests, request[r].kind \in {"status", "cancel", "driver"}
  PROVE  /\ request[r] \in Request
         /\ request[r].id \in placed /\ request[r].id \in Orders
         /\ order[request[r].id] \in Order
         /\ request[r].existing.buyer = order[request[r].id].buyer
         /\ request[r].existing.redeemed = order[request[r].id].redeemed
         /\ order[request[r].id].buyer \in Customers \cup {Guest}
         /\ order[request[r].id].redeemed \in Nat
         /\ request[r].kind = "status" => request[r].status \in OrderStatus
<1>1. request[r] # Idle
  BY DEF Idle
<1>2. request[r] \in Request /\ request[r].id \in placed
  BY <1>1 DEF OrdersIInv, OrdersTypeOK, RequestsAgree
<1>3. order[request[r].id] \in Order /\ request[r].id \in Orders
  BY <1>2 DEF OrdersIInv, OrdersTypeOK, TypeOK
<1>4. request[r].kind = "status" => request[r].status \in OrderStatus
  BY <1>2, TargetsAssumption DEF Request
<1> QED
  BY <1>1, <1>2, <1>3, <1>4 DEF OrdersIInv, RequestsAgree, Order

(* An answered request is idle and the others are where they were.         *)
LEMMA DoneFacts ==
  ASSUME OrdersTypeOK, NEW r \in Requests, Done(r)
  PROVE  /\ request' \in [Requests -> Request \cup {Idle}]
         /\ \A q \in Requests : request'[q] \in {request[q], Idle}
BY DEF OrdersTypeOK, Done

LEMMA UpdateInv ==
  ASSUME OrdersIInv, IInv', NEW r \in Requests, UpdateStatus(r)
  PROVE  OrdersIInv'
<1> DEFINE req == request[r]
<1>0. PICK o \in placed : o = req.id
  BY RunningRequest DEF UpdateStatus
<1> DEFINE row == [order[o] EXCEPT !.status = req.status]
<1>1. /\ req.kind = "status"
      /\ Written(o, row)
      /\ Done(r)
  BY <1>0 DEF UpdateStatus
<1>2. /\ o \in placed /\ o \in Orders /\ order[o] \in Order
      /\ req.existing.buyer = order[o].buyer /\ req.existing.redeemed = order[o].redeemed
      /\ order[o].buyer \in Customers \cup {Guest} /\ order[o].redeemed \in Nat
      /\ req.status \in OrderStatus
  BY <1>0, <1>1, RunningRequest
<1>3. /\ row \in Order /\ row.status = req.status
      /\ row.buyer = order[o].buyer /\ row.redeemed = order[o].redeemed
      /\ row.updatedAt = order[o].updatedAt
  BY <1>2 DEF Order
<1>4. OrdersTypeOK /\ IInv /\ OrderInv(o) /\ points \in [Orders -> PointRows]
      /\ balance \in [Customers -> Nat] /\ points[o] \in PointRows
  BY <1>2, OrderByOrder DEF OrdersIInv, OrdersTypeOK
<1>5. /\ order'[o].status = req.status
      /\ order'[o].buyer = order[o].buyer
      /\ order'[o].redeemed = order[o].redeemed
  <2> HIDE DEF row
  <2> QED
    BY <1>1, <1>2, <1>3, <1>4, WrittenRow
<1>6. /\ request' \in [Requests -> Request \cup {Idle}]
      /\ \A q \in Requests : request'[q] \in {request[q], Idle}
  BY <1>1, <1>4, DoneFacts
<1>7. CASE req.status = "DELIVERED"
  <2>1. PICK award \in Awards \cup {0} : Deliver(o, req.existing, award)
    BY <1>0, <1>7 DEF UpdateStatus
  <2>2. /\ \A l \in Lines : hold'[o][l].status # "ACTIVE"
        /\ \A x \in Orders : x # o => hold'[x] = hold[x]
        /\ placed' = placed
    BY <1>2, <1>4, <2>1, SettledHolds DEF Deliver
  <2>3. /\ points' \in [Orders -> PointRows] /\ balance' \in [Customers -> Nat]
        /\ \A x \in Orders : x # o => points'[x] = points[x]
        /\ points'[o].REDEEMED = points[o].REDEEMED
        /\ points'[o].RESTORED = points[o].RESTORED
        /\ order[o].buyer = Guest => points' = points
    <3>1. award \in Nat
      BY PointsAssumption
    <3>2. CASE req.existing.status # "DELIVERED"
      <4>1. Credit(o, order[o].buyer, "EARNED", award)
        BY <1>2, <2>1, <3>2 DEF Deliver
      <4> QED
        BY <1>2, <1>4, <3>1, <4>1, CreditFacts
    <3>3. CASE req.existing.status = "DELIVERED"
      BY <1>4, <2>1, <3>3 DEF Deliver
    <3> QED
      BY <3>2, <3>3
  <2>4. OrderInv(o)'
    BY <1>4, <1>5, <2>2, <2>3 DEF OrderInv
  <2> HIDE DEF row
  <2> QED
    BY <1>1, <1>2, <1>3, <1>6, <2>2, <2>3, <2>4, OneOrderWritten
<1>8. CASE req.status = "CANCELLED"
  <2>1. ReleaseReservation(o) /\ Credit(o, order[o].buyer, "RESTORED", order[o].redeemed)
    BY <1>0, <1>2, <1>8 DEF UpdateStatus, Cancel
  <2>2. /\ \A l \in Lines : hold'[o][l].status # "ACTIVE"
        /\ \A x \in Orders : x # o => hold'[x] = hold[x]
        /\ placed' = placed
    BY <1>2, <1>4, <2>1, SettledHolds
  <2>3. /\ points' \in [Orders -> PointRows] /\ balance' \in [Customers -> Nat]
        /\ \A x \in Orders : x # o => points'[x] = points[x]
        /\ points'[o].REDEEMED = points[o].REDEEMED
        /\ points'[o].RESTORED \in {points[o].RESTORED, order[o].redeemed}
        /\ order[o].buyer = Guest => points' = points
    BY <1>2, <1>4, <2>1, CreditFacts
  <2>4. OrderInv(o)'
    BY <1>4, <1>5, <2>2, <2>3 DEF OrderInv
  <2> HIDE DEF row
  <2> QED
    BY <1>1, <1>2, <1>3, <1>6, <2>2, <2>3, <2>4, OneOrderWritten
<1>9. CASE req.status \notin {"DELIVERED", "CANCELLED"}
  <2>1. UNCHANGED <<points, balance, hold, placed>>
    BY <1>9 DEF UpdateStatus, vars
  <2>2. OrderInv(o)'
    BY <1>4, <1>5, <1>9, <2>1 DEF OrderInv
  <2> HIDE DEF row
  <2> QED
    BY <1>1, <1>2, <1>3, <1>4, <1>6, <2>1, <2>2, OneOrderWritten
<1> QED
  BY <1>7, <1>8, <1>9

LEMMA CancelInv ==
  ASSUME OrdersIInv, IInv', NEW r \in Requests, CancelByCustomer(r)
  PROVE  OrdersIInv'
<1>0. PICK o \in placed : o = request[r].id
  BY RunningRequest DEF CancelByCustomer
<1> DEFINE row == [order[o] EXCEPT !.status = "CANCELLED"]
<1>1. /\ request[r].kind = "cancel" /\ Written(o, row) /\ Done(r)
      /\ ReleaseReservation(o) /\ UNCHANGED <<points, balance>>
  BY <1>0 DEF CancelByCustomer
<1>2. o \in placed /\ o \in Orders /\ order[o] \in Order
  BY <1>0, <1>1, RunningRequest
<1>3. /\ row \in Order /\ row.status = "CANCELLED"
      /\ row.buyer = order[o].buyer /\ row.redeemed = order[o].redeemed
      /\ row.updatedAt = order[o].updatedAt
  BY <1>2 DEF Order, OrderStatus
<1>4. OrdersTypeOK /\ IInv /\ OrderInv(o) /\ points \in [Orders -> PointRows]
      /\ balance \in [Customers -> Nat]
  BY <1>2, OrderByOrder DEF OrdersIInv, OrdersTypeOK
<1> HIDE DEF row
<1>5. order'[o].buyer = order[o].buyer /\ order'[o].redeemed = order[o].redeemed
  BY <1>1, <1>2, <1>3, <1>4, WrittenRow
<1>6. /\ request' \in [Requests -> Request \cup {Idle}]
      /\ \A q \in Requests : request'[q] \in {request[q], Idle}
  BY <1>1, <1>4, DoneFacts
<1>7. /\ \A l \in Lines : hold'[o][l].status # "ACTIVE"
      /\ \A x \in Orders : x # o => hold'[x] = hold[x]
      /\ placed' = placed
  BY <1>1, <1>2, <1>4, SettledHolds
<1>8. OrderInv(o)'
  BY <1>1, <1>4, <1>5, <1>7 DEF OrderInv
<1> QED
  BY <1>1, <1>2, <1>3, <1>4, <1>6, <1>7, <1>8, OneOrderWritten

(* A new version of a row that changes neither status nor points.          *)
LEMMA TouchInv ==
  ASSUME OrdersIInv, IInv', NEW o \in placed, NEW row \in Order, Written(o, row),
         row.status = order[o].status, row.buyer = order[o].buyer,
         row.redeemed = order[o].redeemed, row.updatedAt = order[o].updatedAt,
         UNCHANGED <<points, balance, vars>>,
         request' \in [Requests -> Request \cup {Idle}],
         \A r \in Requests : request'[r] \in {request[r], Idle}
  PROVE  OrdersIInv'
<1>1. OrdersTypeOK /\ OrderInv(o) /\ points \in [Orders -> PointRows]
      /\ balance \in [Customers -> Nat]
  BY OrderByOrder DEF OrdersIInv, OrdersTypeOK
<1>2. /\ order'[o].status = order[o].status /\ order'[o].buyer = order[o].buyer
      /\ order'[o].redeemed = order[o].redeemed
  BY <1>1, WrittenRow
<1>3. hold' = hold /\ placed' = placed /\ points' = points /\ balance' = balance
  BY DEF vars
<1>4. OrderInv(o)'
  BY <1>1, <1>2, <1>3 DEF OrderInv
<1> QED
  BY <1>1, <1>3, <1>4, OneOrderWritten

LEMMA CommitInv ==
  ASSUME OrdersIInv, IInv', CommitStep
  PROVE  OrdersIInv'
<1>1. OrdersTypeOK
  BY DEF OrdersIInv
<1>2. ASSUME NEW r \in Requests, AssignDriver(r)
      PROVE  OrdersIInv'
  <2>0. PICK o \in placed : o = request[r].id
    BY <1>2, RunningRequest DEF AssignDriver
  <2> DEFINE row == [order[o] EXCEPT !.driver = TRUE]
  <2>1. /\ request[r].kind = "driver" /\ Written(o, row) /\ Done(r)
        /\ UNCHANGED <<points, balance, vars>>
    BY <1>2, <2>0 DEF AssignDriver
  <2>2. o \in placed /\ order[o] \in Order
    BY <2>0, <2>1, RunningRequest
  <2>3. /\ row \in Order /\ row.status = order[o].status
        /\ row.buyer = order[o].buyer /\ row.redeemed = order[o].redeemed
        /\ row.updatedAt = order[o].updatedAt
    BY <2>2 DEF Order
  <2> HIDE DEF row
  <2> QED
    BY <1>1, <2>1, <2>2, <2>3, DoneFacts, TouchInv
<1>3. ASSUME NEW o \in Orders, TouchOrder(o)
      PROVE  OrdersIInv'
  <2>1. /\ o \in placed /\ Written(o, order[o]) /\ request' = request
        /\ UNCHANGED <<points, balance, vars>>
    BY <1>3 DEF TouchOrder
  <2>2. order[o] \in Order /\ request' \in [Requests -> Request \cup {Idle}]
    BY <1>1, <2>1 DEF OrdersTypeOK
  <2> QED
    BY <2>1, <2>2, TouchInv
<1>4. ASSUME NEW r \in Requests, AbortRequest(r)
      PROVE  OrdersIInv'
  <2>1. Done(r) /\ UNCHANGED <<order, points, balance, hold, placed>>
    BY <1>4 DEF AbortRequest, vars
  <2>2. /\ request' \in [Requests -> Request \cup {Idle}]
        /\ \A q \in Requests : request'[q] \in {request[q], Idle}
    BY <1>1, <2>1, DoneFacts
  <2>3. OrdersTypeOK'
    BY <1>1, <2>1, <2>2 DEF OrdersTypeOK, IInv
  <2>4. RequestsAgree'
    BY <2>1, <2>2 DEF OrdersIInv, RequestsAgree
  <2>5. NoPointsBefore' /\ SettledHoldsNothing' /\ PointsFollowOrder'
    BY <2>1 DEF OrdersIInv, NoPointsBefore, SettledHoldsNothing, PointsFollowOrder
  <2> QED
    BY <2>3, <2>4, <2>5 DEF OrdersIInv
<1> QED
  BY <1>2, <1>3, <1>4, UpdateInv, CancelInv DEF CommitStep

LEMMA StockInv ==
  ASSUME OrdersIInv, IInv', StockStep
  PROVE  OrdersIInv'
<1>1. /\ OrdersTypeOK /\ RequestsAgree /\ NoPointsBefore /\ placed \subseteq Orders
      /\ \A o \in placed : OrderInv(o)
  BY OrderByOrder DEF OrdersIInv, OrdersTypeOK, TypeOK
<1>2. /\ UNCHANGED <<order, points, balance, request, placed>>
      /\ \A o \in Orders, l \in Lines :
           hold[o][l].status # "ACTIVE" => hold'[o][l].status # "ACTIVE"
  BY StockStepHolds DEF OrdersIInv, StockStep, orderVars
<1>3. OrdersTypeOK' /\ RequestsAgree' /\ NoPointsBefore'
  BY <1>1, <1>2 DEF OrdersTypeOK, IInv, RequestsAgree, NoPointsBefore
<1>4. ASSUME NEW o \in placed PROVE OrderInv(o)'
  BY <1>1, <1>2, OrderElsewhere
<1>5. (SettledHoldsNothing /\ PointsFollowOrder)'
  BY <1>2, <1>4 DEF SettledHoldsNothing, PointsFollowOrder, OrderInv
<1> QED
  BY <1>3, <1>5 DEF OrdersIInv

-----------------------------------------------------------------------------
(* The orders' invariant holds in every reachable state.                   *)
THEOREM OrdersInvariance == OrdersSpec => []OrdersIInv
<1>1. OrdersIInv /\ [OrdersNext]_allVars => OrdersIInv'
  <2> SUFFICES ASSUME OrdersIInv, [OrdersNext]_allVars PROVE OrdersIInv'
    OBVIOUS
  <2>1. IInv'
    BY StepIsStock, NextIInv DEF OrdersIInv, IInv
  <2>2. CASE UNCHANGED allVars
    <3>1. UNCHANGED <<order, points, balance, request, hold, placed>>
      BY <2>2 DEF allVars, vars, orderVars
    <3>2. OrdersTypeOK' /\ RequestsAgree'
      BY <2>1, <3>1 DEF OrdersIInv, OrdersTypeOK, IInv, RequestsAgree
    <3>3. NoPointsBefore' /\ SettledHoldsNothing' /\ PointsFollowOrder'
      BY <3>1 DEF OrdersIInv, NoPointsBefore, SettledHoldsNothing, PointsFollowOrder
    <3> QED
      BY <2>1, <3>2, <3>3 DEF OrdersIInv
  <2> QED
    BY <2>1, <2>2, PlaceInv, ReadInv, CommitInv, StockInv DEF OrdersNext
<1> QED
  BY <1>1, OrdersInitIInv, PTL DEF OrdersSpec, allVars

(* Orders, points, balances and requests keep the types of the schema.     *)
THEOREM OrdersTypeCorrect == OrdersSpec => []OrdersTypeOK
<1>1. OrdersIInv => OrdersTypeOK
  BY DEF OrdersIInv
<1> QED
  BY <1>1, OrdersInvariance, PTL

(* However many merchants and customers write the same order, from however *)
(* old a reading of it: a delivered or cancelled order holds no unit back, *)
(* points are paid only on settled orders, and what a cancellation gives   *)
(* back is what the checkout took, or nothing.                             *)
THEOREM AlwaysSettledOnce == OrdersSpec => []SettledOnce
<1>1. OrdersIInv => SettledOnce
  BY DEF OrdersIInv, SettledOnce
<1> QED
  BY <1>1, OrdersInvariance, PTL

-----------------------------------------------------------------------------
(* The customers' balances.                                                *)

PointType == {"EARNED", "REDEEMED", "RESTORED"}

UnitsCounted == \A c \in Customers, type \in PointType : IsFiniteSet(PointUnits(c, type))

BalanceInv == UnitsCounted /\ BalanceReconciles

LEMMA UnitsOfOrders ==
  ASSUME NEW c, NEW type
  PROVE  \A u : u \in PointUnits(c, type) <=>
           \E o \in placed : order[o].buyer = c /\ u \in {o} \X (1..points[o][type])
BY DEF PointUnits

(* As long as c's orders keep their rows of a type, so do c's units.       *)
LEMMA UnitsKept ==
  ASSUME NEW c, NEW type, placed \subseteq placed',
         \A o \in placed' : order'[o].buyer = c /\ points'[o][type] # 0 => o \in placed,
         \A o \in placed : order'[o].buyer = order[o].buyer,
         \A o \in placed : order[o].buyer = c => points'[o][type] = points[o][type]
  PROVE  PointUnits(c, type)' = PointUnits(c, type)
<1>1. \A u : u \in PointUnits(c, type)' <=>
        \E o \in placed' : order'[o].buyer = c /\ u \in {o} \X (1..points'[o][type])
  BY DEF PointUnits
<1>2. ASSUME NEW u, u \in PointUnits(c, type)' PROVE u \in PointUnits(c, type)
  <2>1. PICK o \in placed' : order'[o].buyer = c /\ u \in {o} \X (1..points'[o][type])
    BY <1>1, <1>2
  <2>2. points'[o][type] # 0
    BY <2>1
  <2>3. o \in placed
    BY <2>1, <2>2
  <2>4. order[o].buyer = c /\ points'[o][type] = points[o][type]
    BY <2>1, <2>3
  <2> QED
    BY <2>1, <2>3, <2>4, UnitsOfOrders
<1>3. ASSUME NEW u, u \in PointUnits(c, type) PROVE u \in PointUnits(c, type)'
  <2>1. PICK o \in placed : order[o].buyer = c /\ u \in {o} \X (1..points[o][type])
    BY <1>3, UnitsOfOrders
  <2> QED
    BY <1>1, <2>1
<1> QED
  BY <1>2, <1>3

(* A row of n points for an order that had none of that type adds n units. *)
LEMMA UnitsAdded ==
  ASSUME UnitsCounted, NEW c \in Customers, NEW type \in PointType, NEW n \in Nat,
         NEW o \in placed', placed' = placed \cup {o},
         order'[o].buyer = c, points'[o][type] = n,
         o \in placed => order[o].buyer = c /\ points[o][type] = 0,
         \A x \in placed \ {o} : order'[x].buyer = order[x].buyer /\ points'[x] = points[x]
  PROVE  /\ IsFiniteSet(PointUnits(c, type)')
         /\ Cardinality(PointUnits(c, type)') = Cardinality(PointUnits(c, type)) + n
<1> DEFINE New == {o} \X (1..n)
           Old == PointUnits(c, type)
<1>1. \A u : u \in PointUnits(c, type)' <=>
        \E x \in placed' : order'[x].buyer = c /\ u \in {x} \X (1..points'[x][type])
  BY DEF PointUnits
<1>2. PointUnits(c, type)' = Old \cup New
  <2>1. ASSUME NEW u, u \in PointUnits(c, type)' PROVE u \in Old \cup New
    <3>1. PICK x \in placed' : order'[x].buyer = c /\ u \in {x} \X (1..points'[x][type])
      BY <1>1, <2>1
    <3>2. x # o => x \in placed /\ order[x].buyer = c /\ u \in {x} \X (1..points[x][type])
      BY <3>1
    <3>3. x # o => u \in Old
      BY <3>2, UnitsOfOrders
    <3> QED
      BY <3>1, <3>3
  <2>2. ASSUME NEW u, u \in Old PROVE u \in PointUnits(c, type)'
    <3>1. PICK x \in placed : order[x].buyer = c /\ u \in {x} \X (1..points[x][type])
      BY <2>2, UnitsOfOrders
    <3>2. x # o
      BY <3>1
    <3> QED
      BY <1>1, <3>1, <3>2
  <2>3. ASSUME NEW u, u \in New PROVE u \in PointUnits(c, type)'
    BY <1>1, <2>3
  <2> QED
    BY <2>1, <2>2, <2>3
<1>3. Old \cap New = {}
  <2> SUFFICES ASSUME NEW u, u \in Old, u \in New PROVE FALSE
    OBVIOUS
  <2>1. PICK x \in placed : u \in {x} \X (1..points[x][type])
    BY UnitsOfOrders
  <2>2. x = o
    BY <2>1
  <2> QED
    BY <2>1, <2>2
<1>4. IsFiniteSet(New) /\ Cardinality(New) = n
  <2>1. IsFiniteSet(1..n) /\ Cardinality(1..n) = n
    BY FS_Interval
  <2>2. IsFiniteSet({o}) /\ Cardinality({o}) = 1
    BY FS_Singleton
  <2>3. IsFiniteSet(New) /\ Cardinality(New) = Cardinality({o}) * Cardinality(1..n)
    BY <2>1, <2>2, FS_Product
  <2> QED
    BY <2>1, <2>2, <2>3
<1>5. IsFiniteSet(Old) /\ Cardinality(Old) \in Nat
  BY FS_CardinalityType DEF UnitsCounted
<1>6. Cardinality(Old \cap New) = 0
  BY <1>3, FS_EmptySet
<1> HIDE DEF Old, New
<1>7. IsFiniteSet(Old \cup New) /\ Cardinality(Old \cup New) = Cardinality(Old) + n - 0
  BY <1>4, <1>5, <1>6, FS_Union
<1>8. IsFiniteSet(PointUnits(c, type)') /\ Cardinality(PointUnits(c, type)') = Cardinality(Old) + n
  BY <1>2, <1>5, <1>7
<1> QED
  BY <1>8 DEF Old

(* A step that leaves points and balances alone, and every buyer.          *)
LEMMA BalanceUntouched ==
  ASSUME BalanceInv, UNCHANGED <<points, balance, placed>>,
         \A o \in placed : order'[o].buyer = order[o].buyer
  PROVE  BalanceInv'
<1>1. \A c \in Customers, type \in PointType : PointUnits(c, type)' = PointUnits(c, type)
  BY UnitsKept
<1> QED
  BY <1>1 DEF BalanceInv, UnitsCounted, BalanceReconciles, PointType

(* A credit adds to the balance what it adds to the rows.                  *)
LEMMA BalanceCredited ==
  ASSUME BalanceInv, OrdersTypeOK, placed' = placed, NEW o \in placed,
         NEW type \in {"EARNED", "RESTORED"}, NEW n \in Nat,
         Credit(o, order[o].buyer, type, n),
         \A x \in placed : order'[x].buyer = order[x].buyer
  PROVE  BalanceInv'
<1>0. /\ points \in [Orders -> PointRows] /\ balance \in [Customers -> Nat]
      /\ placed \subseteq Orders /\ o \in Orders /\ points[o] \in PointRows
      /\ order[o].buyer \in Customers \cup {Guest}
  BY DEF OrdersTypeOK, TypeOK, Order
<1>1. CASE UNCHANGED <<points, balance>>
  BY <1>1, BalanceUntouched
<1>2. CASE /\ order[o].buyer # Guest /\ points[o][type] = 0
           /\ points' = [points EXCEPT ![o][type] = n]
           /\ balance' = [balance EXCEPT ![order[o].buyer] = @ + n]
  <2>0. PICK b \in Customers : b = order[o].buyer
    BY <1>0, <1>2
  <2>1. b \in Customers /\ balance'[b] = balance[b] + n
        /\ \A c \in Customers \ {b} : balance'[c] = balance[c]
    BY <1>0, <1>2, <2>0
  <2>2. /\ points'[o] = [points[o] EXCEPT ![type] = n]
        /\ \A x \in placed \ {o} : points'[x] = points[x]
    BY <1>0, <1>2
  <2>3. points'[o][type] = n /\ \A t \in PointType \ {type} : points'[o][t] = points[o][t]
    BY <1>0, <2>2 DEF PointType, PointRows
  <2>4. /\ IsFiniteSet(PointUnits(b, type)')
        /\ Cardinality(PointUnits(b, type)') = Cardinality(PointUnits(b, type)) + n
    <3>1. placed' = placed \cup {o} /\ type \in PointType
      BY DEF PointType
    <3>2. order[o].buyer = b /\ order'[o].buyer = b
      BY <2>0
    <3>3. b \in Customers /\ points[o][type] = 0 /\ points'[o][type] = n
      BY <1>2, <2>1, <2>3
    <3>4. \A x \in placed \ {o} : order'[x].buyer = order[x].buyer /\ points'[x] = points[x]
      BY <2>2
    <3>5. UnitsCounted /\ o \in placed'
      BY DEF BalanceInv
    <3> QED
      BY <3>1, <3>2, <3>3, <3>4, <3>5, UnitsAdded
  <2>5. ASSUME NEW c \in Customers, NEW t \in PointType, c # b \/ t # type
        PROVE  PointUnits(c, t)' = PointUnits(c, t)
    <3>1. \A x \in placed : order[x].buyer = c => points'[x][t] = points[x][t]
      BY <2>0, <2>2, <2>3, <2>5
    <3> QED
      BY <3>1, UnitsKept
  <2>6. \A c \in Customers, t \in PointType : IsFiniteSet(PointUnits(c, t)')
    BY <2>4, <2>5 DEF BalanceInv, UnitsCounted
  <2>7. ASSUME NEW c \in Customers
        PROVE  balance'[c] = Saved[c] + Cardinality(PointUnits(c, "EARNED")')
                                      + Cardinality(PointUnits(c, "RESTORED")')
                                      - Cardinality(PointUnits(c, "REDEEMED")')
    <3>1. /\ balance[c] = Saved[c] + Cardinality(PointUnits(c, "EARNED"))
                                   + Cardinality(PointUnits(c, "RESTORED"))
                                   - Cardinality(PointUnits(c, "REDEEMED"))
          /\ Saved[c] \in Nat
          /\ \A t \in PointType : Cardinality(PointUnits(c, t)) \in Nat
      BY CustomersAssumption, FS_CardinalityType DEF BalanceInv, BalanceReconciles, UnitsCounted
    <3>2. PointUnits(c, "REDEEMED")' = PointUnits(c, "REDEEMED")
      BY <2>5 DEF PointType
    <3>3. CASE c # b
      BY <2>1, <2>5, <3>1, <3>2, <3>3 DEF PointType
    <3>4. CASE c = b /\ type = "EARNED"
      <4>1. PointUnits(c, "RESTORED")' = PointUnits(c, "RESTORED")
        BY <2>5, <3>4 DEF PointType
      <4>2. /\ Cardinality(PointUnits(c, "EARNED")') = Cardinality(PointUnits(c, "EARNED")) + n
            /\ balance'[c] = balance[c] + n
        BY <2>1, <2>4, <3>4
      <4> QED
        BY <3>1, <3>2, <4>1, <4>2 DEF PointType
    <3>5. CASE c = b /\ type = "RESTORED"
      <4>1. PointUnits(c, "EARNED")' = PointUnits(c, "EARNED")
        BY <2>5, <3>5 DEF PointType
      <4>2. /\ Cardinality(PointUnits(c, "RESTORED")') = Cardinality(PointUnits(c, "RESTORED")) + n
            /\ balance'[c] = balance[c] + n
        BY <2>1, <2>4, <3>5
      <4> QED
        BY <3>1, <3>2, <4>1, <4>2 DEF PointType
    <3> QED
      BY <3>3, <3>4, <3>5
  <2> QED
    BY <2>6, <2>7 DEF BalanceInv, UnitsCounted, BalanceReconciles
<1> QED
  BY <1>1, <1>2 DEF Credit

(* A checkout takes from the balance what its REDEEMED row says.           *)
LEMMA BalanceRedeemed ==
  ASSUME BalanceInv, OrdersIInv, PlaceStep
  PROVE  BalanceInv'
<1>1. PICK o \in Orders, buyer \in Customers \cup {Guest}, cart \in Carts, n \in Prices \cup {0} :
        PlaceOrder(o, buyer, cart, n)
  BY DEF PlaceStep
<1>2. /\ placed \subseteq Orders /\ o \notin placed /\ placed' = placed \cup {o} /\ n \in Nat
      /\ points \in [Orders -> PointRows] /\ balance \in [Customers -> Nat]
      /\ order \in [Orders -> Order \cup {NoOrder}] /\ points[o] = NoRows
  BY <1>1, PointsAssumption
  DEF OrdersIInv, OrdersTypeOK, TypeOK, NoPointsBefore, PlaceOrder, ReserveForOrder
<1>3. /\ order'[o].buyer = buyer /\ \A x \in placed : order'[x] = order[x]
      /\ \A x \in placed : points'[x] = points[x]
  BY <1>1, <1>2 DEF PlaceOrder
<1>4. points'[o] = [NoRows EXCEPT !.REDEEMED = n]
  BY <1>1, <1>2 DEF PlaceOrder
<1>5. points'[o]["REDEEMED"] = n /\ points'[o]["EARNED"] = 0 /\ points'[o]["RESTORED"] = 0
  BY <1>4 DEF NoRows
<1>6. /\ n > 0 => buyer \in Customers /\ balance[buyer] >= n
      /\ balance' = IF n > 0 THEN [balance EXCEPT ![buyer] = @ - n] ELSE balance
  BY <1>1 DEF PlaceOrder, Affordable
<1>7. ASSUME NEW c \in Customers, NEW t \in PointType, c # buyer \/ t # "REDEEMED"
      PROVE  PointUnits(c, t)' = PointUnits(c, t)
  <2>1. \A x \in placed' : order'[x].buyer = c /\ points'[x][t] # 0 => x \in placed
    BY <1>2, <1>3, <1>5, <1>7 DEF PointType
  <2> QED
    BY <1>2, <1>3, <2>1, UnitsKept
<1>8. buyer \in Customers =>
        /\ IsFiniteSet(PointUnits(buyer, "REDEEMED")')
        /\ Cardinality(PointUnits(buyer, "REDEEMED")')
             = Cardinality(PointUnits(buyer, "REDEEMED")) + n
  <2> SUFFICES ASSUME buyer \in Customers
               PROVE  /\ IsFiniteSet(PointUnits(buyer, "REDEEMED")')
                      /\ Cardinality(PointUnits(buyer, "REDEEMED")')
                           = Cardinality(PointUnits(buyer, "REDEEMED")) + n
    OBVIOUS
  <2>1. "REDEEMED" \in PointType /\ o \in placed' /\ UnitsCounted
    BY <1>2 DEF PointType, BalanceInv
  <2> QED
    BY <1>2, <1>3, <1>5, <2>1, UnitsAdded
<1>9. \A c \in Customers, t \in PointType : IsFiniteSet(PointUnits(c, t)')
  BY <1>7, <1>8 DEF BalanceInv, UnitsCounted
<1>10. ASSUME NEW c \in Customers
       PROVE  balance'[c] = Saved[c] + Cardinality(PointUnits(c, "EARNED")')
                                     + Cardinality(PointUnits(c, "RESTORED")')
                                     - Cardinality(PointUnits(c, "REDEEMED")')
  <2>1. /\ balance[c] = Saved[c] + Cardinality(PointUnits(c, "EARNED"))
                                 + Cardinality(PointUnits(c, "RESTORED"))
                                 - Cardinality(PointUnits(c, "REDEEMED"))
        /\ Saved[c] \in Nat /\ balance[c] \in Nat
        /\ \A t \in PointType : Cardinality(PointUnits(c, t)) \in Nat
    BY <1>2, CustomersAssumption, FS_CardinalityType DEF BalanceInv, BalanceReconciles, UnitsCounted
  <2>2. /\ PointUnits(c, "EARNED")' = PointUnits(c, "EARNED")
        /\ PointUnits(c, "RESTORED")' = PointUnits(c, "RESTORED")
    BY <1>7 DEF PointType
  <2>3. CASE c # buyer
    <3>1. PointUnits(c, "REDEEMED")' = PointUnits(c, "REDEEMED") /\ balance'[c] = balance[c]
      BY <1>2, <1>6, <1>7, <2>3 DEF PointType
    <3> QED
      BY <2>1, <2>2, <3>1
  <2>4. CASE c = buyer
    <3>1. /\ Cardinality(PointUnits(c, "REDEEMED")') = Cardinality(PointUnits(c, "REDEEMED")) + n
          /\ balance'[c] = balance[c] - n
      BY <1>2, <1>6, <1>8, <2>4
    <3> QED
      BY <1>2, <2>1, <2>2, <3>1 DEF PointType
  <2> QED
    BY <2>3, <2>4
<1> QED
  BY <1>9, <1>10 DEF BalanceInv, UnitsCounted, BalanceReconciles

(* A transaction on an existing order keeps every buyer.                   *)
LEMMA BuyersKept ==
  ASSUME OrdersIInv, NEW o \in placed, NEW row \in Order, Written(o, row),
         row.buyer = order[o].buyer, row.redeemed = order[o].redeemed,
         row.updatedAt = order[o].updatedAt
  PROVE  \A x \in placed : order'[x].buyer = order[x].buyer
<1>1. OrdersTypeOK /\ placed \subseteq Orders
  BY DEF OrdersIInv, OrdersTypeOK, TypeOK
<1> QED
  BY <1>1, WrittenRow

LEMMA BalanceInductive == BalanceInv /\ OrdersIInv /\ [OrdersNext]_allVars => BalanceInv'
<1> SUFFICES ASSUME BalanceInv, OrdersIInv, [OrdersNext]_allVars PROVE BalanceInv'
  OBVIOUS
<1>0. OrdersTypeOK
  BY DEF OrdersIInv
<1>1. CASE UNCHANGED <<order, points, balance, placed>>
  BY <1>1, BalanceUntouched
<1>2. ASSUME NEW r \in Requests, NEW row \in Order, NEW o \in placed, o = request[r].id,
             request[r].kind \in {"status", "cancel", "driver"}, Written(o, row),
             row.buyer = order[o].buyer, row.redeemed = order[o].redeemed,
             row.updatedAt = order[o].updatedAt, placed' = placed,
             \/ UNCHANGED <<points, balance>>
             \/ \E type \in {"EARNED", "RESTORED"}, n \in Nat : Credit(o, order[o].buyer, type, n)
      PROVE  BalanceInv'
  BY <1>0, <1>2, BuyersKept, BalanceUntouched, BalanceCredited
<1>3. ASSUME NEW r \in Requests, UpdateStatus(r) PROVE BalanceInv'
  <2>0. PICK o \in placed : o = request[r].id
    BY <1>3, RunningRequest DEF UpdateStatus
  <2> DEFINE req == request[r]
             row == [order[o] EXCEPT !.status = req.status]
  <2>1. /\ req.kind = "status" /\ Written(o, row)
        /\ order[o] \in Order /\ req.status \in OrderStatus
        /\ req.existing.buyer = order[o].buyer /\ req.existing.redeemed = order[o].redeemed
        /\ order[o].redeemed \in Nat
    BY <1>3, <2>0, RunningRequest DEF UpdateStatus
  <2>2. /\ row \in Order /\ row.buyer = order[o].buyer /\ row.redeemed = order[o].redeemed
        /\ row.updatedAt = order[o].updatedAt
    BY <2>1 DEF Order
  <2>3. placed' = placed
    BY <1>3 DEF UpdateStatus, Deliver, Cancel, CommitSale, ReleaseReservation, vars
  <2>4. \/ UNCHANGED <<points, balance>>
        \/ \E type \in {"EARNED", "RESTORED"}, n \in Nat : Credit(o, order[o].buyer, type, n)
    <3>1. ASSUME NEW n \in Awards \cup {0}, Deliver(o, req.existing, n)
          PROVE  \/ UNCHANGED <<points, balance>>
                 \/ \E m \in Nat : Credit(o, order[o].buyer, "EARNED", m)
      BY <2>1, <3>1, PointsAssumption DEF Deliver
    <3>2. ASSUME Cancel(o, req.existing)
          PROVE  Credit(o, order[o].buyer, "RESTORED", order[o].redeemed)
      BY <2>1, <3>2 DEF Cancel
    <3> QED
      BY <1>3, <2>0, <2>1, <3>1, <3>2 DEF UpdateStatus
  <2> HIDE DEF row
  <2> QED
    BY <1>2, <2>0, <2>1, <2>2, <2>3, <2>4
<1>4. ASSUME NEW r \in Requests, CancelByCustomer(r) PROVE BalanceInv'
  <2>0. PICK o \in placed : o = request[r].id
    BY <1>4, RunningRequest DEF CancelByCustomer
  <2> DEFINE row == [order[o] EXCEPT !.status = "CANCELLED"]
  <2>1. /\ request[r].kind = "cancel" /\ Written(o, row) /\ order[o] \in Order
        /\ UNCHANGED <<points, balance, placed>>
    BY <1>4, <2>0, RunningRequest DEF CancelByCustomer, ReleaseReservation
  <2>2. /\ row \in Order /\ row.buyer = order[o].buyer /\ row.redeemed = order[o].redeemed
        /\ row.updatedAt = order[o].updatedAt
    BY <2>1 DEF Order, OrderStatus
  <2> HIDE DEF row
  <2> QED
    BY <1>2, <2>0, <2>1, <2>2
<1>5. ASSUME NEW r \in Requests, AssignDriver(r) PROVE BalanceInv'
  <2>0. PICK o \in placed : o = request[r].id
    BY <1>5, RunningRequest DEF AssignDriver
  <2> DEFINE row == [order[o] EXCEPT !.driver = TRUE]
  <2>1. /\ request[r].kind = "driver" /\ Written(o, row) /\ order[o] \in Order
        /\ UNCHANGED <<points, balance, placed>>
    BY <1>5, <2>0, RunningRequest DEF AssignDriver, vars
  <2>2. /\ row \in Order /\ row.buyer = order[o].buyer /\ row.redeemed = order[o].redeemed
        /\ row.updatedAt = order[o].updatedAt
    BY <2>1 DEF Order
  <2> HIDE DEF row
  <2> QED
    BY <1>2, <2>0, <2>1, <2>2
<1>6. ASSUME NEW o \in Orders, TouchOrder(o) PROVE BalanceInv'
  <2>1. /\ o \in placed /\ Written(o, order[o]) /\ order[o] \in Order
        /\ UNCHANGED <<points, balance, placed>>
    BY <1>0, <1>6 DEF TouchOrder, vars, OrdersTypeOK
  <2> QED
    BY <2>1, BuyersKept, BalanceUntouched
<1>7. CASE StockStep
  BY <1>1, <1>7, StockStepHolds DEF OrdersIInv, StockStep, orderVars
<1>8. CASE ReadStep
  BY <1>1, <1>8 DEF ReadStep, ReadForStatus, ReadForCancel, ReadForDriver, Read, vars
<1>9. CASE CommitStep
  <2>1. ASSUME NEW r \in Requests, AbortRequest(r) PROVE BalanceInv'
    BY <1>1, <2>1 DEF AbortRequest, vars
  <2> QED
    BY <1>3, <1>4, <1>5, <1>6, <1>9, <2>1 DEF CommitStep
<1>10. CASE UNCHANGED allVars
  BY <1>1, <1>10 DEF allVars, vars, orderVars
<1> QED
  BY <1>7, <1>8, <1>9, <1>10, BalanceRedeemed DEF OrdersNext

(* What a customer has is what the points ledger says, for any number of   *)
(* orders, requests, retries and prices.                                   *)
THEOREM BalancesAlwaysReconcile == OrdersSpec => []BalanceReconciles
<1>1. OrdersInit => BalanceInv
  <2> SUFFICES ASSUME OrdersInit, NEW c \in Customers
               PROVE  /\ \A type \in PointType : IsFiniteSet(PointUnits(c, type))
                      /\ balance[c] = Saved[c] + Cardinality(PointUnits(c, "EARNED"))
                                               + Cardinality(PointUnits(c, "RESTORED"))
                                               - Cardinality(PointUnits(c, "REDEEMED"))
    BY DEF BalanceInv, UnitsCounted, BalanceReconciles
  <2>1. \A type : PointUnits(c, type) = {}
    BY DEF OrdersInit, Init, PointUnits
  <2>2. balance[c] = Saved[c] /\ Saved[c] \in Nat
    BY CustomersAssumption DEF OrdersInit
  <2>3. IsFiniteSet({}) /\ Cardinality({}) = 0
    BY FS_EmptySet
  <2>4. \A type : IsFiniteSet(PointUnits(c, type)) /\ Cardinality(PointUnits(c, type)) = 0
    BY <2>1, <2>3
  <2> HIDE DEF PointUnits
  <2> QED
    BY <2>2, <2>4
<1>2. BalanceInv => BalanceReconciles
  BY DEF BalanceInv
<1> QED
  BY <1>1, <1>2, OrdersInvariance, BalanceInductive, PTL DEF OrdersSpec, allVars
=============================================================================
