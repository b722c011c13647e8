------------------------------ MODULE Checkout ------------------------------
(***************************************************************************)
(* Overlapping checkouts of one store, statement by statement:             *)
(* createGuestOrder and its transaction (src/storefront) with              *)
(* reserveForOrder (src/inventory), on a database that runs transactions   *)
(* at READ COMMITTED with row locks, unique indexes and a deadlock         *)
(* detector.                                                               *)
(*                                                                         *)
(* An uncommitted transaction keeps what it locked (held) and what it      *)
(* wrote (took, made); the tables change when it commits.  A client that   *)
(* got no answer calls again with the same clientRequestId: two attempts   *)
(* with the same key.                                                      *)
(***************************************************************************)
EXTENDS Integers, Sequences, FiniteSets

CONSTANTS Attempts,  \* calls of createGuestOrder
          Keys,      \* client request ids
          Key,       \* Key[a]: the one a was called with
          Lines,     \* products without variants, and variants
          Base,      \* Base[l]: the product of l
          Cart,      \* Cart[k]: the stock lines of the order, a unit each
          Cost,      \* Cost[k]: points redeemed, 0 for none
          Tracked,   \* lines that have an InventoryItem row from the start
          Unique,    \* lines whose row the unique index covers: variants
          MaxStock,  \* bound: the stock of a line at the start
          Saved,     \* bound: the customer's points at the start
          Seed       \* the maker of the rows of Tracked

ASSUME CheckoutAssumption ==
  /\ Key \in [Attempts -> Keys] /\ Base \in [Lines -> Lines]
  /\ Cart \in [Keys -> Seq(Lines)] /\ Cost \in [Keys -> Nat]
  /\ Tracked \subseteq Lines /\ Unique \subseteq Lines
  /\ MaxStock \in Nat /\ Saved \in Nat /\ Seed \notin Attempts

VARIABLES
  orders,     \* attempts whose order is in the table
  stock,      \* Product.stock and ProductVariant.stock
  rows,       \* rows[l]: InventoryItem rows of l, each named by its maker
  available,  \* available[l][m]: their column
  points,     \* User.loyaltyPoints
  at,         \* at[a]: the next statement of a
  held,       \* held[a]: what the transaction of a has locked
  took,       \* took[a]: the rows it has reserved a unit of, in cart order
  made,       \* made[a]: lines it has inserted a row for
  opening,    \* opening[a][l]: the stock it read for that row
  answer      \* answer[a]: the order a has returned

tables == <<orders, stock, rows, available, points>>
tx     == <<held, took, made, opening>>
vars   == <<tables, at, tx, answer>>

Makers  == Attempts \cup {Seed}
Nothing == "nothing"

cart(a) == Cart[Key[a]]

(* What a statement locks until the transaction ends.                      *)
OrderKey(k) == <<"order", k>>
User        == <<"user", "points">>
NewRow(l)   == <<"new", l>>
Row(l, m)   == <<"row", l, m>>
Product(p)  == <<"product", p>>
Resources ==
  {OrderKey(k) : k \in Keys} \cup {User} \cup {NewRow(l) : l \in Unique}
    \cup {Row(l, m) : l \in Lines, m \in Makers} \cup {Product(p) : p \in Lines}

Init ==
  /\ orders = {} /\ points \in 0..Saved
  /\ stock \in [Lines -> 0..MaxStock]
  /\ rows = [l \in Lines |-> IF l \in Tracked THEN {Seed} ELSE {}]
  /\ available = [l \in Lines |-> [m \in Makers |-> IF m = Seed THEN stock[l] ELSE 0]]
  /\ at = [a \in Attempts |-> "idle"]
  /\ held = [a \in Attempts |-> {}]
  /\ took = [a \in Attempts |-> <<>>]
  /\ made = [a \in Attempts |-> {}]
  /\ opening = [a \in Attempts |-> [l \in Lines |-> 0]]
  /\ answer = [a \in Attempts |-> Nothing]

-----------------------------------------------------------------------------
Goto(a, s) == at' = [at EXCEPT ![a] = s]

Answer(a, b) == Goto(a, "answered") /\ answer' = [answer EXCEPT ![a] = b]

(* A lock is granted when no other transaction has it.                     *)
Free(a, r) == \A b \in Attempts \ {a} : r \notin held[b]
Lock(a, r) == Free(a, r) /\ held' = [held EXCEPT ![a] = @ \cup {r}]

(* The transaction ends: its locks go, and what it wrote is forgotten.     *)
Finish(a) ==
  /\ held' = [held EXCEPT ![a] = {}]
  /\ took' = [took EXCEPT ![a] = <<>>]
  /\ made' = [made EXCEPT ![a] = {}]
  /\ UNCHANGED opening

Rollback(a, s) == Finish(a) /\ Goto(a, s) /\ UNCHANGED <<tables, answer>>

Placed(k) == {b \in orders : Key[b] = k}

-----------------------------------------------------------------------------
(* Before the transaction.                                                 *)

(* A request whose order exists is answered with it.                       *)
Dedupe(a) ==
  /\ at[a] = "idle"
  /\ \/ \E b \in Placed(Key[a]) : Answer(a, b)
     \/ Placed(Key[a]) = {} /\ Goto(a, "check") /\ UNCHANGED answer
  /\ UNCHANGED <<tables, tx>>

(* Each line is compared with the stock the shop shows.                    *)
CheckStock(a) ==
  /\ at[a] = "check"
  /\ Goto(a, IF \A i \in DOMAIN cart(a) : stock[cart(a)[i]] >= 1 THEN "insert" ELSE "failed")
  /\ UNCHANGED <<tables, tx, answer>>

-----------------------------------------------------------------------------
(* createOrderTransaction.                                                 *)

(* Mutant: an insert that meets an uncommitted one of its key does not wait*)
(* for its outcome.                                                        *)
InsertWithoutWaiting(a) ==
  /\ at[a] = "insert"
  /\ IF Free(a, OrderKey(Key[a])) /\ Placed(Key[a]) = {}
     THEN /\ Lock(a, OrderKey(Key[a]))
          /\ Goto(a, IF Cost[Key[a]] > 0 THEN "points" ELSE "items")
          /\ UNCHANGED <<tables, took, made, opening, answer>>
     ELSE Rollback(a, "conflict")

(* order.create: waits for another insert of the key, and fails with P2002 *)
(* if that one has committed.                                              *)
InsertOrder(a) ==
  /\ at[a] = "insert"
  /\ Free(a, OrderKey(Key[a]))
  /\ IF Placed(Key[a]) = {}
     THEN /\ Lock(a, OrderKey(Key[a]))
          /\ Goto(a, IF Cost[Key[a]] > 0 THEN "points" ELSE "items")
          /\ UNCHANGED <<tables, took, made, opening, answer>>
     ELSE Rollback(a, "conflict")

(* Mutant: the points are deducted whatever the balance. *)
DeductUnchecked(a) ==
  /\ at[a] = "points"
  /\ Lock(a, User) /\ Goto(a, "items")
  /\ UNCHANGED <<tables, took, made, opening, answer>>

(* user.updateMany with loyaltyPoints >= the price, or the order fails.    *)
DeductPoints(a) ==
  /\ at[a] = "points"
  /\ Free(a, User)
  /\ IF points >= Cost[Key[a]]
     THEN /\ Lock(a, User) /\ Goto(a, "items")
          /\ UNCHANGED <<tables, took, made, opening, answer>>
     ELSE Rollback(a, "failed")

Working(a) == at[a] \in {"items", "created"} /\ Len(took[a]) < Len(cart(a))
Current(a) == cart(a)[Len(took[a]) + 1]

(* The rows of l that a's statements see: committed ones and its own.      *)
Visible(a, l) == rows[l] \cup (IF l \in made[a] THEN {a} ELSE {})

(* The row it goes on with: the one it has just created, or whichever of   *)
(* them findFirst returns.                                                 *)
Found(a) == IF at[a] = "created" THEN {a} ELSE Visible(a, Current(a))

(* getOrCreateInventoryItem, when no row is found: it reads the stock      *)
(* cache, and inserts a row that opens with what it read.                  *)
FindNone(a) ==
  /\ Working(a)
  /\ Visible(a, Current(a)) = {}
  /\ Goto(a, "open")
  /\ UNCHANGED <<tables, tx, answer>>

ReadOpening(a) ==
  /\ at[a] = "open"
  /\ opening' = [opening EXCEPT ![a][Current(a)] = stock[Current(a)]]
  /\ Goto(a, "create")
  /\ UNCHANGED <<tables, held, took, made, answer>>

CreateRow(a) ==
  LET l == Current(a) IN
  /\ at[a] = "create"
  /\ l \in Unique => Free(a, NewRow(l))
  /\ IF l \in Unique /\ rows[l] # {}
     THEN Rollback(a, "conflict")
     ELSE /\ made' = [made EXCEPT ![a] = @ \cup {l}]
          /\ held' = [held EXCEPT ![a] = @ \cup (IF l \in Unique THEN {NewRow(l)} ELSE {})]
          /\ Goto(a, "created")
          /\ UNCHANGED <<tables, took, opening, answer>>

(* The units of row m of l that a has reserved so far, and what it sees    *)
(* left of the row.                                                        *)
Reserved(a, l, m) == Cardinality({i \in DOMAIN took[a] : cart(a)[i] = l /\ took[a][i] = m})
Left(a, l, m) ==
  (IF m \in rows[l] THEN available[l][m] ELSE opening[a][l]) - Reserved(a, l, m)

(* Mutant: the row is not locked. *)
ReserveUnlocked(a) ==
  /\ Working(a)
  /\ \E m \in Found(a) :
       IF Left(a, Current(a), m) >= 1
       THEN /\ Goto(a, "product")
            /\ took' = [took EXCEPT ![a] = Append(@, m)]
            /\ UNCHANGED <<tables, held, made, opening, answer>>
       ELSE Rollback(a, "failed")

(* inventoryItem.updateMany with available >= 1, or the order fails.       *)
Reserve(a) ==
  /\ Working(a)
  /\ \E m \in Found(a) :
       /\ Free(a, Row(Current(a), m))
       /\ IF Left(a, Current(a), m) >= 1
          THEN /\ Lock(a, Row(Current(a), m)) /\ Goto(a, "product")
               /\ took' = [took EXCEPT ![a] = Append(@, m)]
               /\ UNCHANGED <<tables, made, opening, answer>>
          ELSE Rollback(a, "failed")

(* The stock and totalSold of the product (and the stock of the variant).  *)
UpdateProduct(a) ==
  /\ at[a] = "product"
  /\ Lock(a, Product(Base[cart(a)[Len(took[a])]]))
  /\ Goto(a, "items")
  /\ UNCHANGED <<tables, took, made, opening, answer>>

Units(k, l) == Cardinality({i \in DOMAIN Cart[k] : Cart[k][i] = l})

(* Everything written becomes visible, and the client gets its order.      *)
Commit(a) ==
  /\ at[a] = "items" /\ Len(took[a]) = Len(cart(a))
  /\ orders' = orders \cup {a}
  /\ stock' = [l \in Lines |-> stock[l] - Units(Key[a], l)]
  /\ rows' = [l \in Lines |-> Visible(a, l)]
  /\ available' = [l \in Lines |-> [m \in Makers |->
       IF m \in Visible(a, l) THEN Left(a, l, m) ELSE available[l][m]]]
  /\ points' = points - Cost[Key[a]]
  /\ Finish(a)
  /\ Answer(a, a)

-----------------------------------------------------------------------------
(* The catch block for P2002: the order of the key, if there is one.       *)
CatchConflict(a) ==
  /\ at[a] = "conflict"
  /\ \/ \E b \in Placed(Key[a]) : Answer(a, b)
     \/ Placed(Key[a]) = {} /\ Goto(a, "failed") /\ UNCHANGED answer
  /\ UNCHANGED <<tables, tx>>

(* A timeout, a lost connection, the end of the process.                   *)
Interrupt(a) ==
  /\ at[a] \notin {"idle", "answered", "failed"}
  /\ Rollback(a, "failed")

-----------------------------------------------------------------------------
(* What a's next statement has to wait for.                                *)
Wants(a) ==
  CASE at[a] = "insert"  -> {OrderKey(Key[a])}
    [] at[a] = "points"  -> {User}
    [] at[a] = "create"  -> {NewRow(Current(a))}
    [] at[a] = "product" -> {Product(Base[cart(a)[Len(took[a])]])}
    [] Working(a)        -> {Row(Current(a), m) : m \in Found(a)}
    [] OTHER             -> {}

WaitsFor(a, b) == b # a /\ Wants(a) # {} /\ Wants(a) \subseteq held[b]

(* Mutant: nobody looks for cycles of waiting transactions. *)
NoVictim(a) == FALSE /\ UNCHANGED vars

(* The database rolls back a transaction of a cycle.                       *)
Victim(a) ==
  /\ \E S \in SUBSET Attempts : a \in S /\ \A b \in S : \E c \in S : WaitsFor(b, c)
  /\ Rollback(a, "failed")

Step(a) ==
  \/ CheckStock(a) \/ InsertOrder(a) \/ DeductPoints(a)
  \/ FindNone(a) \/ ReadOpening(a) \/ CreateRow(a)
  \/ Reserve(a) \/ UpdateProduct(a) \/ Commit(a) \/ CatchConflict(a)

Next ==
  \E a \in Attempts : Dedupe(a) \/ Step(a) \/ Interrupt(a) \/ Victim(a)

(* The event loop and the database do something as long as a statement can *)
(* run or a cycle can be broken; which one first is up to them.            *)
Fairness == WF_vars(\E a \in Attempts : Step(a) \/ Victim(a))

Spec == Init /\ [][Next]_vars /\ Fairness

-----------------------------------------------------------------------------
Statements == {"idle", "check", "insert", "points", "items", "open", "create",
               "created", "product", "conflict", "answered", "failed"}

TypeOK ==
  /\ orders \subseteq Attempts
  /\ stock \in [Lines -> Int]
  /\ rows \in [Lines -> SUBSET Makers]
  /\ available \in [Lines -> [Makers -> Int]]
  /\ points \in 0..Saved
  /\ at \in [Attempts -> Statements]
  /\ held \in [Attempts -> SUBSET Resources]
  /\ took \in [Attempts -> Seq(Makers)]
  /\ made \in [Attempts -> SUBSET Lines]
  /\ opening \in [Attempts -> [Lines -> Int]]
  /\ answer \in [Attempts -> Attempts \cup {Nothing}]

(* However often a request is retried and however its attempts overlap.    *)

(* There is one order per client request id, every answer is that order.   *)
OncePerKey ==
  /\ \A a, b \in orders : Key[a] = Key[b] => a = b
  /\ \A a \in Attempts : at[a] = "answered" =>
       answer[a] \in orders /\ Key[answer[a]] = Key[a]

(* An attempt that loses the race for its key finds the winner's order     *)
(* when it looks for it; a conflict of another kind, two first rows of a   *)
(* variant, is the only one that may come back with nothing.               *)
LoserGetsOrder ==
  \A a \in Attempts : at[a] = "conflict" =>
    \/ Placed(Key[a]) # {}
    \/ \E i \in DOMAIN cart(a) : cart(a)[i] \in Unique \ Tracked /\ rows[cart(a)[i]] # {}

(* A retry and its first attempt end with one order between them, which    *)
(* the loser of the race can find to answer with.                          *)
OneOrderPerKey == OncePerKey /\ LoserGetsOrder

(* However the statements of checkouts interleave, each order is placed as *)
(* if alone: never for stock or points that are not there, never twice,    *)
(* never in part.                                                          *)
Atomic == INSTANCE AtomicCheckout WITH placed <- {Key[a] : a \in orders}
PlacedAtomically == Atomic!Spec

(* Every call is answered or fails: carts that name the same products in   *)
(* different orders do not leave their transactions waiting for each other.*)
Answered == \A a \in Attempts : at[a] = "check" ~> at[a] \in {"answered", "failed"}

-----------------------------------------------------------------------------
(* "exactly one code path (getOrCreateInventoryItem) ever creates the      *)
(* non-variant row" (schema.prisma), so that reserveForOrder "throws ...   *)
(* if not enough is available": what orders hold was there.                *)
DocReserved == \A l \in Lines : stock[l] >= 0
=============================================================================
