--------------------------- MODULE Checkout_proofs ---------------------------
(***************************************************************************)
(* Overlapping checkouts for any number of calls, requests, lines and any  *)
(* carts: one order per request (IInv), and, where the inventory row of    *)
(* every line exists or is covered by the unique index, tables that change *)
(* as if orders were placed one at a time (AtomicInv).                     *)
(*                                                                         *)
(* All steps but Commit are local to an attempt.  What the others rely on  *)
(* when one commits is what they have locked (Exclusive).                  *)
(***************************************************************************)
EXTENDS Checkout, FiniteSetTheorems, TLAPS

InTx(a) == at[a] \in {"points", "items", "open", "create", "created", "product"}
Paid(a) == InTx(a) /\ at[a] # "points"

Exclusive == \A a, b \in Attempts : a # b => held[a] \cap held[b] = {}

(* What an open transaction may rely on, and where it is in its cart.      *)
TxInv(a) ==
  /\ InTx(a) => OrderKey(Key[a]) \in held[a] /\ Placed(Key[a]) = {}
  /\ Paid(a) /\ Cost[Key[a]] > 0 => User \in held[a] /\ points >= Cost[Key[a]]
  /\ at[a] \in {"open", "create", "created"} => Len(took[a]) < Len(cart(a))
  /\ at[a] = "product" => took[a] # <<>>
  /\ InTx(a) => Len(took[a]) <= Len(cart(a))
  /\ ~InTx(a) => held[a] = {} /\ took[a] = <<>> /\ made[a] = {}

AnswerInv(a) == at[a] = "answered" => answer[a] \in orders /\ Key[answer[a]] = Key[a]

OneOrder == \A a, b \in orders : Key[a] = Key[b] => a = b

(* Rows never vanish, so only lines without one at the start are opened.   *)
Opening(a) ==
  /\ at[a] \in {"open", "create"} => Current(a) \notin Tracked
  /\ at[a] = "conflict" =>
       \/ Placed(Key[a]) # {}
       \/ \E i \in DOMAIN cart(a) : cart(a)[i] \in Unique \ Tracked /\ rows[cart(a)[i]] # {}

IInv ==
  /\ TypeOK /\ Exclusive /\ OneOrder
  /\ \A l \in Tracked : rows[l] # {}
  /\ \A a \in Attempts : TxInv(a) /\ AnswerInv(a) /\ Opening(a)

-----------------------------------------------------------------------------
LEMMA CartType == ASSUME NEW a \in Attempts PROVE cart(a) \in Seq(Lines) /\ Key[a] \in Keys /\ Cost[Key[a]] \in Nat
BY CheckoutAssumption DEF cart

(* The state of the other attempts, and with it all that is said of them,  *)
(* survives a local step.                                                  *)
Untouched(b) ==
  /\ UNCHANGED tables
  /\ at'[b] = at[b] /\ held'[b] = held[b] /\ took'[b] = took[b]
  /\ made'[b] = made[b] /\ opening'[b] = opening[b] /\ answer'[b] = answer[b]

(* Every action but Commit is local to its attempt.                        *)
Local(a) == UNCHANGED tables /\ \A b \in Attempts \ {a} : Untouched(b)

LEMMA UntouchedInv ==
  ASSUME NEW b \in Attempts, Untouched(b), TxInv(b), AnswerInv(b), Opening(b)
  PROVE  TxInv(b)' /\ AnswerInv(b)' /\ Opening(b)'
<1>1. InTx(b)' <=> InTx(b)
  BY DEF InTx, Untouched
<1>2. Paid(b)' <=> Paid(b)
  BY <1>1 DEF Paid, Untouched
<1>3. Placed(Key[b])' = Placed(Key[b]) /\ points' = points /\ rows' = rows /\ orders' = orders
  BY DEF Placed, Untouched, tables
<1>4. TxInv(b)'
  BY <1>1, <1>2, <1>3 DEF TxInv, Untouched, cart, OrderKey, User
<1>5. AnswerInv(b)'
  BY <1>3 DEF AnswerInv, Untouched
<1>6. Opening(b)'
  BY <1>3 DEF Opening, Untouched, Current, cart
<1> QED
  BY <1>4, <1>5, <1>6

(* Locks stay exclusive when an attempt takes only free ones.              *)
LEMMA StillExclusive ==
  ASSUME NEW a \in Attempts, Exclusive, Local(a),
         \A r \in held'[a] \ held[a] : Free(a, r)
  PROVE  Exclusive'
<1> SUFFICES ASSUME NEW x \in Attempts, NEW y \in Attempts, x # y, NEW r, r \in held'[x], r \in held'[y]
             PROVE  FALSE
  BY DEF Exclusive
<1>1. \A z \in Attempts : z # a => held'[z] = held[z]
  BY DEF Local, Untouched
<1> QED
  BY <1>1 DEF Exclusive, Free

(* A local step keeps the invariant if it keeps it for its own attempt.    *)
LEMMA LocalInv ==
  ASSUME NEW a \in Attempts, IInv, Local(a), TypeOK',
         \A r \in held'[a] \ held[a] : Free(a, r),
         TxInv(a)' /\ AnswerInv(a)' /\ Opening(a)'
  PROVE  IInv'
<1> USE DEF IInv
<1>1. Exclusive'
  BY StillExclusive
<1>2. OneOrder' /\ \A l \in Tracked : rows'[l] # {}
  BY DEF Local, tables, OneOrder
<1>3. ASSUME NEW b \in Attempts, b # a
      PROVE  TxInv(b)' /\ AnswerInv(b)' /\ Opening(b)'
  BY <1>3, UntouchedInv DEF Local
<1> QED
  BY <1>1, <1>2, <1>3

-----------------------------------------------------------------------------
LEMMA InitInv == Init => IInv
<1> SUFFICES ASSUME Init PROVE IInv
  OBVIOUS
<1> USE CheckoutAssumption DEF Init
<1>1. TypeOK
  BY DEF TypeOK, Statements, Makers
<1>2. Exclusive /\ OneOrder /\ \A l \in Tracked : rows[l] # {}
  BY DEF Exclusive, OneOrder
<1>3. ASSUME NEW a \in Attempts PROVE TxInv(a) /\ AnswerInv(a) /\ Opening(a)
  BY DEF TxInv, AnswerInv, Opening, InTx, Paid
<1> QED
  BY <1>1, <1>2, <1>3 DEF IInv

(* A rollback leaves nothing that could break the invariant.               *)
LEMMA RollbackInv ==
  ASSUME NEW a \in Attempts, NEW s \in {"failed", "conflict"}, IInv, Rollback(a, s),
         s = "conflict" =>
           \/ Placed(Key[a]) # {}
           \/ \E i \in DOMAIN cart(a) : cart(a)[i] \in Unique \ Tracked /\ rows[cart(a)[i]] # {}
  PROVE  IInv'
<1> USE DEF Rollback, Finish, Goto
<1>1. TypeOK'
  BY DEF IInv, TypeOK, tables, Statements
<1>2. at'[a] = s /\ held'[a] = {} /\ took'[a] = <<>> /\ made'[a] = {}
  BY DEF IInv, TypeOK
<1>3. Local(a)
  BY DEF Local, Untouched, IInv, TypeOK
<1>4. TxInv(a)' /\ AnswerInv(a)'
  BY <1>2 DEF TxInv, AnswerInv, InTx, Paid
<1>5. Opening(a)'
  BY <1>2 DEF Opening, tables, Placed, cart
<1> QED
  BY <1>1, <1>2, <1>3, <1>4, <1>5, LocalInv

(* Before and after the transaction only the place and the answer change.  *)
LEMMA OutsideInv ==
  ASSUME NEW a \in Attempts, IInv,
         Dedupe(a) \/ CheckStock(a) \/ CatchConflict(a)
  PROVE  IInv'
<1>1. PICK s \in {"check", "insert", "failed", "answered"} : Goto(a, s)
  BY DEF Dedupe, CheckStock, CatchConflict, Answer
<1>2. UNCHANGED <<tables, tx>>
  BY DEF Dedupe, CheckStock, CatchConflict
<1>3. PICK x \in Attempts \cup {Nothing} :
         answer' = [answer EXCEPT ![a] = x] /\ (s = "answered" => x \in Placed(Key[a]))
  <2>1. answer' = answer => answer' = [answer EXCEPT ![a] = answer[a]]
    BY DEF IInv, TypeOK
  <2>2. s = "answered" => answer' # answer \/ \E b \in Placed(Key[a]) : answer' = [answer EXCEPT ![a] = b]
    BY <1>1 DEF Dedupe, CheckStock, CatchConflict, Answer, Goto, IInv, TypeOK
  <2>3. CASE answer' = answer /\ s # "answered"
    BY <2>1, <2>3 DEF IInv, TypeOK
  <2>4. CASE \E b \in Placed(Key[a]) : answer' = [answer EXCEPT ![a] = b]
    BY <2>4 DEF Placed, IInv, TypeOK
  <2> QED
    BY <2>2, <2>3, <2>4, <1>1 DEF Dedupe, CheckStock, CatchConflict, Answer
<1>4. at'[a] = s /\ answer'[a] = x /\ held'[a] = {} /\ took'[a] = <<>> /\ made'[a] = {}
  <2>1. ~InTx(a)
    BY DEF Dedupe, CheckStock, CatchConflict, InTx
  <2> QED
    BY <1>1, <1>2, <1>3, <2>1 DEF IInv, TypeOK, TxInv, Goto, tx
<1>5. TypeOK'
  BY <1>1, <1>2, <1>3 DEF IInv, TypeOK, tables, tx, Goto, Statements
<1>6. Local(a)
  BY <1>1, <1>2, <1>3 DEF Local, Untouched, IInv, TypeOK, Goto, tx
<1>7. TxInv(a)' /\ AnswerInv(a)' /\ Opening(a)'
  BY <1>2, <1>3, <1>4 DEF TxInv, AnswerInv, Opening, InTx, Paid, Placed, tables
<1> QED
  BY <1>4, <1>5, <1>6, <1>7, LocalInv

LEMMA InsertInv == ASSUME NEW a \in Attempts, IInv, InsertOrder(a) PROVE IInv'
<1>1. CASE Placed(Key[a]) # {}
  BY <1>1, RollbackInv DEF InsertOrder
<1>2. CASE Placed(Key[a]) = {}
  <2> DEFINE s == IF Cost[Key[a]] > 0 THEN "points" ELSE "items"
  <2>1. /\ Free(a, OrderKey(Key[a])) /\ held' = [held EXCEPT ![a] = @ \cup {OrderKey(Key[a])}]
        /\ at' = [at EXCEPT ![a] = s] /\ UNCHANGED <<tables, took, made, opening, answer>>
    BY <1>2 DEF InsertOrder, Lock, Goto
  <2>2. at'[a] = s /\ held'[a] = held[a] \cup {OrderKey(Key[a])} /\ took'[a] = <<>> /\ made'[a] = {}
    <3>1. ~InTx(a)
      BY DEF InsertOrder, InTx
    <3> QED
      BY <2>1, <3>1 DEF IInv, TypeOK, TxInv
  <2>3. TypeOK'
    <3>1. OrderKey(Key[a]) \in Resources
      BY CartType DEF Resources
    <3> QED
      BY <2>1, <3>1 DEF IInv, TypeOK, tables, Statements
  <2>4. Local(a)
    BY <2>1 DEF Local, Untouched, IInv, TypeOK
  <2>5. cart(a) \in Seq(Lines) /\ Len(<<>>) <= Len(cart(a)) /\ Cost[Key[a]] \in Nat
    BY CartType
  <2>6. TxInv(a)'
    BY <1>2, <2>1, <2>2, <2>5 DEF TxInv, InTx, Paid, Placed, tables, cart
  <2>7. AnswerInv(a)' /\ Opening(a)'
    BY <2>2 DEF AnswerInv, Opening
  <2> QED
    BY <2>1, <2>2, <2>3, <2>4, <2>6, <2>7, LocalInv
<1> QED
  BY <1>1, <1>2

LEMMA PointsInv == ASSUME NEW a \in Attempts, IInv, DeductPoints(a) PROVE IInv'
<1>1. CASE ~(points >= Cost[Key[a]])
  BY <1>1, RollbackInv DEF DeductPoints
<1>2. CASE points >= Cost[Key[a]]
  <2>1. /\ Free(a, User) /\ held' = [held EXCEPT ![a] = @ \cup {User}]
        /\ at' = [at EXCEPT ![a] = "items"] /\ UNCHANGED <<tables, took, made, opening, answer>>
    BY <1>2 DEF DeductPoints, Lock, Goto
  <2>2. at'[a] = "items" /\ held'[a] = held[a] \cup {User} /\ took'[a] = took[a] /\ made'[a] = made[a]
    BY <2>1 DEF IInv, TypeOK
  <2>3. TypeOK'
    <3>1. User \in Resources
      BY DEF Resources
    <3> QED
      BY <2>1, <3>1 DEF IInv, TypeOK, tables, Statements
  <2>4. Local(a)
    BY <2>1 DEF Local, Untouched, IInv, TypeOK
  <2>5. InTx(a)
    BY DEF DeductPoints, InTx
  <2>6. TxInv(a)'
    BY <1>2, <2>1, <2>2, <2>5 DEF TxInv, InTx, Paid, Placed, tables, cart, IInv
  <2>7. AnswerInv(a)' /\ Opening(a)'
    BY <2>2 DEF AnswerInv, Opening
  <2> QED
    BY <2>1, <2>2, <2>3, <2>4, <2>6, <2>7, LocalInv
<1> QED
  BY <1>1, <1>2

LEMMA CurrentType ==
  ASSUME NEW a \in Attempts, IInv, Len(took[a]) < Len(cart(a))
  PROVE  /\ Len(took[a]) + 1 \in DOMAIN cart(a)
         /\ Current(a) = cart(a)[Len(took[a]) + 1] /\ Current(a) \in Lines
BY CartType DEF Current, IInv, TypeOK

LEMMA OpenInv ==
  ASSUME NEW a \in Attempts, IInv, FindNone(a) \/ ReadOpening(a)
  PROVE  IInv'
<1>1. PICK s \in {"open", "create"} : Goto(a, s)
  BY DEF FindNone, ReadOpening
<1>2. UNCHANGED <<tables, held, took, made, answer>>
  BY DEF FindNone, ReadOpening, tx
<1>3. Len(took[a]) < Len(cart(a)) /\ Paid(a)
  BY DEF FindNone, ReadOpening, Working, IInv, TxInv, Paid, InTx
<1>4. Current(a) \in Lines \ Tracked
  BY <1>3, CurrentType DEF FindNone, ReadOpening, IInv, Opening, Visible
<1>5. TypeOK'
  <2>1. opening' \in [Attempts -> [Lines -> Int]]
    <3>1. CASE FindNone(a)
      BY <3>1 DEF FindNone, IInv, TypeOK, tx
    <3>2. CASE ReadOpening(a)
      <4> DEFINE l == Current(a)
      <4>1. opening' = [opening EXCEPT ![a][l] = stock[l]]
        BY <3>2 DEF ReadOpening
      <4>2. l \in Lines /\ stock[l] \in Int
        BY <1>4 DEF IInv, TypeOK
      <4> HIDE DEF l
      <4> QED
        BY <4>1, <4>2 DEF IInv, TypeOK
    <3> QED
      BY <3>1, <3>2
  <2> QED
    BY <1>1, <1>2, <2>1 DEF IInv, TypeOK, tables, Goto, Statements
<1>6. Local(a)
  BY <1>1, <1>2 DEF Local, Untouched, IInv, TypeOK, Goto, FindNone, ReadOpening, tx
<1>7. at'[a] = s /\ Current(a)' = Current(a) /\ UNCHANGED <<held[a], took[a], made[a], cart(a)>>
  BY <1>1, <1>2 DEF IInv, TypeOK, Goto, Current, cart
<1>8. TxInv(a)'
  BY <1>2, <1>3, <1>7 DEF TxInv, InTx, Paid, Placed, tables, IInv
<1>9. AnswerInv(a)' /\ Opening(a)'
  BY <1>4, <1>7 DEF AnswerInv, Opening
<1> QED
  BY <1>5, <1>6, <1>7, <1>8, <1>9, LocalInv

LEMMA CreateInv == ASSUME NEW a \in Attempts, IInv, CreateRow(a) PROVE IInv'
<1> DEFINE l == Current(a)
<1>1. Len(took[a]) < Len(cart(a)) /\ Paid(a) /\ l \notin Tracked
  BY DEF CreateRow, IInv, TxInv, Paid, InTx, Opening
<1>2. l = cart(a)[Len(took[a]) + 1] /\ l \in Lines /\ Len(took[a]) + 1 \in DOMAIN cart(a)
  BY <1>1, CurrentType
<1>3. CASE l \in Unique /\ rows[l] # {}
  <2>1. Rollback(a, "conflict")
    BY <1>3 DEF CreateRow
  <2> QED
    BY <1>1, <1>2, <1>3, <2>1, RollbackInv
<1>4. CASE ~(l \in Unique /\ rows[l] # {})
  <2> DEFINE h == IF l \in Unique THEN {NewRow(l)} ELSE {}
  <2>1. /\ l \in Unique => Free(a, NewRow(l))
        /\ held' = [held EXCEPT ![a] = @ \cup h] /\ made' = [made EXCEPT ![a] = @ \cup {l}]
        /\ at' = [at EXCEPT ![a] = "created"] /\ UNCHANGED <<tables, took, opening, answer>>
    BY <1>4 DEF CreateRow, Goto
  <2>2. at'[a] = "created" /\ held'[a] = held[a] \cup h /\ UNCHANGED <<took[a], cart(a)>>
    BY <2>1 DEF IInv, TypeOK, cart
  <2>3. TypeOK'
    <3>1. h \subseteq Resources
      BY DEF Resources
    <3>2. l \in Lines
      BY <1>2
    <3> HIDE DEF l, h
    <3> QED
      BY <2>1, <3>1, <3>2 DEF IInv, TypeOK, tables, Statements
  <2>4. Local(a)
    <3> HIDE DEF l, h
    <3> QED
      BY <2>1 DEF Local, Untouched, IInv, TypeOK
  <2>6. TxInv(a)'
    <3> HIDE DEF l, h
    <3> QED
      BY <1>1, <2>1, <2>2 DEF TxInv, InTx, Paid, Placed, tables, IInv
  <2>7. AnswerInv(a)' /\ Opening(a)'
    BY <2>2 DEF AnswerInv, Opening
  <2>8. \A r \in held'[a] \ held[a] : Free(a, r)
    BY <2>1, <2>2
  <2> QED
    BY <2>3, <2>4, <2>6, <2>7, <2>8, LocalInv
<1> QED
  BY <1>3, <1>4

(* A row that is seen has a maker.                                         *)
LEMMA FoundType ==
  ASSUME NEW a \in Attempts, IInv, Len(took[a]) < Len(cart(a))
  PROVE  /\ Found(a) \subseteq Makers /\ Visible(a, Current(a)) \subseteq Makers
         /\ Current(a) \in Lines
<1>1. Current(a) \in Lines
  BY CurrentType
<1> QED
  BY <1>1 DEF Found, Visible, IInv, TypeOK, Makers

LEMMA ReserveInv == ASSUME NEW a \in Attempts, IInv, Reserve(a) PROVE IInv'
<1> DEFINE l == Current(a)
<1>1. Len(took[a]) < Len(cart(a)) /\ Paid(a)
  BY DEF Reserve, Working, Paid, InTx
<1>2. PICK m \in Found(a) :
       /\ Free(a, Row(l, m))
       /\ IF Left(a, l, m) >= 1
          THEN /\ Lock(a, Row(l, m)) /\ Goto(a, "product")
               /\ took' = [took EXCEPT ![a] = Append(@, m)]
               /\ UNCHANGED <<tables, made, opening, answer>>
          ELSE Rollback(a, "failed")
  BY DEF Reserve
<1>3. m \in Makers /\ l \in Lines
  BY <1>1, <1>2, FoundType
<1> HIDE DEF l
<1>4. CASE ~(Left(a, l, m) >= 1)
  BY <1>2, <1>4, RollbackInv
<1>5. CASE Left(a, l, m) >= 1
  <2>1. /\ held' = [held EXCEPT ![a] = @ \cup {Row(l, m)}] /\ at' = [at EXCEPT ![a] = "product"]
        /\ took' = [took EXCEPT ![a] = Append(@, m)] /\ UNCHANGED <<tables, made, opening, answer>>
    BY <1>2, <1>5 DEF Lock, Goto
  <2>2. at'[a] = "product" /\ held'[a] = held[a] \cup {Row(l, m)} /\ UNCHANGED cart(a)
        /\ took'[a] = Append(took[a], m)
    BY <2>1 DEF IInv, TypeOK, cart
  <2>3. took[a] \in Seq(Makers) /\ cart(a) \in Seq(Lines)
    BY CartType DEF IInv, TypeOK
  <2>4. TypeOK'
    <3>1. Row(l, m) \in Resources
      BY <1>3 DEF Resources
    <3>2. Append(took[a], m) \in Seq(Makers)
      BY <1>3, <2>3
    <3> QED
      BY <2>1, <3>1, <3>2 DEF IInv, TypeOK, tables, Statements
  <2>5. Local(a)
    BY <2>1 DEF Local, Untouched, IInv, TypeOK
  <2>6. TxInv(a)'
    <3>1. Len(took'[a]) = Len(took[a]) + 1 /\ took'[a] # <<>>
      BY <1>3, <2>2, <2>3
    <3>2. Len(took'[a]) <= Len(cart(a))
      BY <3>1, <1>1, <2>3
    <3> QED
      BY <1>1, <2>1, <2>2, <3>1, <3>2 DEF TxInv, InTx, Paid, Placed, tables, IInv
  <2>7. AnswerInv(a)' /\ Opening(a)'
    BY <2>2 DEF AnswerInv, Opening
  <2>8. \A r \in held'[a] \ held[a] : Free(a, r)
    BY <1>2, <2>2
  <2> QED
    BY <2>4, <2>5, <2>6, <2>7, <2>8, LocalInv
<1> QED
  BY <1>4, <1>5

LEMMA UpdateInv == ASSUME NEW a \in Attempts, IInv, UpdateProduct(a) PROVE IInv'
<1> DEFINE r == Product(Base[cart(a)[Len(took[a])]])
<1>1. /\ Free(a, r) /\ held' = [held EXCEPT ![a] = @ \cup {r}] /\ at' = [at EXCEPT ![a] = "items"]
      /\ UNCHANGED <<tables, took, made, opening, answer>> /\ at[a] = "product"
  BY DEF UpdateProduct, Lock, Goto
<1>2. Paid(a) /\ took[a] # <<>> /\ Len(took[a]) <= Len(cart(a))
  BY <1>1 DEF Paid, InTx, IInv, TxInv
<1>3. r \in Resources
  <2>1. took[a] \in Seq(Makers) /\ cart(a) \in Seq(Lines)
    BY CartType DEF IInv, TypeOK
  <2>2. Len(took[a]) \in 1..Len(cart(a))
    BY <1>2, <2>1
  <2>3. cart(a)[Len(took[a])] \in Lines
    BY <2>1, <2>2
  <2> QED
    BY <2>3, CheckoutAssumption DEF Resources
<1> HIDE DEF r
<1>4. at'[a] = "items" /\ held'[a] = held[a] \cup {r} /\ UNCHANGED <<took[a], made[a], cart(a)>>
  BY <1>1 DEF IInv, TypeOK, cart
<1>5. TypeOK'
  BY <1>1, <1>3 DEF IInv, TypeOK, tables, Statements
<1>6. Local(a)
  BY <1>1 DEF Local, Untouched, IInv, TypeOK
<1>7. TxInv(a)'
  BY <1>1, <1>2, <1>4 DEF TxInv, InTx, Paid, Placed, tables, IInv
<1>8. AnswerInv(a)' /\ Opening(a)'
  BY <1>4 DEF AnswerInv, Opening
<1> QED
  BY <1>1, <1>4, <1>5, <1>6, <1>7, <1>8, LocalInv

(* What a commit does to the tables and to itself.                         *)
LEMMA CommitFacts ==
  ASSUME NEW a \in Attempts, IInv, Commit(a)
  PROVE  /\ InTx(a) /\ Placed(Key[a]) = {} /\ OrderKey(Key[a]) \in held[a]
         /\ points >= Cost[Key[a]] /\ points \in Nat
         /\ at'[a] = "answered" /\ answer'[a] = a
         /\ held'[a] = {} /\ took'[a] = <<>> /\ made'[a] = {}
         /\ \A b \in Attempts \ {a} :
              /\ at'[b] = at[b] /\ held'[b] = held[b] /\ took'[b] = took[b]
              /\ made'[b] = made[b] /\ opening'[b] = opening[b] /\ answer'[b] = answer[b]
<1>1. InTx(a) /\ Paid(a)
  BY DEF Commit, InTx, Paid
<1>2. points \in Nat /\ Cost[Key[a]] \in Nat /\ TxInv(a)
  BY CartType DEF IInv, TypeOK
<1>3. points >= Cost[Key[a]]
  BY <1>1, <1>2 DEF TxInv
<1> QED
  BY <1>1, <1>2, <1>3 DEF TxInv, Commit, Finish, Answer, Goto, IInv, TypeOK

LEMMA FiniteDomain == ASSUME NEW S, NEW s \in Seq(S) PROVE IsFiniteSet(DOMAIN s)
<1>1. Len(s) \in Int /\ DOMAIN s = 1..Len(s)
  OBVIOUS
<1>2. IsFiniteSet(1..Len(s))
  BY <1>1, FS_Interval
<1> QED
  BY <1>1, <1>2

LEMMA UnitsType == ASSUME NEW k \in Keys, NEW l PROVE Units(k, l) \in Nat
<1>1. Cart[k] \in Seq(Lines)
  BY CheckoutAssumption
<1>2. IsFiniteSet(DOMAIN Cart[k])
  BY <1>1, FiniteDomain
<1> QED
  BY <1>2, FS_Subset, FS_CardinalityType DEF Units

LEMMA ReservedType ==
  ASSUME NEW a \in Attempts, IInv, NEW l, NEW m
  PROVE  /\ IsFiniteSet({i \in DOMAIN took[a] : cart(a)[i] = l /\ took[a][i] = m})
         /\ Reserved(a, l, m) \in Nat
<1>1. took[a] \in Seq(Makers)
  BY DEF IInv, TypeOK
<1>2. IsFiniteSet(DOMAIN took[a])
  BY <1>1, FiniteDomain
<1> QED
  BY <1>2, FS_Subset, FS_CardinalityType DEF Reserved

LEMMA LeftType ==
  ASSUME NEW a \in Attempts, IInv, NEW l \in Lines, NEW m \in Makers
  PROVE  Left(a, l, m) \in Int
<1>1. available[l][m] \in Int /\ opening[a][l] \in Int
  BY DEF IInv, TypeOK
<1>2. Reserved(a, l, m) \in Nat
  BY ReservedType
<1> QED
  BY <1>1, <1>2 DEF Left

LEMMA CommitType == ASSUME NEW a \in Attempts, IInv, Commit(a) PROVE TypeOK'
<1> USE DEF Commit
<1>1. orders' \subseteq Attempts /\ rows' \in [Lines -> SUBSET Makers]
  BY DEF IInv, TypeOK, Visible, Makers
<1>2. stock' \in [Lines -> Int]
  BY UnitsType, CartType DEF IInv, TypeOK
<1>3. points' \in 0..Saved
  <2>1. points' = points - Cost[Key[a]] /\ points \in 0..Saved
    BY DEF IInv, TypeOK
  <2>2. points >= Cost[Key[a]] /\ Cost[Key[a]] \in Nat /\ Saved \in Nat
    BY CommitFacts, CartType, CheckoutAssumption
  <2> QED
    BY <2>1, <2>2
<1>4. \A l \in Lines, m \in Makers : Left(a, l, m) \in Int
  BY LeftType
<1>5. available' \in [Lines -> [Makers -> Int]]
  BY <1>4 DEF IInv, TypeOK
<1>6. /\ at' \in [Attempts -> Statements] /\ held' \in [Attempts -> SUBSET Resources]
      /\ took' \in [Attempts -> Seq(Makers)] /\ made' \in [Attempts -> SUBSET Lines]
      /\ opening' \in [Attempts -> [Lines -> Int]] /\ answer' \in [Attempts -> Attempts \cup {Nothing}]
  BY DEF IInv, TypeOK, Finish, Answer, Goto, Statements
<1> QED
  BY <1>1, <1>2, <1>3, <1>5, <1>6 DEF TypeOK

LEMMA CommitInv == ASSUME NEW a \in Attempts, IInv, Commit(a) PROVE IInv'
<1>1. orders' = orders \cup {a} /\ rows' = [l \in Lines |-> Visible(a, l)] /\ points' = points - Cost[Key[a]]
  BY DEF Commit
<1>2. Exclusive'
  BY CommitFacts DEF IInv, Exclusive
<1>3. OneOrder'
  BY <1>1, CommitFacts DEF IInv, OneOrder, Placed
<1>4. \A l \in Lines : rows[l] \subseteq rows'[l]
  BY <1>1 DEF Visible
<1>5. \A l \in Tracked : rows'[l] # {}
  BY <1>4, CheckoutAssumption DEF IInv
<1>6. TxInv(a)' /\ AnswerInv(a)' /\ Opening(a)'
  BY <1>1, CommitFacts DEF TxInv, AnswerInv, Opening, InTx, Paid
<1>7. ASSUME NEW b \in Attempts \ {a}
      PROVE  TxInv(b)' /\ AnswerInv(b)' /\ Opening(b)'
  <2>1. /\ at'[b] = at[b] /\ held'[b] = held[b] /\ took'[b] = took[b]
        /\ made'[b] = made[b] /\ answer'[b] = answer[b] /\ cart(b)' = cart(b)
    BY CommitFacts DEF cart
  <2>2. (InTx(b)' <=> InTx(b)) /\ (Paid(b)' <=> Paid(b))
    BY <2>1 DEF InTx, Paid
  <2>3. Placed(Key[b]) \subseteq Placed(Key[b])'
    BY <1>1 DEF Placed
  (* Whoever inserts an order for the same key waits for this one.         *)
  <2>4. InTx(b) => Placed(Key[b])' = {}
    <3> SUFFICES ASSUME InTx(b) PROVE Placed(Key[b])' = {}
      OBVIOUS
    <3>1. Placed(Key[b]) = {} /\ OrderKey(Key[b]) \in held[b]
      BY DEF IInv, TxInv
    <3>2. Key[b] # Key[a]
      BY <3>1, CommitFacts DEF IInv, Exclusive
    <3> QED
      BY <1>1, <3>1, <3>2 DEF Placed
  (* And whoever deducts points waits for those of this one.               *)
  <2>5. Paid(b) /\ Cost[Key[b]] > 0 => points' = points
    <3> SUFFICES ASSUME Paid(b), Cost[Key[b]] > 0 PROVE points' = points
      OBVIOUS
    <3>1. User \in held[b]
      BY DEF IInv, TxInv
    <3>2. Paid(a) /\ TxInv(a)
      BY DEF Commit, Paid, InTx, IInv
    <3>3. ~(Cost[Key[a]] > 0)
      BY <3>1, <3>2 DEF IInv, Exclusive, TxInv
    <3> QED
      BY <1>1, <3>3, CommitFacts, CartType
  <2>6. TxInv(b)'
    BY <2>1, <2>2, <2>4, <2>5 DEF TxInv, IInv
  <2>7. AnswerInv(b)'
    BY <1>1, <2>1 DEF AnswerInv, IInv
  <2>8. Opening(b)'
    <3>1. Current(b)' = Current(b)
      BY <2>1 DEF Current
    <3>2. ASSUME NEW i \in DOMAIN cart(b), rows[cart(b)[i]] # {}
          PROVE  rows'[cart(b)[i]] # {}
      <4>1. cart(b) \in Seq(Lines)
        BY CartType
      <4>2. cart(b)[i] \in Lines
        BY <4>1
      <4> QED
        BY <1>4, <3>2, <4>2
    <3> QED
      BY <2>1, <2>3, <3>1, <3>2 DEF Opening, IInv
  <2> QED
    BY <2>6, <2>7, <2>8
<1> QED
  BY <1>2, <1>3, <1>5, <1>6, <1>7, CommitType DEF IInv

-----------------------------------------------------------------------------
LEMMA NextInv == IInv /\ [Next]_vars => IInv'
<1> SUFFICES ASSUME IInv, [Next]_vars PROVE IInv'
  OBVIOUS
<1>1. CASE Next
  <2>1. PICK a \in Attempts : Dedupe(a) \/ Step(a) \/ Interrupt(a) \/ Victim(a)
    BY <1>1 DEF Next
  <2>2. CASE Dedupe(a) \/ CheckStock(a) \/ CatchConflict(a)
    BY <2>2, OutsideInv
  <2>3. CASE InsertOrder(a)
    BY <2>3, InsertInv
  <2>4. CASE DeductPoints(a)
    BY <2>4, PointsInv
  <2>5. CASE FindNone(a) \/ ReadOpening(a)
    BY <2>5, OpenInv
  <2>6. CASE CreateRow(a)
    BY <2>6, CreateInv
  <2>7. CASE Reserve(a)
    BY <2>7, ReserveInv
  <2>8. CASE UpdateProduct(a)
    BY <2>8, UpdateInv
  <2>9. CASE Commit(a)
    BY <2>9, CommitInv
  <2>10. CASE Interrupt(a) \/ Victim(a)
    BY <2>10, RollbackInv DEF Interrupt, Victim
  <2> QED
    BY <2>1, <2>2, <2>3, <2>4, <2>5, <2>6, <2>7, <2>8, <2>9, <2>10 DEF Step
<1>2. CASE UNCHANGED vars
  <2>1. TypeOK' /\ Exclusive' /\ OneOrder' /\ \A l \in Tracked : rows'[l] # {}
    BY <1>2 DEF IInv, vars, tables, tx, TypeOK, Exclusive, OneOrder
  <2>2. \A a \in Attempts : Untouched(a)
    BY <1>2 DEF vars, tables, tx, Untouched
  <2> QED
    BY <2>1, <2>2, UntouchedInv DEF IInv
<1> QED
  BY <1>1, <1>2

LEMMA AlwaysIInv == Spec => []IInv
BY InitInv, NextInv, PTL DEF Spec

(* The checkout keeps its types, and points never go below zero, for any   *)
(* number of overlapping calls.                                            *)
THEOREM CheckoutTypeCorrect == Spec => []TypeOK
<1>1. IInv => TypeOK
  BY DEF IInv
<1> QED
  BY <1>1, AlwaysIInv, PTL

(* One order per client request id, which is every attempt's answer; an    *)
(* attempt that meets P2002 because of its key finds it.                   *)
THEOREM AlwaysOneOrderPerKey == Spec => []OneOrderPerKey
<1>1. IInv => OncePerKey
  BY DEF IInv, OneOrder, AnswerInv, OncePerKey
<1>2. IInv => LoserGetsOrder
  BY DEF IInv, Opening, LoserGetsOrder
<1>3. IInv => OneOrderPerKey
  BY <1>1, <1>2 DEF OneOrderPerKey
<1> QED
  BY <1>3, AlwaysIInv, PTL

-----------------------------------------------------------------------------
(* Where every line has its row or is covered by the index, a line has one *)
(* row at most, whose column is what the shop shows; what a transaction    *)
(* has reserved is locked and there.                                       *)
Covered == Lines \subseteq Tracked \cup Unique

RowInv(l) ==
  /\ stock[l] >= 0
  /\ \A m, n \in rows[l] : m = n
  /\ \A m \in rows[l] : available[l][m] = stock[l]

WorkInv(a) ==
  /\ \A l \in made[a] :
       l \in Unique /\ NewRow(l) \in held[a] /\ rows[l] = {} /\ opening[a][l] = stock[l]
  /\ at[a] \in {"open", "create"} => Current(a) \notin made[a]
  /\ at[a] = "create" /\ rows[Current(a)] = {} => opening[a][Current(a)] = stock[Current(a)]
  /\ at[a] = "created" => Current(a) \in made[a]
  /\ \A i \in DOMAIN took[a] :
       /\ took[a][i] \in Visible(a, cart(a)[i])
       /\ Row(cart(a)[i], took[a][i]) \in held[a]
       /\ Left(a, cart(a)[i], took[a][i]) >= 0

RowsInv   == \A l \in Lines : RowInv(l)
AtomicInv == IInv /\ RowsInv /\ \A a \in Attempts : WorkInv(a)

LEMMA AtomicInit == Init => AtomicInv
<1> SUFFICES ASSUME Init PROVE AtomicInv
  OBVIOUS
<1>1. RowsInv
  BY CheckoutAssumption DEF Init, RowsInv, RowInv, Makers
<1>2. \A a \in Attempts : WorkInv(a)
  BY DEF Init, WorkInv
<1> QED
  BY <1>1, <1>2, InitInv DEF AtomicInv

LEMMA UntouchedWork ==
  ASSUME NEW b \in Attempts, Untouched(b), WorkInv(b)
  PROVE  WorkInv(b)'
<1>1. /\ cart(b)' = cart(b) /\ Current(b)' = Current(b)
      /\ rows' = rows /\ stock' = stock /\ available' = available
  BY DEF Untouched, cart, Current, tables
<1>2. \A l, m : Visible(b, l)' = Visible(b, l) /\ Left(b, l, m)' = Left(b, l, m)
  BY <1>1 DEF Untouched, Visible, Left, Reserved
<1> QED
  BY <1>1, <1>2 DEF WorkInv, Untouched

LEMMA LocalAtomic ==
  ASSUME NEW a \in Attempts, AtomicInv, Local(a), IInv', WorkInv(a)'
  PROVE  AtomicInv'
<1>1. RowsInv'
  BY DEF AtomicInv, RowsInv, RowInv, Local, tables
<1>2. ASSUME NEW b \in Attempts, b # a PROVE WorkInv(b)'
  BY <1>2, UntouchedWork DEF Local, AtomicInv
<1> QED
  BY <1>1, <1>2 DEF AtomicInv

LEMMA RollbackAtomic ==
  ASSUME NEW a \in Attempts, NEW s \in {"failed", "conflict"}, AtomicInv, IInv', Rollback(a, s)
  PROVE  AtomicInv'
<1>1. at'[a] = s /\ took'[a] = <<>> /\ made'[a] = {}
  BY DEF Rollback, Finish, Goto, AtomicInv, IInv, TypeOK
<1>2. Local(a)
  BY DEF Rollback, Finish, Goto, Local, Untouched, AtomicInv, IInv, TypeOK
<1>3. WorkInv(a)'
  BY <1>1 DEF WorkInv
<1> QED
  BY <1>2, <1>3, LocalAtomic

(* Steps that leave rows, cart and reservations of their own alone.        *)
LEMMA MoveAtomic ==
  ASSUME NEW a \in Attempts, AtomicInv, IInv', UNCHANGED <<tables, took, made, opening>>,
         NEW s \in {"check", "insert", "failed", "answered", "points", "items", "open"},
         Goto(a, s), \A b \in Attempts : held[b] \subseteq held'[b],
         \A b \in Attempts \ {a} : held'[b] = held[b] /\ answer'[b] = answer[b],
         s = "open" => Current(a) \notin made[a]
  PROVE  AtomicInv'
<1>1. at'[a] = s /\ UNCHANGED <<cart(a), Current(a)>>
  BY DEF Goto, AtomicInv, IInv, TypeOK, cart, Current
<1>2. Local(a)
  BY DEF Goto, Local, Untouched, AtomicInv, IInv, TypeOK
<1>3. \A l, m : Visible(a, l)' = Visible(a, l) /\ Left(a, l, m)' = Left(a, l, m)
  BY <1>1 DEF Visible, Left, Reserved, tables
<1>4. WorkInv(a)'
  BY <1>1, <1>3 DEF WorkInv, AtomicInv, tables
<1> QED
  BY <1>2, <1>4, LocalAtomic

LEMMA StepAtomic ==
  ASSUME NEW a \in Attempts, AtomicInv, IInv',
         \/ Dedupe(a) \/ CheckStock(a) \/ CatchConflict(a) \/ InsertOrder(a)
         \/ DeductPoints(a) \/ FindNone(a) \/ UpdateProduct(a)
  PROVE  AtomicInv'
<1>1. CASE \E s \in {"failed", "conflict"} : Rollback(a, s)
  BY <1>1, RollbackAtomic
<1>2. CASE ~\E s \in {"failed", "conflict"} : Rollback(a, s)
  <2>1. /\ UNCHANGED <<tables, took, made, opening>>
        /\ \E s \in {"check", "insert", "failed", "answered", "points", "items", "open"} :
             Goto(a, s) /\ (s = "open" => Current(a) \notin made[a])
    <3>1. FindNone(a) => Current(a) \notin made[a]
      BY DEF FindNone, Visible
    <3> QED
      BY <1>2, <3>1 DEF Dedupe, CheckStock, CatchConflict, InsertOrder, DeductPoints, FindNone,
           UpdateProduct, Answer, tx
  <2>2. held' = held \/ \E r : held' = [held EXCEPT ![a] = @ \cup {r}]
    BY <1>2 DEF Dedupe, CheckStock, CatchConflict, InsertOrder, DeductPoints, FindNone,
         UpdateProduct, Lock, tx
  <2>3. \A b \in Attempts : held[b] \subseteq held'[b] /\ (b # a => held'[b] = held[b])
    BY <2>2 DEF AtomicInv, IInv, TypeOK
  <2>4. \A b \in Attempts \ {a} : answer'[b] = answer[b]
    BY <1>2 DEF Dedupe, CheckStock, CatchConflict, InsertOrder, DeductPoints, FindNone,
         UpdateProduct, Answer, tx, AtomicInv, IInv, TypeOK
  <2> QED
    BY <2>1, <2>3, <2>4, MoveAtomic
<1> QED
  BY <1>1, <1>2

LEMMA ReadOpeningAtomic ==
  ASSUME NEW a \in Attempts, AtomicInv, IInv', ReadOpening(a)
  PROVE  AtomicInv'
<1> DEFINE l == Current(a)
<1>1. l \in Lines /\ l \notin made[a]
  BY CurrentType DEF ReadOpening, AtomicInv, IInv, TxInv, WorkInv
<1>2. /\ UNCHANGED <<tables, held, took, made, answer>>
      /\ opening' = [opening EXCEPT ![a][l] = stock[l]] /\ at' = [at EXCEPT ![a] = "create"]
  BY DEF ReadOpening, Goto
<1>3. Current(a)' = l /\ cart(a)' = cart(a)
  BY <1>2 DEF Current, cart
<1> HIDE DEF l
<1>4. /\ at'[a] = "create" /\ opening'[a][l] = stock[l]
      /\ \A k \in Lines \ {l} : opening'[a][k] = opening[a][k]
  BY <1>1, <1>2 DEF AtomicInv, IInv, TypeOK
<1>5. Local(a)
  BY <1>2 DEF Local, Untouched, AtomicInv, IInv, TypeOK
<1>6. ASSUME NEW i \in DOMAIN took[a]
      PROVE  /\ took[a][i] \in Visible(a, cart(a)[i])' /\ Row(cart(a)[i], took[a][i]) \in held'[a]
             /\ Left(a, cart(a)[i], took[a][i])' >= 0
  <2> DEFINE k == cart(a)[i]  m == took[a][i]
  <2>1. m \in Visible(a, k) /\ Row(k, m) \in held[a] /\ Left(a, k, m) >= 0 /\ k \in Lines
    <3>1. took[a] \in Seq(Makers) /\ cart(a) \in Seq(Lines) /\ Len(took[a]) <= Len(cart(a))
      BY CartType DEF AtomicInv, IInv, TypeOK, TxInv, ReadOpening, InTx
    <3>2. i \in DOMAIN cart(a)
      BY <3>1
    <3> QED
      BY <3>1, <3>2 DEF AtomicInv, WorkInv
  <2>2. Visible(a, k)' = Visible(a, k) /\ rows' = rows /\ available' = available
    BY <1>2 DEF Visible, tables
  <2>3. m \notin rows[k] => k # l
    BY <1>1, <2>1 DEF Visible
  <2>4. Left(a, k, m)' = Left(a, k, m)
    BY <1>2, <1>3, <1>4, <2>1, <2>2, <2>3 DEF Left, Reserved
  <2> QED
    BY <1>2, <2>1, <2>2, <2>4
<1>7. WorkInv(a)'
  <2>1. \A k \in made[a] : k \in Lines /\ k # l
    BY <1>1 DEF AtomicInv, IInv, TypeOK
  <2>2. \A k \in made'[a] :
          k \in Unique /\ NewRow(k) \in held'[a] /\ rows'[k] = {} /\ opening'[a][k] = stock'[k]
    BY <1>2, <1>4, <2>1 DEF AtomicInv, WorkInv, tables
  <2> QED
    BY <1>1, <1>2, <1>3, <1>4, <1>6, <2>2 DEF WorkInv, tables
<1> QED
  BY <1>5, <1>7, LocalAtomic

LEMMA CreateAtomic ==
  ASSUME Covered, NEW a \in Attempts, AtomicInv, IInv', CreateRow(a)
  PROVE  AtomicInv'
<1> DEFINE l == Current(a)
<1>1. l \in Unique
  <2>1. l \in Lines /\ l \notin Tracked
    BY CurrentType DEF CreateRow, AtomicInv, IInv, TxInv, Opening
  <2> QED
    BY <2>1 DEF Covered
<1>2. CASE rows[l] # {}
  BY <1>1, <1>2, RollbackAtomic DEF CreateRow
<1>3. CASE rows[l] = {}
  <2>1. /\ made' = [made EXCEPT ![a] = @ \cup {l}] /\ held' = [held EXCEPT ![a] = @ \cup {NewRow(l)}]
        /\ at' = [at EXCEPT ![a] = "created"] /\ UNCHANGED <<tables, took, opening, answer>>
    BY <1>1, <1>3 DEF CreateRow, Goto
  <2>2. Current(a)' = l /\ cart(a)' = cart(a)
    BY <2>1 DEF Current, cart
  <2>3. opening[a][l] = stock[l]
    BY <1>3 DEF CreateRow, AtomicInv, WorkInv
  <2> HIDE DEF l
  <2>4. /\ at'[a] = "created" /\ made'[a] = made[a] \cup {l} /\ held'[a] = held[a] \cup {NewRow(l)}
        /\ took'[a] = took[a] /\ opening'[a] = opening[a]
    BY <2>1 DEF AtomicInv, IInv, TypeOK
  <2>5. Local(a)
    BY <2>1 DEF Local, Untouched, AtomicInv, IInv, TypeOK
  <2>6. \A k, m : Visible(a, k) \subseteq Visible(a, k)' /\ Left(a, k, m)' = Left(a, k, m)
    BY <2>1, <2>2, <2>4 DEF Visible, Left, Reserved, tables
  <2>7. WorkInv(a)'
    <3>1. \A k \in made'[a] :
            k \in Unique /\ NewRow(k) \in held'[a] /\ rows'[k] = {} /\ opening'[a][k] = stock'[k]
      BY <1>1, <1>3, <2>1, <2>3, <2>4 DEF AtomicInv, WorkInv, tables
    <3>2. ASSUME NEW i \in DOMAIN took'[a]
          PROVE  /\ took'[a][i] \in Visible(a, cart(a)[i])' /\ Row(cart(a)[i], took[a][i])' \in held'[a]
                 /\ Left(a, cart(a)[i], took[a][i])' >= 0
      <4> DEFINE k == cart(a)[i]  m == took[a][i]
      <4>1. m \in Visible(a, k) /\ Row(k, m) \in held[a] /\ Left(a, k, m) >= 0
        BY <2>4 DEF AtomicInv, WorkInv
      <4>2. PICK x, y : x = k /\ y = m
        OBVIOUS
      <4>3. k' = x /\ m' = y
        BY <2>2, <2>4, <4>2
      <4>4. y \in Visible(a, x)' /\ Row(x, y) \in held'[a] /\ Left(a, x, y)' >= 0
        BY <2>4, <2>6, <4>1, <4>2
      <4> QED
        BY <4>3, <4>4 DEF Visible, Row, Left, Reserved
    <3> QED
      BY <2>2, <2>4, <3>1, <3>2 DEF WorkInv
  <2> QED
    BY <2>5, <2>7, LocalAtomic
<1> QED
  BY <1>2, <1>3

(* One more reserved row counts once, on its own line.                     *)
LEMMA ReservedAppend ==
  ASSUME NEW a \in Attempts, IInv, Len(took[a]) < Len(cart(a)), NEW m \in Makers,
         took'[a] = Append(took[a], m), cart(a)' = cart(a), NEW k, NEW x
  PROVE  Reserved(a, k, x)' = Reserved(a, k, x) + (IF k = Current(a) /\ x = m THEN 1 ELSE 0)
<1> DEFINE n == Len(took[a]) + 1
           S == {i \in DOMAIN took[a] : cart(a)[i] = k /\ took[a][i] = x}
           T == {i \in DOMAIN took'[a] : cart(a)[i] = k /\ took'[a][i] = x}
<1>1. took[a] \in Seq(Makers) /\ cart(a) \in Seq(Lines)
  BY CartType DEF IInv, TypeOK
<1>2. /\ DOMAIN took'[a] = DOMAIN took[a] \cup {n} /\ n \notin DOMAIN took[a]
      /\ took'[a][n] = m /\ \A i \in DOMAIN took[a] : took'[a][i] = took[a][i]
  BY <1>1
<1>3. Current(a) = cart(a)[n]
  BY DEF Current
<1>4. T = IF k = Current(a) /\ x = m THEN S \cup {n} ELSE S
  BY <1>2, <1>3
<1>5. IsFiniteSet(S) /\ Cardinality(S) = Reserved(a, k, x) /\ Reserved(a, k, x) \in Nat
  <2>1. IsFiniteSet(S) /\ Reserved(a, k, x) \in Nat
    BY ReservedType
  <2>2. Cardinality(S) = Reserved(a, k, x)
    BY DEF Reserved
  <2> QED
    BY <2>1, <2>2
<1>6. n \notin S
  BY <1>2
<1>7. Cardinality(T) = Cardinality(S) + (IF k = Current(a) /\ x = m THEN 1 ELSE 0)
  <2>1. Cardinality(S \cup {n}) = Cardinality(S) + 1
    BY <1>5, <1>6, FS_AddElement
  <2> HIDE DEF S, T, n
  <2> QED
    BY <1>4, <1>5, <2>1
<1>8. Reserved(a, k, x)' = Cardinality(T)
  BY DEF Reserved
<1> QED
  BY <1>5, <1>7, <1>8

LEMMA ReserveAtomic ==
  ASSUME NEW a \in Attempts, AtomicInv, IInv', Reserve(a)
  PROVE  AtomicInv'
<1> USE DEF AtomicInv
<1>1. Len(took[a]) < Len(cart(a))
  BY DEF Reserve, Working
<1>2. PICK l : l = Current(a)
  OBVIOUS
<1>3. PICK m \in Found(a) :
       IF Left(a, l, m) >= 1
       THEN /\ Lock(a, Row(l, m)) /\ Goto(a, "product")
            /\ took' = [took EXCEPT ![a] = Append(@, m)]
            /\ UNCHANGED <<tables, made, opening, answer>>
       ELSE Rollback(a, "failed")
  BY <1>2 DEF Reserve
<1>4. m \in Makers /\ l \in Lines
  BY <1>1, <1>2, <1>3, FoundType
<1>5. m \in Visible(a, l)
  BY <1>2, <1>3 DEF Found, Visible, WorkInv
<1>6. CASE ~(Left(a, l, m) >= 1)
  BY <1>3, <1>6, RollbackAtomic
<1>7. CASE Left(a, l, m) >= 1
  <2>1. /\ held' = [held EXCEPT ![a] = @ \cup {Row(l, m)}] /\ at' = [at EXCEPT ![a] = "product"]
        /\ took' = [took EXCEPT ![a] = Append(@, m)] /\ UNCHANGED <<tables, made, opening, answer>>
    BY <1>3, <1>7 DEF Lock, Goto
  <2>2. /\ at'[a] = "product" /\ held'[a] = held[a] \cup {Row(l, m)} /\ cart(a)' = cart(a)
        /\ took'[a] = Append(took[a], m) /\ made'[a] = made[a] /\ opening'[a] = opening[a]
    BY <2>1 DEF IInv, TypeOK, cart
  <2>3. Local(a)
    BY <2>1 DEF Local, Untouched, IInv, TypeOK
  <2>4. took[a] \in Seq(Makers) /\ cart(a) \in Seq(Lines)
    BY CartType DEF IInv, TypeOK
  <2>5. \A k, x : Visible(a, k)' = Visible(a, k)
    BY <2>1 DEF Visible, tables
  (* What is left stays above zero: it was at least one.                   *)
  <2>6. ASSUME NEW k \in Lines, NEW x \in Makers, Left(a, k, x) >= 0
        PROVE  Left(a, k, x)' >= 0
    <3> DEFINE base == IF x \in rows[k] THEN available[k][x] ELSE opening[a][k]
    <3>1. base \in Int /\ Left(a, k, x) = base - Reserved(a, k, x)
      BY DEF IInv, TypeOK, Left
    <3>2. Left(a, k, x)' = base - Reserved(a, k, x)'
      BY <2>1, <2>2 DEF Left, tables
    <3>3. Reserved(a, k, x)' = Reserved(a, k, x) + (IF k = l /\ x = m THEN 1 ELSE 0)
      BY <1>1, <1>2, <1>4, <2>2, ReservedAppend
    <3>4. Reserved(a, k, x) \in Nat
      BY ReservedType
    <3> HIDE DEF base
    <3> QED
      BY <1>7, <2>6, <3>1, <3>2, <3>3, <3>4
  <2>7. WorkInv(a)'
    <3>1. \A k \in made'[a] :
            k \in Unique /\ NewRow(k) \in held'[a] /\ rows'[k] = {} /\ opening'[a][k] = stock'[k]
      BY <2>1, <2>2 DEF WorkInv, tables
    <3>2. ASSUME NEW i \in DOMAIN took'[a]
          PROVE  /\ took'[a][i] \in Visible(a, cart(a)[i])' /\ Row(cart(a)[i], took[a][i])' \in held'[a]
                 /\ Left(a, cart(a)[i], took[a][i])' >= 0
      <4>1. PICK k, x : k = cart(a)[i] /\ x = took'[a][i]
        OBVIOUS
      <4>2. (cart(a)[i])' = k /\ (took[a][i])' = x
        BY <2>2, <4>1
      <4>3. x \in Visible(a, k) /\ Row(k, x) \in held'[a] /\ Left(a, k, x) >= 0 /\ k \in Lines /\ x \in Makers
        <5>1. CASE i \in DOMAIN took[a]
          <6>1. took'[a][i] = took[a][i] /\ took[a][i] \in Makers
            BY <2>2, <2>4, <5>1
          <6>2. i \in DOMAIN cart(a)
            BY <1>1, <2>4, <5>1
          <6> QED
            BY <2>2, <2>4, <4>1, <5>1, <6>1, <6>2 DEF WorkInv
        <5>2. CASE i \notin DOMAIN took[a]
          <6>1. i = Len(took[a]) + 1 /\ x = m
            BY <1>4, <2>2, <2>4, <4>1, <5>2
          <6>2. k = l
            BY <1>2, <4>1, <6>1 DEF Current
          <6>3. Left(a, l, m) >= 0
            BY <1>4, <1>7, LeftType
          <6> QED
            BY <1>4, <1>5, <2>2, <6>1, <6>2, <6>3
        <5> QED
          BY <5>1, <5>2
      <4>4. x \in Visible(a, k)' /\ Left(a, k, x)' >= 0
        BY <2>5, <2>6, <4>3
      <4> QED
        BY <4>2, <4>3, <4>4 DEF Visible, Row, Left, Reserved
    <3> QED
      BY <2>2, <3>1, <3>2 DEF WorkInv
  <2> QED
    BY <2>3, <2>7, LocalAtomic
<1> QED
  BY <1>6, <1>7

-----------------------------------------------------------------------------
(* When an attempt commits, each of its units is a reservation of the one  *)
(* row of the line, and that row was enough.                               *)
LEMMA CommitUnits ==
  ASSUME NEW a \in Attempts, AtomicInv, Commit(a), NEW l \in Lines
  PROVE  /\ stock[l] >= Units(Key[a], l)
         /\ \A m \in Visible(a, l) : Left(a, l, m) = stock[l] - Units(Key[a], l)
         /\ \A m, n \in Visible(a, l) : m = n
         /\ Units(Key[a], l) > 0 => \E m \in Visible(a, l) : Row(l, m) \in held[a]
<1> USE DEF AtomicInv
<1> DEFINE S == {i \in DOMAIN Cart[Key[a]] : Cart[Key[a]][i] = l}
<1>1. took[a] \in Seq(Makers) /\ cart(a) \in Seq(Lines) /\ cart(a) = Cart[Key[a]]
  BY CartType DEF IInv, TypeOK, cart
<1>2. DOMAIN took[a] = DOMAIN cart(a)
  BY <1>1 DEF Commit
<1>3. stock[l] \in Nat
  BY DEF IInv, TypeOK, RowsInv, RowInv
<1>4. \A m, n \in Visible(a, l) : m = n
  BY DEF Visible, WorkInv, RowsInv, RowInv
<1>5. \A i \in S : /\ took[a][i] \in Visible(a, l) /\ Row(l, took[a][i]) \in held[a]
                     /\ Left(a, l, took[a][i]) >= 0
  BY <1>1, <1>2 DEF WorkInv
<1>6. Units(Key[a], l) = Cardinality(S) /\ Units(Key[a], l) \in Nat /\ IsFiniteSet(S)
  <2>1. Units(Key[a], l) \in Nat
    BY UnitsType, CartType
  <2>2. IsFiniteSet(DOMAIN cart(a))
    BY <1>1, FiniteDomain
  <2>3. IsFiniteSet(S)
    BY <1>1, <2>2, FS_Subset
  <2> QED
    BY <2>1, <2>3 DEF Units
<1>7. ASSUME NEW m \in Visible(a, l)
      PROVE  Left(a, l, m) = stock[l] - Units(Key[a], l)
  <2>1. {i \in DOMAIN took[a] : cart(a)[i] = l /\ took[a][i] = m} = S
    BY <1>1, <1>2, <1>4, <1>5, <1>7
  <2>2. Reserved(a, l, m) = Units(Key[a], l)
    BY <1>6, <2>1 DEF Reserved
  <2>3. (IF m \in rows[l] THEN available[l][m] ELSE opening[a][l]) = stock[l]
    BY <1>7 DEF Visible, WorkInv, RowsInv, RowInv
  <2> QED
    BY <2>2, <2>3 DEF Left
<1>8. stock[l] >= Units(Key[a], l) /\ (Units(Key[a], l) > 0 => \E m \in Visible(a, l) : Row(l, m) \in held[a])
  <2>1. CASE S = {}
    <3>1. Units(Key[a], l) = 0
      BY <1>6, <2>1, FS_EmptySet
    <3> QED
      BY <1>3, <3>1
  <2>2. CASE S # {}
    <3>1. PICK i \in S : TRUE
      BY <2>2
    <3>2. PICK m \in Visible(a, l) : m = took[a][i] /\ Row(l, m) \in held[a] /\ Left(a, l, m) >= 0
      BY <1>5, <3>1
    <3> HIDE DEF S
    <3> QED
      BY <1>3, <1>6, <1>7, <3>2
  <2> QED
    BY <2>1, <2>2
<1> QED
  BY <1>4, <1>7, <1>8

(* Whatever another attempt works on, a line it opens or a row it has      *)
(* reserved, is not touched by the commit.                                 *)
LEMMA CommitApart ==
  ASSUME NEW a \in Attempts, AtomicInv, Commit(a), NEW b \in Attempts \ {a}, NEW l \in Lines
  PROVE  /\ l \in made[b] => Visible(a, l) = {} /\ Units(Key[a], l) = 0
         /\ Visible(a, l) = {} => Units(Key[a], l) = 0
         /\ \A m \in rows[l] : Row(l, m) \in held[b] => Units(Key[a], l) = 0
<1> USE DEF AtomicInv
<1>1. Units(Key[a], l) \in Nat
  BY UnitsType, CartType
<1>2. Visible(a, l) = {} => Units(Key[a], l) = 0
  BY <1>1, CommitUnits
<1>3. l \in made[b] => Visible(a, l) = {}
  <2> SUFFICES ASSUME l \in made[b] PROVE Visible(a, l) = {}
    OBVIOUS
  <2>1. rows[l] = {} /\ NewRow(l) \in held[b]
    BY DEF WorkInv
  <2>2. l \notin made[a]
    BY <2>1 DEF WorkInv, IInv, Exclusive
  <2> QED
    BY <2>1, <2>2 DEF Visible
<1>4. ASSUME NEW m \in rows[l], Row(l, m) \in held[b] PROVE Units(Key[a], l) = 0
  <2>1. \A n \in Visible(a, l) : n = m
    BY <1>4, CommitUnits DEF Visible
  <2>2. Row(l, m) \notin held[a]
    BY <1>4 DEF IInv, Exclusive
  <2> QED
    BY <1>1, <2>1, <2>2, CommitUnits
<1> QED
  BY <1>2, <1>3, <1>4

LEMMA CommitAtomic ==
  ASSUME NEW a \in Attempts, AtomicInv, IInv', Commit(a)
  PROVE  AtomicInv'
<1> USE DEF AtomicInv
<1>1. /\ \A l \in Lines : stock'[l] = stock[l] - Units(Key[a], l) /\ rows'[l] = Visible(a, l)
      /\ \A l \in Lines, m \in Makers :
           available'[l][m] = IF m \in Visible(a, l) THEN Left(a, l, m) ELSE available[l][m]
  BY DEF Commit
<1>2. \A l \in Lines : Units(Key[a], l) \in Nat /\ stock[l] \in Nat /\ Visible(a, l) \subseteq Makers
  BY UnitsType, CartType DEF IInv, TypeOK, RowsInv, RowInv, Visible, Makers
<1>3. RowsInv'
  <2> SUFFICES ASSUME NEW l \in Lines PROVE RowInv(l)'
    BY DEF RowsInv
  <2>1. stock'[l] >= 0
    BY <1>1, <1>2, CommitUnits
  <2>2. \A m, n \in rows'[l] : m = n
    BY <1>1, CommitUnits
  <2>3. \A m \in rows'[l] : available'[l][m] = stock'[l]
    BY <1>1, <1>2, CommitUnits
  <2> QED
    BY <2>1, <2>2, <2>3 DEF RowInv
<1>4. WorkInv(a)'
  BY CommitFacts DEF WorkInv
<1>5. ASSUME NEW b \in Attempts \ {a}
      PROVE  WorkInv(b)'
  <2>1. /\ at'[b] = at[b] /\ held'[b] = held[b] /\ took'[b] = took[b] /\ made'[b] = made[b]
        /\ opening'[b] = opening[b] /\ cart(b)' = cart(b) /\ Current(b)' = Current(b)
    BY CommitFacts DEF cart, Current
  <2>2. \A l \in made'[b] :
          l \in Unique /\ NewRow(l) \in held'[b] /\ rows'[l] = {} /\ opening'[b][l] = stock'[l]
    <3> TAKE l \in made'[b]
    <3>1. l \in Lines /\ l \in made[b]
      BY <2>1 DEF IInv, TypeOK
    <3>2. Visible(a, l) = {} /\ Units(Key[a], l) = 0
      BY <3>1, CommitApart
    <3> QED
      BY <1>1, <1>2, <2>1, <3>1, <3>2 DEF WorkInv
  <2>3. at'[b] = "create" /\ rows'[Current(b)] = {} => opening'[b][Current(b)] = stock'[Current(b)]
    <3> SUFFICES ASSUME at[b] = "create", rows'[Current(b)] = {}
                 PROVE  opening[b][Current(b)] = stock'[Current(b)]
      BY <2>1
    <3>1. PICK l \in Lines : l = Current(b)
      BY CurrentType DEF IInv, TxInv
    <3>2. Visible(a, l) = {} /\ Units(Key[a], l) = 0
      BY <1>1, <3>1, CommitApart
    <3>3. rows[l] = {}
      BY <3>2 DEF Visible
    <3> QED
      BY <1>1, <1>2, <3>1, <3>2, <3>3 DEF WorkInv
  <2>4. ASSUME NEW i \in DOMAIN took'[b]
        PROVE  /\ took'[b][i] \in Visible(b, cart(b)[i])' /\ Row(cart(b)[i], took[b][i])' \in held'[b]
               /\ Left(b, cart(b)[i], took[b][i])' >= 0
    <3>1. PICK l, m : l = cart(b)[i] /\ m = took[b][i]
      OBVIOUS
    <3>2. (cart(b)[i])' = l /\ (took[b][i])' = m /\ i \in DOMAIN took[b]
      BY <2>1, <3>1
    <3>3. l \in Lines /\ m \in Makers
      <4>1. took[b] \in Seq(Makers) /\ cart(b) \in Seq(Lines) /\ Len(took[b]) <= Len(cart(b))
        BY CartType, <3>2 DEF IInv, TypeOK, TxInv, InTx
      <4> QED
        BY <3>1, <3>2, <4>1
    <3>4. m \in Visible(b, l) /\ Row(l, m) \in held[b] /\ Left(b, l, m) >= 0
      BY <3>1, <3>2 DEF WorkInv
    <3>5. m \in Visible(b, l)'
      BY <1>1, <2>1, <3>3, <3>4 DEF Visible
    <3>6. Reserved(b, l, m)' = Reserved(b, l, m)
      BY <2>1 DEF Reserved
    <3>7. CASE m \in rows[l]
      <4>1. m \in Visible(a, l) /\ Units(Key[a], l) = 0
        BY <3>3, <3>4, <3>7, CommitApart DEF Visible
      <4>2. Left(a, l, m) = stock[l] /\ available[l][m] = stock[l]
        BY <1>2, <3>3, <3>7, <4>1, CommitUnits DEF RowsInv, RowInv
      <4>3. m \in rows'[l] /\ available'[l][m] = available[l][m]
        BY <1>1, <3>3, <4>1, <4>2
      <4>4. Left(b, l, m)' = Left(b, l, m)
        BY <3>6, <3>7, <4>3 DEF Left
      <4> QED
        BY <2>1, <3>2, <3>4, <3>5, <4>4 DEF Visible, Row, Left, Reserved
    <3>8. CASE m \notin rows[l]
      <4>1. l \in made[b]
        BY <3>4, <3>8 DEF Visible
      <4>2. m \notin rows'[l]
        BY <1>1, <3>3, <4>1, CommitApart
      <4>3. Left(b, l, m)' = Left(b, l, m)
        BY <2>1, <3>6, <3>8, <4>2 DEF Left
      <4> QED
        BY <2>1, <3>2, <3>4, <3>5, <4>3 DEF Visible, Row, Left, Reserved
    <3> QED
      BY <3>7, <3>8
  <2> QED
    BY <2>1, <2>2, <2>3, <2>4 DEF WorkInv
<1> QED
  BY <1>3, <1>4, <1>5

LEMMA AtomicNext == Covered /\ AtomicInv /\ [Next]_vars => AtomicInv'
<1> SUFFICES ASSUME Covered, AtomicInv, [Next]_vars PROVE AtomicInv'
  OBVIOUS
<1> USE NextInv DEF AtomicInv
<1>1. IInv'
  OBVIOUS
<1>2. CASE Next
  <2>1. PICK a \in Attempts : Dedupe(a) \/ Step(a) \/ Interrupt(a) \/ Victim(a)
    BY <1>2 DEF Next
  <2>2. CASE \/ Dedupe(a) \/ CheckStock(a) \/ CatchConflict(a) \/ InsertOrder(a)
             \/ DeductPoints(a) \/ FindNone(a) \/ UpdateProduct(a)
    BY <1>1, <2>2, StepAtomic
  <2>3. CASE ReadOpening(a)
    BY <1>1, <2>3, ReadOpeningAtomic
  <2>4. CASE CreateRow(a)
    BY <1>1, <2>4, CreateAtomic
  <2>5. CASE Reserve(a)
    BY <1>1, <2>5, ReserveAtomic
  <2>6. CASE Commit(a)
    BY <1>1, <2>6, CommitAtomic
  <2>7. CASE Interrupt(a) \/ Victim(a)
    BY <1>1, <2>7, RollbackAtomic DEF Interrupt, Victim
  <2> QED
    BY <2>1, <2>2, <2>3, <2>4, <2>5, <2>6, <2>7 DEF Step
<1>3. CASE UNCHANGED vars
  <2>1. \A a \in Attempts : Untouched(a)
    BY <1>3 DEF vars, tables, tx, Untouched
  <2>2. RowsInv'
    BY <1>3 DEF vars, tables, RowsInv, RowInv
  <2> QED
    BY <1>1, <2>1, <2>2, UntouchedWork
<1> QED
  BY <1>2, <1>3

(* Only a commit shows in the abstract state, and it is one order placed   *)
(* at a stroke.                                                            *)
LEMMA StepPlaces == AtomicInv /\ [Next]_vars => [Atomic!Next]_<<{Key[a] : a \in orders}, stock, points>>
<1> SUFFICES ASSUME AtomicInv, [Next]_vars
             PROVE  [Atomic!Next]_<<{Key[a] : a \in orders}, stock, points>>
  OBVIOUS
<1>1. CASE UNCHANGED <<orders, stock, points>>
  BY <1>1
<1>2. CASE \E a \in Attempts : Commit(a)
  <2>1. PICK a \in Attempts : Commit(a)
    BY <1>2
  <2> DEFINE k == Key[a]
  <2>2. k \in Keys /\ k \notin {Key[b] : b \in orders} /\ points >= Cost[k]
    BY <2>1, CommitFacts, CartType DEF AtomicInv, Placed
  <2>4. \A l \in Lines : stock[l] >= Units(k, l)
    BY <2>1, CommitUnits
  <2>5. {Key[b] : b \in orders}' = {Key[b] : b \in orders} \cup {k}
    BY <2>1 DEF Commit
  <2>6. stock' = [l \in Lines |-> stock[l] - Units(k, l)] /\ points' = points - Cost[k]
    BY <2>1 DEF Commit
  <2>7. Atomic!Place(k)
    BY <2>2, <2>4, <2>5, <2>6 DEF Atomic!Place
  <2> QED
    BY <2>2, <2>7 DEF Atomic!Next
<1>3. CASE ~(\E a \in Attempts : Commit(a))
  <2>1. UNCHANGED tables
    BY <1>3 DEF Next, Step, vars, tables, Dedupe, CheckStock, InsertOrder, DeductPoints, FindNone,
         ReadOpening, CreateRow, Reserve, UpdateProduct, CatchConflict, Interrupt, Victim, Rollback
  <2> QED
    BY <1>1, <2>1 DEF tables
<1> QED
  BY <1>2, <1>3

LEMMA InitPlaces == Init => Atomic!Init
BY DEF Init, Atomic!Init

(* However many checkouts overlap and whatever is in their carts, the      *)
(* tables change as if orders were placed one at a time, provided that the *)
(* row of every product without variants exists already.                   *)
THEOREM CheckoutIsAtomic == ASSUME Covered PROVE Spec => PlacedAtomically
<1>1. Init => AtomicInv
  BY AtomicInit
<1>2. AtomicInv /\ [Next]_vars => AtomicInv'
  BY AtomicNext
<1>3. Spec => []AtomicInv
  BY <1>1, <1>2, PTL DEF Spec
<1> QED
  BY <1>3, InitPlaces, StepPlaces, PTL DEF Spec, PlacedAtomically, Atomic!Spec
=============================================================================
