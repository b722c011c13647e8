------------------------------- MODULE Returns -------------------------------
(***************************************************************************)
(* What happens to one order once it is delivered: the customer or an      *)
(* employee asks for a return, employees review it and decide what becomes *)
(* of the units, money is given back and the payment is edited             *)
(* (src/orders, src/customer-account).                                     *)
(*                                                                         *)
(* Every handler reads the order or the return, checks what it read, and   *)
(* opens a transaction that never looks at those rows again.  Products of  *)
(* the order may be deleted meanwhile: their lines stay, without a product *)
(* whose stock could move.                                                 *)
(***************************************************************************)
EXTENDS Integers, Sequences, FiniteSets

CONSTANTS
  Returns,      \* ids of the returns of the order
  Refunds,      \* ids of its refunds
  Items,        \* its OrderItem rows
  Bought,       \* Bought[i]: quantity of item i
  Requests,     \* concurrent requests
  Forms,        \* forms employees send about a return, a subset of Form
  Quantities,   \* quantities clients ask to return
  Approvals,    \* quantities employees approve
  Payments,     \* payment statuses employees enter, a subset of PaymentStatus
  Amounts,      \* amounts of money clients send
  MaxHandled    \* bound: transactions committed in a behaviour

Closed       == {"REJECTED", "COMPLETED"}
ReturnStatus == Closed \cup {"REQUESTED", "UNDER_REVIEW", "APPROVED", "AWAITING_PRODUCT",
                             "PRODUCT_RECEIVED", "INSPECTING", "REFUND_PENDING", "REFUNDED"}
Decision      == {"NONE", "RESTOCK_AVAILABLE", "RESTOCK_DAMAGED", "INSPECTION", "SUPPLIER"}
PaymentStatus == {"UNPAID", "PARTIALLY_PAID", "PAID", "REFUNDED", "PARTIALLY_REFUNDED"}

Unset == -1

(* The body of updateReturn: a status, and a list of lines with the fields *)
(* to edit, which may name a line more than once.                          *)
Entry == [item : Items, approved : Approvals \cup {Unset}, decision : Decision \cup {"unset"}]
Form  == [status : ReturnStatus \cup {"unset"}, edits : Seq(Entry)]

ASSUME OrderAssumption  == Bought \in [Items -> Nat \ {0}]
ASSUME RefundsAssumption == IsFiniteSet(Refunds)
ASSUME InputsAssumption ==
  /\ Forms \subseteq Form /\ Payments \subseteq PaymentStatus
  /\ Quantities \subseteq Nat \ {0} /\ Approvals \subseteq Nat
  /\ Amounts \subseteq Nat /\ MaxHandled \in Nat

VARIABLES
  order,     \* the columns of the order's row these handlers use
  ret,       \* ret[r]: the row of a return with its items
  linked,    \* the lines whose product still exists (OrderItem.productId)
  moves,     \* moves[r][i]: stock movements ever written for the line i of r
  refund,    \* refund[f]: amount of a completed refund, 0 for no row
  request,   \* request[q]: what a request read before its transaction
  handled    \* transactions committed

vars == <<order, ret, linked, moves, refund, request, handled>>

-----------------------------------------------------------------------------
None == [status |-> "none"]

Line == [requested : Quantities, approved : Approvals \cup {Unset}, decision : Decision]

(* Who asked for the return; the time a customer's request read the order  *)
(* and the time the return was last opened, in committed transactions.     *)
Return == [by : {"customer", "employee"}, askedAt : 0..MaxHandled, openedAt : 1..MaxHandled,
           status : ReturnStatus,
           items : UNION {[S -> Line] : S \in (SUBSET Items) \ {{}}}]

(* RETURN_TO_STOCK and DAMAGED_RETURN rows, as Inventory!adjustStock writes *)
(* them: by the transaction and the entry of its form.                      *)
Movement == [at : 1..MaxHandled, entry : Nat \ {0},
             type : {"RETURN_TO_STOCK", "DAMAGED_RETURN"}, quantity : Quantities \cup Approvals]

Open(r) == ret[r] # None /\ ret[r].status \notin Closed

Idle == [kind |-> "idle"]

Init ==
  /\ order \in [status : {"DELIVERED"}, paid : Amounts \ {0}, payment : Payments]
  /\ ret = [r \in Returns |-> None]
  /\ linked = Items
  /\ moves = [r \in Returns |-> [i \in Items |-> {}]]
  /\ refund = [f \in Refunds |-> 0]
  /\ request = [q \in Requests |-> Idle]
  /\ handled = 0

-----------------------------------------------------------------------------
Read(q, req) ==
  /\ request[q] = Idle
  /\ request' = [request EXCEPT ![q] = req]
  /\ UNCHANGED <<order, ret, linked, moves, refund, handled>>

(* The end of a request's transaction. *)
Commit(q) ==
  /\ handled < MaxHandled
  /\ handled' = handled + 1
  /\ request' = [request EXCEPT ![q] = Idle]

(* The merchant moves the order out of DELIVERED and back (updateStatus). *)
ChangeStatus(status) ==
  /\ handled < MaxHandled
  /\ status # order.status
  /\ order' = [order EXCEPT !.status = status]
  /\ handled' = handled + 1
  /\ UNCHANGED <<ret, linked, moves, refund, request>>

(* A product is deleted; the lines of the order that were for it lose it.  *)
RemoveProduct(lines) ==
  /\ linked' = linked \ lines
  /\ UNCHANGED <<order, ret, moves, refund, request, handled>>

-----------------------------------------------------------------------------
(* What a return asks for: one line per item, no item twice. *)
Asked == UNION {[S -> Quantities] : S \in (SUBSET Items) \ {{}}}

(* createReturn: an employee may ask for any quantity, beside other returns. *)
ReadForReturn(q, asked) ==
  /\ order.status = "DELIVERED"
  /\ Read(q, [kind |-> "ask", by |-> "employee", asked |-> asked, at |-> 0])

(* Mutant: the open returns are not looked at. *)
RequestBesideOpen(q, asked) ==
  /\ order.status = "DELIVERED"
  /\ \A i \in DOMAIN asked : asked[i] <= Bought[i]
  /\ Read(q, [kind |-> "ask", by |-> "customer", asked |-> asked, at |-> handled])

(* requestReturn: the customer, one open return at a time, no more than    *)
(* was bought; a store that does not take returns refuses all of them.     *)
ReadForRequest(q, asked) ==
  /\ order.status = "DELIVERED"
  /\ ~ \E r \in Returns : Open(r)
  /\ \A i \in DOMAIN asked : asked[i] <= Bought[i]
  /\ Read(q, [kind |-> "ask", by |-> "customer", asked |-> asked, at |-> handled])

CreateReturn(q, r) ==
  /\ request[q].kind = "ask"
  /\ ret[r] = None
  /\ ret' = [ret EXCEPT ![r] =
       [by |-> request[q].by, askedAt |-> request[q].at, openedAt |-> handled + 1,
        status |-> "REQUESTED",
        items |-> [i \in DOMAIN request[q].asked |->
          [requested |-> request[q].asked[i], approved |-> Unset, decision |-> "NONE"]]]]
  /\ Commit(q)
  /\ UNCHANGED <<order, linked, moves, refund>>

-----------------------------------------------------------------------------
(* updateReturn reads the return with its lines, *)
ReadForUpdate(q, r, form) ==
  /\ ret[r] # None
  /\ Read(q, [kind |-> "update", id |-> r, form |-> form, items |-> ret[r].items])

(* and by a further statement their order items, with the products. *)
ReadLinks(q) ==
  /\ request[q].kind = "update"
  /\ request' = [request EXCEPT ![q] =
       [kind |-> "updating", id |-> @.id, form |-> @.form, items |-> @.items, linked |-> linked]]
  /\ UNCHANGED <<order, ret, linked, moves, refund, handled>>

(* The entries of a form that name a line, and the last of some entries.   *)
Naming(edits, i) == {k \in DOMAIN edits : edits[k].item = i}
Last(ks, k) == k \in ks /\ \A j \in ks : j <= k

(* Entry by entry the fields of the form are written, over the row as it   *)
(* is now: the last entry that has the field stays.                        *)
Edited(line, edits, i) ==
  LET as == {k \in Naming(edits, i) : edits[k].approved # Unset}
      ds == {k \in Naming(edits, i) : edits[k].decision # "unset"}
  IN [line EXCEPT
       !.approved = IF \E k \in as : Last(as, k) THEN edits[CHOOSE k \in as : Last(as, k)].approved ELSE @,
       !.decision = IF \E k \in ds : Last(ds, k) THEN edits[CHOOSE k \in ds : Last(ds, k)].decision ELSE @]

Restocks(d) == d \in {"RESTOCK_AVAILABLE", "RESTOCK_DAMAGED"}
TypeFor(d)  == IF d = "RESTOCK_AVAILABLE" THEN "RETURN_TO_STOCK" ELSE "DAMAGED_RETURN"

MovementOf(line, e, k) ==
  [at |-> handled + 1, entry |-> k, type |-> TypeFor(e.decision),
   quantity |-> IF e.approved = Unset THEN line.requested ELSE e.approved]

(* Mutant: every change of the decision moves stock. *)
MovesOnAnyChange(line, edits, i) ==
  {MovementOf(line, edits[k], k) : k \in
     {n \in Naming(edits, i) : Restocks(edits[n].decision) /\ edits[n].decision # line.decision}}

(* The movements of a form, from the line as the handler read it: one for  *)
(* every entry that restocks a line without a decision.                    *)
MovesOf(line, edits, i) ==
  {MovementOf(line, edits[k], k) : k \in
     {n \in Naming(edits, i) : Restocks(edits[n].decision) /\ line.decision = "NONE"}}

(* The lines that were read are edited and, if their product was there,    *)
(* restocked.  A product that is gone by now makes the transaction fail.   *)
SaveReturn(q) ==
  /\ request[q].kind = "updating"
  /\ LET r     == request[q].id
         form  == request[q].form
         lines == DOMAIN request[q].items
         New(i) == IF i \in lines \cap request[q].linked
                   THEN MovesOf(request[q].items[i], form.edits, i) ELSE {}
     IN /\ \A i \in Items : New(i) # {} => i \in linked
        /\ ret' = [ret EXCEPT
              ![r].items = [i \in DOMAIN @ |-> IF i \in lines THEN Edited(@[i], form.edits, i) ELSE @[i]],
              ![r].status = IF form.status = "unset" THEN @ ELSE form.status,
              ![r].openedAt = IF Open(r) THEN @ ELSE handled + 1]
        /\ moves' = [moves EXCEPT ![r] = [i \in Items |-> @[i] \cup New(i)]]
  /\ Commit(q)
  /\ UNCHANGED <<order, linked, refund>>

-----------------------------------------------------------------------------
(* updatePayment overwrites the payment, whatever was refunded. *)
UpdatePayment(status, amount) ==
  /\ handled < MaxHandled
  /\ order' = [order EXCEPT !.payment = status, !.paid = amount]
  /\ handled' = handled + 1
  /\ UNCHANGED <<ret, linked, moves, refund, request>>

(* The sum of the completed refunds, counted by the unit of money. *)
RefundUnits(paid) == UNION {{f} \X (1..paid[f]) : f \in Refunds}
Refunded(paid)    == Cardinality(RefundUnits(paid))

(* createRefund reads the paid amount, *)
ReadForRefund(q, amount) ==
  Read(q, [kind |-> "refund", amount |-> amount, paid |-> order.paid])

(* creates its refund and looks at the completed ones: those committed, and *)
(* its own,                                                                 *)
SumRefunds(q) ==
  /\ request[q].kind = "refund"
  /\ request' = [request EXCEPT ![q] =
       [kind |-> "refunding", amount |-> @.amount, paid |-> @.paid, seen |-> refund]]
  /\ UNCHANGED <<order, ret, linked, moves, refund, handled>>

(* Mutant: the sum is taken before the refund is created. *)
SumOfOthers(req) == Refunded(req.seen)

TotalRefunded(req) == Refunded(req.seen) + req.amount
Verdict(sum, paid) == IF sum >= paid THEN "REFUNDED" ELSE "PARTIALLY_REFUNDED"

(* and writes the verdict on the order as it commits. *)
CommitRefund(q, f) ==
  /\ request[q].kind = "refunding"
  /\ refund[f] = 0
  /\ refund' = [refund EXCEPT ![f] = request[q].amount]
  /\ order' = [order EXCEPT !.payment = Verdict(TotalRefunded(request[q]), request[q].paid)]
  /\ Commit(q)
  /\ UNCHANGED <<ret, linked, moves>>

-----------------------------------------------------------------------------
(* A request whose transaction fails leaves nothing behind. *)
Fail(q) ==
  /\ request[q] # Idle
  /\ request' = [request EXCEPT ![q] = Idle]
  /\ UNCHANGED <<order, ret, linked, moves, refund, handled>>

Next ==
  \/ \E s \in {"DELIVERED", "PROCESSING"} : ChangeStatus(s)
  \/ \E s \in Payments, n \in Amounts : UpdatePayment(s, n)
  \/ \E lines \in (SUBSET linked) \ {{}} : RemoveProduct(lines)
  \/ \E q \in Requests :
       \/ \E a \in Asked : ReadForReturn(q, a) \/ ReadForRequest(q, a)
       \/ \E r \in Returns : CreateReturn(q, r)
       \/ \E r \in Returns, form \in Forms : ReadForUpdate(q, r, form)
       \/ ReadLinks(q) \/ SaveReturn(q)
       \/ \E n \in Amounts \ {0} : ReadForRefund(q, n)
       \/ SumRefunds(q)
       \/ \E f \in Refunds : CommitRefund(q, f)
       \/ Fail(q)

Spec == Init /\ [][Next]_vars

-----------------------------------------------------------------------------
(* Every row is one the code writes; a customer's return never asks for    *)
(* more than was bought, whatever employees edit later.                    *)
TypeOK ==
  /\ order \in [status : {"DELIVERED", "PROCESSING"}, paid : Amounts, payment : PaymentStatus]
  /\ \A r \in Returns : ret[r] = None \/ ret[r] \in Return
  /\ \A r \in Returns : ret[r] # None /\ ret[r].by = "customer" =>
       \A i \in DOMAIN ret[r].items : ret[r].items[i].requested \in 1..Bought[i]
  /\ linked \subseteq Items
  /\ moves \in [Returns -> [Items -> SUBSET Movement]]
  /\ refund \in [Refunds -> Amounts \cup {0}]
  /\ handled \in 0..MaxHandled

(* The customer asks for one return at a time: none of his returns was     *)
(* asked for while another return, open to this day, was already open.     *)
(* Two requests that overlap may both find no open return (requestReturn); *)
(* an employee may open one beside it, or reopen an old one.               *)
OneOpenReturn ==
  \A a, b \in Returns :
    a # b /\ Open(a) /\ ret[b] # None /\ ret[b].by = "customer" =>
      ret[b].askedAt < ret[a].openedAt

(* A customer's returns are for what he bought, one at a time.             *)
ReturnsSound == TypeOK /\ OneOpenReturn

(* "Restocking is an explicit, one-time action" as far as the code keeps   *)
(* it.  Movements are never taken back, and only a saved form adds some.   *)
Saves(q, r) == /\ request[q].kind = "updating" /\ request[q].id = r
               /\ request'[q] = Idle /\ handled' # handled

OnlyFormsMove ==
  \A r \in Returns : \/ \E q \in Requests : Saves(q, r)
                     \/ moves'[r] = moves[r]

(* A form saved over the lines it had read moves stock of a line only when *)
(* its decision leaves NONE and its product still exists; then it moves    *)
(* stock as decided, by one movement if it names the line once, and by no  *)
(* more than its entries if it names it more often.                        *)
FreshFormMoves(q, r) ==
  LET edits == request[q].form.edits IN
  \A i \in DOMAIN ret[r].items :
    LET was == ret[r].items[i]
        now == ret'[r].items[i]
        new == moves'[r][i] \ moves[r][i]
    IN /\ moves[r][i] \subseteq moves'[r][i]
       /\ new # {} => was.decision = "NONE" /\ i \in linked
       /\ was.decision = "NONE" /\ Restocks(now.decision) /\ i \in linked =>
            \E m \in new : m.type = TypeFor(now.decision)
       /\ \A m, n \in new : m.entry = n.entry => m = n
       /\ \A m \in new : m.entry \in Naming(edits, i)
       /\ (\A k, l \in Naming(edits, i) : k = l) =>
            \A m \in new : /\ m.type = TypeFor(now.decision) /\ Restocks(now.decision)
                           /\ m.quantity \in {was.requested, now.approved}

RestockFollowsDecision ==
  [][/\ OnlyFormsMove
     /\ \A q \in Requests, r \in Returns :
          Saves(q, r) /\ request[q].items = ret[r].items => FreshFormMoves(q, r)]_vars

(* After a refund the order says REFUNDED exactly if all its completed     *)
(* refunds reach what was paid, unless a refund or a payment was committed *)
(* while this one ran.                                                     *)
RefundVerdict ==
  [][\A f \in Refunds : refund[f] = 0 /\ refund'[f] > 0 =>
       \/ order'.payment = Verdict(Refunded(refund'), order'.paid)
       \/ \E q \in Requests :
            /\ request[q].kind = "refunding" /\ request'[q] = Idle
            /\ request[q].paid # order.paid \/ request[q].seen # refund]_vars
=============================================================================
