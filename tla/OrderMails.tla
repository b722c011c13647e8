----------------------------- MODULE OrderMails -----------------------------
(***************************************************************************)
(* The mails a store's events call for (src/mail/transactional-mail): the  *)
(* orders and returns whose stages employees and customers move, and the   *)
(* events that happen once.  A handler starts the mail after its commit    *)
(* and does not wait: the mail loads what it needs, checks the plan and    *)
(* joins the queue, whose idempotency keys refuse a mail already there     *)
(* (EmailQueue.tla takes it from there).                                   *)
(***************************************************************************)
EXTENDS Integers, Sequences, FiniteSets

CONSTANTS
  Orders, Returns,  \* ids
  OrderOf,          \* OrderOf[r]: the order of the return r
  Occasions,        \* events that are no change of a stage, a subset of Notice
  Suffixes,         \* suffixes callers of sendSubscriptionEvent supply
  OrderStages,      \* the order statuses employees enter
  ReturnStages,     \* and the return statuses
  Requests,         \* concurrent requests
  MaxHandled,       \* bound: events committed in a behaviour
  MaxSending,       \* bound: methods in flight at once
  MaxFailures       \* bound: failures and stops of the process

(* Every method with the mails it dispatches, in their order. *)
MailsFor == [
  orderPlaced         |-> <<"ORDER_CONFIRMATION", "MERCHANT_NEW_ORDER">>,
  orderStatus         |-> <<"ORDER_STATUS_UPDATE">>,
  cancelledByCustomer |-> <<"ORDER_CANCELLED_BY_CUSTOMER", "MERCHANT_ORDER_CANCELLED">>,
  returnStatus        |-> <<"RETURN_STATUS_UPDATE">>,
  refundIssued        |-> <<"REFUND_ISSUED">>,
  subscription        |-> <<"SUBSCRIPTION">>,
  merchantWelcome     |-> <<"MERCHANT_WELCOME">>,
  newMerchant         |-> <<"ADMIN_NEW_MERCHANT">>,
  customerWelcome     |-> <<"CUSTOMER_WELCOME">>,
  passwordReset       |-> <<"PASSWORD_RESET">>]

(* Mails composed from an order, which they load first. *)
FromOrder == {"orderPlaced", "orderStatus", "cancelledByCustomer", "returnStatus", "refundIssued"}

(* Mails for the buyer of an order; the others have an address of their own. *)
ToBuyer == {"ORDER_CONFIRMATION", "ORDER_STATUS_UPDATE", "ORDER_CANCELLED_BY_CUSTOMER",
            "RETURN_STATUS_UPDATE", "REFUND_ISSUED"}

(* Mutant: refunds are forgotten. *)
GatedButRefunds == (ToBuyer \ {"REFUND_ISSUED"}) \cup {"CUSTOMER_WELCOME"}

(* GATED_CUSTOMER_EVENTS: sent only under a plan with CUSTOMER_EMAILS. *)
Gated == ToBuyer \cup {"CUSTOMER_WELCOME"}

Subjects == Orders \cup Returns
Stages   == OrderStages \cup ReturnStages \cup {"PENDING", "REQUESTED", "CANCELLED"}
NoStage  == "none"

(* What a method is called with: the row, its order, and the new stage; for *)
(* an event that may repeat, stage is the suffix the caller supplies.       *)
Notice == [method : DOMAIN MailsFor, about : Subjects \cup {"store"}, order : Orders \cup {"none"},
           stage : Stages \cup {NoStage} \cup Suffixes]

(* The methods' calls: what they are about, the order they load, and the   *)
(* end of the key they pass.                                               *)
Call(m, s, o, st) == [method |-> m, about |-> s, order |-> o, stage |-> st]

OrderPlaced(o)              == Call("orderPlaced", o, o, "PENDING")
OrderStatusUpdate(o, st)    == IF st = "PENDING" THEN {} ELSE {Call("orderStatus", o, o, st)}
OrderCancelledByCustomer(o) == Call("cancelledByCustomer", o, o, "CANCELLED")
ReturnStatusUpdate(r, st)   == Call("returnStatus", r, OrderOf[r], st)
RefundIssued(o)             == Call("refundIssued", o, o, NoStage)
SubscriptionEvent(suffix)   == Call("subscription", "store", "none", suffix)
AccountEvents ==
  {Call(m, "store", "none", NoStage) :
     m \in {"merchantWelcome", "newMerchant", "customerWelcome", "passwordReset"}}

ASSUME MailAssumption ==
  /\ OrderOf \in [Returns -> Orders] /\ Orders \cap Returns = {}
  /\ Occasions \subseteq Notice /\ MaxHandled \in Nat
  /\ MaxSending \in Nat /\ MaxFailures \in Nat

VARIABLES
  stage,     \* stage[s]: status of an order or a return, NoStage before it exists
  reachable, \* orders whose buyer left an address (account or guest)
  reached,   \* reached[s]: the statuses it has had
  feature,   \* whether the store's plan includes CUSTOMER_EMAILS
  request,   \* request[q]: a change of stage between its read and its commit
  sending,   \* the mail methods in flight, by the event that started them
  queued,    \* EmailLog: the mails that joined the queue
  dropped,   \* mails that never will, with the reason
  handled,   \* events committed
  failures   \* failures so far

mailVars ==
  <<stage, reachable, reached, feature, request, sending, queued, dropped, handled, failures>>

-----------------------------------------------------------------------------
Idle == [kind |-> "idle"]

MailsInit ==
  /\ stage = [s \in Subjects |-> NoStage]
  /\ reached = [s \in Subjects |-> {}] /\ reachable = {}
  /\ feature \in BOOLEAN
  /\ request = [q \in Requests |-> Idle]
  /\ sending = {} /\ queued = {} /\ dropped = {}
  /\ handled = 0 /\ failures = 0

FreeId == CHOOSE i \in 1..MaxSending :
            /\ \A j \in sending : j.id # i
            /\ \A k \in 1..i - 1 : \E j \in sending : j.id = k

(* A committed event, the notices it starts, and the plan from then on.  A *)
(* method in flight has the mails left to dispatch, the step the first of  *)
(* them is at, whether the plan included CUSTOMER_EMAILS at any time since *)
(* the event, and whether the lookup for this mail told.                   *)
Commit(notices, f) ==
  /\ handled < MaxHandled /\ Cardinality(sending) + Cardinality(notices) <= MaxSending
  /\ handled' = handled + 1
  /\ sending' = {[j EXCEPT !.entitled = @ \/ f] : j \in sending} \cup
       {[id |-> FreeId, notice |-> n, todo |-> MailsFor[n.method], entitled |-> f, sure |-> TRUE,
         step |-> IF n.method \in FromOrder THEN "load" ELSE "check"] : n \in notices}
  /\ feature' = f
  /\ UNCHANGED <<queued, dropped, failures>>

Enter(s, st) ==
  /\ stage' = [stage EXCEPT ![s] = st]
  /\ reached' = [reached EXCEPT ![s] = @ \cup {st}]

(* createGuestOrder, createReturn and requestReturn; a new return is not   *)
(* announced by mail.                                                      *)
PlaceOrder(o) ==
  /\ stage[o] = NoStage
  /\ Enter(o, "PENDING")
  /\ reachable' \in {reachable, reachable \cup {o}}
  /\ Commit({OrderPlaced(o)}, feature)
  /\ UNCHANGED request

OpenReturn(r) ==
  /\ stage[OrderOf[r]] = "DELIVERED" /\ stage[r] = NoStage
  /\ Enter(r, "REQUESTED")
  /\ Commit({}, feature)
  /\ UNCHANGED <<request, reachable>>

(* updateStatus, updateReturn, cancelOrder: the row is read first. *)
ReadStage(q, s, st) ==
  /\ stage[s] # NoStage
  /\ request[q] = Idle
  /\ request' = [request EXCEPT ![q] = [kind |-> "move", about |-> s, existing |-> stage[s], to |-> st]]
  /\ UNCHANGED <<stage, reachable, reached, feature, sending, queued, dropped, handled, failures>>

ReadForCancel(q, o) ==
  /\ stage[o] \in {"PENDING", "CONFIRMED"}
  /\ request[q] = Idle
  /\ request' = [request EXCEPT ![q] = [kind |-> "cancel", about |-> o, existing |-> stage[o],
                                        to |-> "CANCELLED"]]
  /\ UNCHANGED <<stage, reachable, reached, feature, sending, queued, dropped, handled, failures>>

(* Mutant: the mail is skipped for an order that was PENDING. *)
NoticesUnlessWasPending(req) ==
  LET s == req.about
  IN IF req.kind = "cancel" THEN {OrderCancelledByCustomer(s)}
     ELSE IF req.existing \in {req.to, "PENDING"} THEN {}
     ELSE IF s \in Returns THEN {ReturnStatusUpdate(s, req.to)}
     ELSE OrderStatusUpdate(s, req.to)

(* The notices of a change, which is one against the row as it was read. *)
NoticesOf(req) ==
  LET s == req.about
  IN IF req.kind = "cancel" THEN {OrderCancelledByCustomer(s)}
     ELSE IF req.existing = req.to THEN {}
     ELSE IF s \in Returns THEN {ReturnStatusUpdate(s, req.to)}
     ELSE OrderStatusUpdate(s, req.to)

CommitStage(q) ==
  /\ request[q].kind \in {"move", "cancel"}
  /\ Enter(request[q].about, request[q].to)
  /\ Commit(NoticesOf(request[q]), feature)
  /\ request' = [request EXCEPT ![q] = Idle]
  /\ UNCHANGED reachable

(* Refunds, subscription changes, registrations and password resets; the   *)
(* same suffix may come again (two renewals computed to the same end).     *)
Happen(n) ==
  /\ n.order # "none" => stage[n.order] # NoStage
  /\ Commit({n}, feature)
  /\ UNCHANGED <<stage, reachable, reached, request>>

(* The store moves to a plan with or without the feature. *)
ChangePlan ==
  /\ Commit({}, ~ feature)
  /\ UNCHANGED <<stage, reachable, reached, request>>

-----------------------------------------------------------------------------
(* A mail, its key, and the mails a job has left. *)
MailOf(j, e)  == [event |-> e, about |-> j.notice.about, stage |-> j.notice.stage]
LeftOf(j)     == {MailOf(j, j.todo[i]) : i \in 1..Len(j.todo)}

(* `${event}:${suffix}`: with the stage where a stage is announced, or the *)
(* caller's suffix.                                                        *)
KeyOf(m) == <<m.event, m.about, m.stage>>

Replace(j, js) == sending' = (sending \ {j}) \cup js
Drop(ms, why)  == dropped' = dropped \cup {[mail |-> m, why |-> why] : m \in ms}
(* The mails after the first, if any. *)
NextMail(j) ==
  IF Len(j.todo) = 1 THEN {} ELSE {[j EXCEPT !.todo = Tail(@), !.step = "check", !.sure = TRUE]}

Fault == failures < MaxFailures /\ failures' = failures + 1

Sends == UNCHANGED <<stage, reachable, reached, feature, request, handled>>

(* loadOrder, or `safely` when it fails. *)
Load(j) ==
  /\ j.step = "load"
  /\ \/ Replace(j, {[j EXCEPT !.step = "check"]}) /\ UNCHANGED <<queued, dropped, failures>>
     \/ Fault /\ Replace(j, {}) /\ Drop(LeftOf(j), "failed") /\ UNCHANGED queued
  /\ Sends

(* isEntitled, for the first mail left: no address, not under this plan,   *)
(* or on its way; a lookup that fails lets the mail pass.                  *)
Addressed(j) == Head(j.todo) \in ToBuyer => j.notice.order \in reachable
Check(j) ==
  /\ j.step = "check"
  /\ LET gated == Head(j.todo) \in Gated
         m     == MailOf(j, Head(j.todo))
     IN CASE ~ Addressed(j) -> Replace(j, NextMail(j)) /\ Drop({m}, "no address") /\ UNCHANGED failures
          [] Addressed(j) /\ gated ->
               \/ ~ feature /\ Replace(j, NextMail(j)) /\ Drop({m}, "plan") /\ UNCHANGED failures
               \/ feature /\ Replace(j, {[j EXCEPT !.step = "enqueue"]}) /\ UNCHANGED <<dropped, failures>>
               \/ Fault /\ Replace(j, {[j EXCEPT !.step = "enqueue", !.sure = FALSE]}) /\ UNCHANGED dropped
          [] OTHER -> Replace(j, {[j EXCEPT !.step = "enqueue"]}) /\ UNCHANGED <<dropped, failures>>
  /\ UNCHANGED queued
  /\ Sends

(* enqueue: a key already in the log is a mail already queued; a failure    *)
(* is caught and the next mail goes on.                                    *)
JoinQueue(j) ==
  /\ j.step = "enqueue"
  /\ LET m == MailOf(j, Head(j.todo))
     IN \/ /\ queued' = IF \E l \in queued : KeyOf(l) = KeyOf(m) THEN queued ELSE queued \cup {m}
           /\ UNCHANGED <<dropped, failures>>
        \/ Fault /\ Drop({m}, "failed") /\ UNCHANGED queued
  /\ Replace(j, NextMail(j))
  /\ Sends

Dispatch == \E j \in sending : Load(j) \/ Check(j) \/ JoinQueue(j)

(* The process stops: the mails in flight were in its memory. *)
Stop ==
  /\ sending # {} /\ Fault
  /\ Drop(UNION {LeftOf(j) : j \in sending}, "stopped")
  /\ sending' = {}
  /\ request' = [q \in Requests |-> Idle]
  /\ UNCHANGED <<stage, reachable, reached, feature, queued, handled>>

MailsNext ==
  \/ \E o \in Orders : PlaceOrder(o)
  \/ \E r \in Returns : OpenReturn(r)
  \/ \E q \in Requests, o \in Orders : ReadForCancel(q, o) \/ (\E st \in OrderStages : ReadStage(q, o, st))
  \/ \E q \in Requests, r \in Returns, st \in ReturnStages : ReadStage(q, r, st)
  \/ \E q \in Requests : CommitStage(q)
  \/ \E n \in Occasions : Happen(n)
  \/ ChangePlan \/ Dispatch \/ Stop

MailsSpec == MailsInit /\ [][MailsNext]_mailVars

-----------------------------------------------------------------------------
Announced == UNION {{MailsFor[k][i] : i \in 1..Len(MailsFor[k])} : k \in DOMAIN MailsFor}
Mail == [event : Announced, about : Subjects \cup {"store"}, stage : Stages \cup {NoStage} \cup Suffixes]

(* Every row is one the code writes, and no key is in the log twice. *)
MailsTyped ==
  /\ stage \in [Subjects -> Stages \cup {NoStage}]
  /\ reached \in [Subjects -> SUBSET Stages] /\ reachable \subseteq Orders
  /\ feature \in BOOLEAN /\ handled \in 0..MaxHandled
  /\ queued \subseteq Mail
  /\ \A m, l \in queued : KeyOf(m) = KeyOf(l) => m = l
  /\ dropped \subseteq [mail : Mail, why : {"failed", "no address", "plan", "stopped"}]
  /\ \A j \in sending : LeftOf(j) \subseteq Mail /\ LeftOf(j) # {}

(* "Keyed by status so each stage sends once": whatever the order in which *)
(* stages were entered, left and entered again, and although the change is *)
(* detected on a row read before the transaction, every stage an order or  *)
(* a return has had was announced to the buyer, is being announced, or     *)
(* was lost for a reason the service knows.  (A return's first stage, and  *)
(* a return to PENDING, are announced by no mail of their own.)            *)
About(m, s, st) == m.about = s /\ m.stage = st /\ m.event \in ToBuyer
StagesTold ==
  \A s \in Subjects : \A st \in reached[s] :
    \/ \E m \in queued : About(m, s, st)
    \/ \E d \in dropped : About(d.mail, s, st)
    \/ \E j \in sending : \E m \in LeftOf(j) : About(m, s, st)
    \/ s \in Returns /\ st = "REQUESTED"

(* What a merchant mails his customers is a feature of his plan, password  *)
(* resets excepted: such a mail joins the queue only if the plan included  *)
(* it at the event or later, or the plan could not be read; and the plan   *)
(* stops no other mail.                                                    *)
ToCustomers == ToBuyer \cup {"CUSTOMER_WELCOME"}
PlanRespected ==
  [][/\ \A m \in queued' \ queued : m.event \in ToCustomers =>
          \E j \in sending : m \in LeftOf(j) /\ j \notin sending' /\ (j.entitled \/ ~ j.sure)
     /\ \A d \in dropped' \ dropped : d.why = "plan" => d.mail.event \in ToCustomers]_mailVars

(* The owner hears of every order, even if the buyer's own mail cannot be  *)
(* sent: only a failure of his mail, or a stop of the process, prevents it. *)
OwnerTold ==
  \A o \in Orders : stage[o] # NoStage =>
    LET mail == [event |-> "MERCHANT_NEW_ORDER", about |-> o, stage |-> "PENDING"]
    IN \/ mail \in queued
       \/ \E d \in dropped : d.mail = mail /\ d.why \in {"failed", "stopped"}
       \/ \E j \in sending : mail \in LeftOf(j)

(* Buyer and owner are told, each of them whatever happens to the other's  *)
(* mail.                                                                   *)
NoticesSound == MailsTyped /\ StagesTold /\ OwnerTold
=============================================================================
