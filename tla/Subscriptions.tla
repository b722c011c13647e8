--------------------------- MODULE Subscriptions ---------------------------
(* The billing state of one store, kept in two rows: the Store row (plan,  *)
(* billing cycle, current period) and the Subscription row (status, agreed *)
(* price, next renewal).  Every handler of subscriptions.service.ts reads  *)
(* both, checks the status it read, and writes in a later transaction; the *)
(* older store endpoint of admin.service.ts writes the two rows in two     *)
(* commits.  Admins work at the same time, so any number of requests may   *)
(* have read before one of them writes.                                    *)
(*                                                                         *)
(* Time is counted in units of which a billing period lasts Period[cycle]. *)
(* The agreed price is named by the plan and the cycle it is the price of. *)
(* The process may die between two steps: its request then stays where it  *)
(* is (no action is fair).                                                 *)
EXTENDS Integers, Sequences

CONSTANTS Requests,       \* the admin requests of a behaviour, each served once
          Plans,
          Period,         \* the length of a billing period
          MaxTime,        \* bound: the clock
          MaxExtension    \* bound: how far one request extends a period

Cycles == {"MONTHLY", "YEARLY"}

ASSUME SubscriptionsAssumption ==
  /\ Period \in [Cycles -> Nat \ {0}]
  /\ MaxTime \in Nat
  /\ MaxExtension \in Nat

VARIABLES store,          \* plan, billingCycle, subscriptionStartAt, subscriptionEndAt
          sub,            \* the Subscription row
          activities,     \* SubscriptionActivity rows, in the order they commit
          changes,        \* SubscriptionPackageChange rows, likewise
          request,        \* what each request has read and is about to write
          now

vars == <<store, sub, activities, changes, request, now>>

Statuses == {"TRIAL", "ACTIVE", "SUSPENDED", "CANCELLED", "PENDING_PAYMENT"}
PaymentStatuses == {"PAID", "UNPAID", "PENDING_PAYMENT", "FAILED", "REFUNDED"}
ActivityTypes ==
  {"CREATED", "RENEWED", "EXTENDED", "PACKAGE_CHANGED", "SUSPENDED",
   "REACTIVATED", "CANCELLED", "PAYMENT_STATUS_CHANGED", "NOTE_ADDED"}

computeSubscriptionEnd(start, cycle) == start + Period[cycle]

-----------------------------------------------------------------------------
(* Reading: findOrThrow, then assertTransition on what it returned.        *)

(* Mutant: a cancelled subscription may be reactivated.                    *)
ReactivateCancelled ==
  LET live == {"TRIAL", "ACTIVE", "PENDING_PAYMENT"} IN
  [suspend       |-> live,
   reactivate    |-> {"SUSPENDED", "CANCELLED"},
   cancel        |-> live \cup {"SUSPENDED"},
   renew         |-> live,
   extend        |-> live,
   changePackage |-> live]

ALLOWED_TRANSITIONS ==
  LET live == {"TRIAL", "ACTIVE", "PENDING_PAYMENT"} IN
  [suspend       |-> live,
   reactivate    |-> {"SUSPENDED"},
   cancel        |-> live \cup {"SUSPENDED"},
   renew         |-> live,
   extend        |-> live,
   changePackage |-> live]

Unchecked == {"updatePaymentStatus", "addNote", "updatePlan"}
Handlers == DOMAIN ALLOWED_TRANSITIONS \cup Unchecked

assertTransition(k) ==
  k \in DOMAIN ALLOWED_TRANSITIONS => sub.status \in ALLOWED_TRANSITIONS[k]

(* Request r for handler k is admitted; it will write plan p, cycle c and, *)
(* if it extends the period, the end e computed from the end it read.      *)
Admit(r, k, p, c, e) ==
  /\ request[r].phase = "idle"
  /\ assertTransition(k)
  /\ request' = [request EXCEPT ![r] =
       [phase |-> "read", kind |-> k, since |-> now,
        saw |-> [status |-> sub.status, plan |-> sub.plan, end |-> store.end],
        plan |-> p, cycle |-> c, end |-> e]]
  /\ UNCHANGED <<store, sub, activities, changes, now>>

BeginPlain(r) ==
  \E k \in {"renew", "suspend", "reactivate", "cancel", "updatePaymentStatus", "addNote"} :
    Admit(r, k, sub.plan, store.cycle, store.end)

(* Mutant: the new end may be the current one. *)
ExtendToSameEnd(r) ==
  \E e \in store.end .. store.end + MaxExtension :
    Admit(r, "extend", sub.plan, store.cycle, e)

(* newEndAt must lie after the end just read; extendByDays is positive.    *)
BeginExtend(r) ==
  \E e \in store.end + 1 .. store.end + MaxExtension :
    Admit(r, "extend", sub.plan, store.cycle, e)

(* A package change, or the older endpoint's: a plan, and the cycle asked  *)
(* for or the one just read.                                               *)
BeginChange(r) ==
  \E k \in {"changePackage", "updatePlan"}, p \in Plans, c \in Cycles :
    Admit(r, k, p, c, store.end)

-----------------------------------------------------------------------------
(* Writing: one transaction each.  A handler takes the time between its    *)
(* read and its transaction.                                               *)

Commits(r, k) ==
  /\ request[r].phase = "read" /\ request[r].kind = k
  /\ request' = [request EXCEPT ![r].phase = "done"]
  /\ now' = now

Taken(r) == request[r].since .. now

logActivity(type) == activities' = Append(activities, type)

renew(r) ==
  /\ Commits(r, "renew")
  /\ \E start \in Taken(r) :
       LET end == computeSubscriptionEnd(start, request[r].cycle) IN
       /\ store' = [store EXCEPT !.start = start, !.end = end]
       /\ sub' = [sub EXCEPT !.status = "ACTIVE", !.nextRenewalAt = end]
  /\ logActivity("RENEWED")
  /\ changes' = changes

(* Mutant: the next renewal is forgotten. *)
ExtendStoreOnly(r) ==
  /\ Commits(r, "extend")
  /\ store' = [store EXCEPT !.end = request[r].end]
  /\ logActivity("EXTENDED")
  /\ UNCHANGED <<sub, changes>>

extend(r) ==
  /\ Commits(r, "extend")
  /\ store' = [store EXCEPT !.end = request[r].end]
  /\ sub' = [sub EXCEPT !.nextRenewalAt = request[r].end]
  /\ logActivity("EXTENDED")
  /\ changes' = changes

changePackage(r) ==
  /\ Commits(r, "changePackage")
  /\ LET p == request[r].plan
         c == request[r].cycle
     IN
     /\ \E start \in Taken(r) :
          LET end == computeSubscriptionEnd(start, c) IN
          /\ store' = [plan |-> p, cycle |-> c, start |-> start, end |-> end]
          /\ sub' = [sub EXCEPT !.plan = p, !.price = <<p, c>>, !.nextRenewalAt = end]
     /\ changes' = Append(changes, [from |-> request[r].saw.plan, to |-> p])
  /\ logActivity("PACKAGE_CHANGED")

suspend(r) ==
  /\ Commits(r, "suspend")
  /\ sub' = [sub EXCEPT !.status = "SUSPENDED"]
  /\ logActivity("SUSPENDED")
  /\ UNCHANGED <<store, changes>>

reactivate(r) ==
  /\ Commits(r, "reactivate")
  /\ sub' = [sub EXCEPT !.status = "ACTIVE"]
  /\ logActivity("REACTIVATED")
  /\ UNCHANGED <<store, changes>>

cancel(r) ==
  /\ Commits(r, "cancel")
  /\ sub' = [sub EXCEPT !.status = "CANCELLED"]
  /\ logActivity("CANCELLED")
  /\ UNCHANGED <<store, changes>>

(* Mutant: the subscription's status lands in its payment status. *)
StatusIntoPayment(r) ==
  /\ Commits(r, "updatePaymentStatus")
  /\ sub' = [sub EXCEPT !.paymentStatus = sub.status]
  /\ logActivity("PAYMENT_STATUS_CHANGED")
  /\ UNCHANGED <<store, changes>>

updatePaymentStatus(r) ==
  /\ Commits(r, "updatePaymentStatus")
  /\ \E s \in PaymentStatuses : sub' = [sub EXCEPT !.paymentStatus = s]
  /\ logActivity("PAYMENT_STATUS_CHANGED")
  /\ UNCHANGED <<store, changes>>

addNote(r) ==
  /\ Commits(r, "addNote")
  /\ logActivity("NOTE_ADDED")
  /\ UNCHANGED <<store, sub, changes>>

(* admin.updatePlan: the Store row, then, in a commit of its own, the      *)
(* Subscription row.                                                       *)
updatePlanStore(r) ==
  /\ request[r].phase = "read" /\ request[r].kind = "updatePlan"
  /\ \E start \in Taken(r) :
       LET end == computeSubscriptionEnd(start, request[r].cycle) IN
       /\ store' = [plan |-> request[r].plan, cycle |-> request[r].cycle,
                    start |-> start, end |-> end]
       /\ request' = [request EXCEPT ![r].phase = "half", ![r].end = end]
  /\ UNCHANGED <<sub, activities, changes, now>>

updatePlanSubscription(r) ==
  /\ request[r].phase = "half"
  /\ sub' = [sub EXCEPT !.plan = request[r].plan,
                        !.price = <<request[r].plan, request[r].cycle>>,
                        !.nextRenewalAt = request[r].end]
  /\ request' = [request EXCEPT ![r].phase = "done"]
  /\ UNCHANGED <<store, activities, changes, now>>

Tick == now < MaxTime /\ now' = now + 1 /\ UNCHANGED <<store, sub, activities, changes, request>>

-----------------------------------------------------------------------------
(* Registration: a free month, whatever the cycle; then the admins.        *)
Init ==
  \E p \in Plans, c \in Cycles :
    /\ store = [plan |-> p, cycle |-> c, start |-> 0, end |-> Period["MONTHLY"]]
    /\ sub = [status |-> "TRIAL", paymentStatus |-> "UNPAID", plan |-> p,
              price |-> <<p, c>>, nextRenewalAt |-> Period["MONTHLY"]]
    /\ activities = <<"CREATED">>
    /\ changes = <<[from |-> p, to |-> p]>>
    /\ request = [r \in Requests |-> [phase |-> "idle"]]
    /\ now = 0

Next ==
  \/ \E r \in Requests :
       \/ BeginPlain(r) \/ BeginExtend(r) \/ BeginChange(r)
       \/ renew(r) \/ extend(r) \/ changePackage(r)
       \/ suspend(r) \/ reactivate(r) \/ cancel(r)
       \/ updatePaymentStatus(r) \/ addNote(r)
       \/ updatePlanStore(r) \/ updatePlanSubscription(r)
  \/ Tick

Spec == Init /\ [][Next]_vars

-----------------------------------------------------------------------------
(* The variables keep their shapes.                                        *)
RequestType ==
  [phase : {"idle"}] \cup
  [phase : {"read", "half", "done"}, kind : Handlers, since : Nat,
   saw : [status : Statuses, plan : Plans, end : Nat],
   plan : Plans, cycle : Cycles, end : Nat]

TypeOK ==
  /\ store \in [plan : Plans, cycle : Cycles, start : Nat, end : Nat]
  /\ sub \in [status : Statuses, paymentStatus : PaymentStatuses, plan : Plans,
              price : Plans \X Cycles, nextRenewalAt : Nat]
  /\ activities \in Seq(ActivityTypes)
  /\ changes \in Seq([from : Plans, to : Plans])
  /\ request \in [Requests -> RequestType]
  /\ now \in Nat

LegacyWrote ==
  \E r \in Requests : /\ request[r].phase \in {"half", "done"}
                      /\ request[r].kind = "updatePlan"

(* The two rows give one answer: the subscription renews when the store's  *)
(* period ends, for the store's plan, at the price of the store's plan and *)
(* cycle.  Whatever handlers of subscriptions.service.ts overlap, however  *)
(* stale their reads, only the older endpoint can break it.                *)
OneContract ==
  /\ sub.plan = store.plan
  /\ sub.price = <<store.plan, store.cycle>>
  /\ sub.nextRenewalAt = store.end

RowsAgree == ~LegacyWrote => OneContract

(* The status is the one the last status event of the history leads to:    *)
(* no overlap of handlers separates the row from its activity log.         *)
StatusAfter ==
  [CREATED |-> "TRIAL", RENEWED |-> "ACTIVE", REACTIVATED |-> "ACTIVE",
   SUSPENDED |-> "SUSPENDED", CANCELLED |-> "CANCELLED"]

HistoryTellsStatus ==
  \E i \in 1 .. Len(activities) :
    /\ activities[i] \in DOMAIN StatusAfter
    /\ sub.status = StatusAfter[activities[i]]
    /\ \A j \in i + 1 .. Len(activities) : activities[j] \notin DOMAIN StatusAfter

(* The last recorded package change is the package the store has, on both  *)
(* rows, as long as the older endpoint, which records none, is not used.   *)
ChangesTellPlan ==
  /\ changes # <<>>
  /\ ~LegacyWrote => /\ changes[Len(changes)].to = sub.plan
                     /\ changes[Len(changes)].to = store.plan

(* What the platform would be asked to prove of a contract: its two rows,  *)
(* its activity log and its package history tell one story, however the    *)
(* requests of the administrators overlap.                                 *)
RecordsAgree == RowsAgree /\ HistoryTellsStatus /\ ChangesTellPlan

(* A cancelled subscription comes back to life only by a request that read *)
(* the row before it was cancelled: none is admitted afterwards.           *)
RevivedOnlyByStaleRead ==
  [][sub.status = "CANCELLED" /\ sub'.status # "CANCELLED" =>
       \E r \in Requests : /\ request[r].phase = "read"
                           /\ request'[r].phase = "done"
                           /\ request[r].saw.status # "CANCELLED"]_vars

(* An extension moves the end of the period forward, unless the end moved  *)
(* since the request read it.                                              *)
ExtendsForward ==
  [][\A r \in Requests :
       extend(r) /\ request[r].saw.end = store.end => store'.end > store.end]_vars

-----------------------------------------------------------------------------
(* "remain the single source of truth for plan + dates so the existing     *)
(* admin stores plan-selector can't drift out of sync" (schema.prisma):    *)
(* once no request is under way, the rows agree.                           *)
DocNoDrift == (\A r \in Requests : request[r].phase \in {"idle", "done"}) => OneContract

=============================================================================
