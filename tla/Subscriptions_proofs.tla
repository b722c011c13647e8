------------------------ MODULE Subscriptions_proofs ------------------------
(* For any number of concurrent requests, of plans and any lengths of the  *)
(* billing periods: the two rows, the activity log and the package history *)
(* tell one story, unless the older store endpoint wrote.                  *)
EXTENDS Subscriptions, SequenceTheorems, TLAPS

Writes(r) ==
  \/ renew(r) \/ extend(r) \/ changePackage(r)
  \/ suspend(r) \/ reactivate(r) \/ cancel(r)
  \/ updatePaymentStatus(r) \/ addNote(r)
  \/ updatePlanStore(r) \/ updatePlanSubscription(r)

Reads(r) == BeginPlain(r) \/ BeginExtend(r) \/ BeginChange(r)

(* What a request that has been read looks like.                           *)
LEMMA ActiveRequest ==
  ASSUME TypeOK, NEW r \in Requests, request[r].phase # "idle"
  PROVE  /\ request[r] \in [phase : {"read", "half", "done"}, kind : Handlers, since : Nat,
                            saw : [status : Statuses, plan : Plans, end : Nat],
                            plan : Plans, cycle : Cycles, end : Nat]
         /\ request[r].plan \in Plans /\ request[r].cycle \in Cycles
         /\ request[r].end \in Nat /\ request[r].since \in Nat
         /\ request[r].saw.plan \in Plans
<1>1. request[r] \in RequestType
  BY DEF TypeOK
<1>2. request[r] \notin [phase : {"idle"}]
  OBVIOUS
<1> QED
  BY <1>1, <1>2 DEF RequestType

LEMMA AnEndIsATime ==
  ASSUME TypeOK, NEW r \in Requests, NEW start \in Taken(r), NEW c \in Cycles,
         request[r].phase # "idle"
  PROVE  start \in Nat /\ computeSubscriptionEnd(start, c) \in Nat
<1>1. start \in Nat
  BY ActiveRequest DEF Taken, TypeOK
<1>2. Period[c] \in Nat
  BY SubscriptionsAssumption
<1> QED
  BY <1>1, <1>2 DEF computeSubscriptionEnd

(* A request that goes on keeps the shape of a request.                    *)
LEMMA PhaseAdvances ==
  ASSUME TypeOK, NEW r \in Requests, request[r].phase # "idle", NEW e \in Nat,
         NEW ph \in {"half", "done"},
         request' = [request EXCEPT ![r].phase = ph]
           \/ request' = [request EXCEPT ![r].phase = ph, ![r].end = e]
  PROVE  request' \in [Requests -> RequestType]
<1>1. /\ [request[r] EXCEPT !.phase = ph] \in RequestType
      /\ [[request[r] EXCEPT !.phase = ph] EXCEPT !.end = e] \in RequestType
  BY ActiveRequest DEF RequestType
<1>2. request \in [Requests -> RequestType]
  BY DEF TypeOK
<1> QED
  BY <1>1, <1>2

LEMMA TypeInductive == TypeOK /\ [Next]_vars => TypeOK'
<1> SUFFICES ASSUME TypeOK, [Next]_vars PROVE TypeOK'
  OBVIOUS
<1>0. CASE UNCHANGED vars
  BY <1>0 DEF TypeOK, vars
<1>1. CASE Tick
  BY <1>1 DEF TypeOK, Tick
<1>2. ASSUME NEW r \in Requests, Reads(r) PROVE TypeOK'
  <2>1. PICK k \in Handlers, p \in Plans, c \in Cycles, e \in Nat : Admit(r, k, p, c, e)
    <3>1. CASE BeginPlain(r)
      <4>1. sub.plan \in Plans /\ store.cycle \in Cycles /\ store.end \in Nat
        BY DEF TypeOK
      <4> QED
        BY <3>1, <4>1 DEF BeginPlain, Handlers, Unchecked, ALLOWED_TRANSITIONS
    <3>2. CASE BeginExtend(r)
      <4>1. sub.plan \in Plans /\ store.cycle \in Cycles /\ store.end \in Nat
        BY DEF TypeOK
      <4>2. \A e \in store.end + 1 .. store.end + MaxExtension : e \in Nat
        BY <4>1, SubscriptionsAssumption
      <4>3. "extend" \in Handlers
        BY DEF Handlers, ALLOWED_TRANSITIONS
      <4> QED
        BY <3>2, <4>1, <4>2, <4>3 DEF BeginExtend
    <3>3. CASE BeginChange(r)
      <4>1. store.end \in Nat /\ {"changePackage", "updatePlan"} \subseteq Handlers
        BY DEF TypeOK, Handlers, Unchecked, ALLOWED_TRANSITIONS
      <4> QED
        BY <3>3, <4>1 DEF BeginChange
    <3> QED
      BY <1>2, <3>1, <3>2, <3>3 DEF Reads
  <2> DEFINE q == [phase |-> "read", kind |-> k, since |-> now,
                   saw |-> [status |-> sub.status, plan |-> sub.plan, end |-> store.end],
                   plan |-> p, cycle |-> c, end |-> e]
  <2>2. q \in RequestType
    BY DEF TypeOK, RequestType
  <2>3. request' = [request EXCEPT ![r] = q] /\ UNCHANGED <<store, sub, activities, changes, now>>
    BY <2>1 DEF Admit
  <2> HIDE DEF q
  <2> QED
    BY <2>2, <2>3 DEF TypeOK
<1>3. ASSUME NEW r \in Requests, Writes(r) PROVE TypeOK'
  <2>0. /\ request[r].phase # "idle"
        /\ request' \in [Requests -> RequestType]
    <3>1. CASE updatePlanStore(r)
      <4>1. PICK start \in Taken(r) :
              request' = [request EXCEPT ![r].phase = "half",
                            ![r].end = computeSubscriptionEnd(start, request[r].cycle)]
        BY <3>1 DEF updatePlanStore
      <4>2. request[r].phase # "idle"
        BY <3>1 DEF updatePlanStore
      <4>3. computeSubscriptionEnd(start, request[r].cycle) \in Nat
        BY <4>2, ActiveRequest, AnEndIsATime
      <4> QED
        BY <4>1, <4>2, <4>3, PhaseAdvances
    <3>2. CASE ~updatePlanStore(r)
      <4>1. request[r].phase # "idle" /\ request' = [request EXCEPT ![r].phase = "done"]
        BY <1>3, <3>2 DEF Writes, Commits, renew, extend, changePackage, suspend, reactivate,
             cancel, updatePaymentStatus, addNote, updatePlanSubscription
      <4> QED
        BY <4>1, PhaseAdvances
    <3> QED
      BY <3>1, <3>2
  <2>1. store' \in [plan : Plans, cycle : Cycles, start : Nat, end : Nat]
    <3>1. CASE renew(r)
      <4>1. PICK start \in Taken(r) :
              store' = [store EXCEPT !.start = start,
                          !.end = computeSubscriptionEnd(start, request[r].cycle)]
        BY <3>1 DEF renew
      <4>2. start \in Nat /\ computeSubscriptionEnd(start, request[r].cycle) \in Nat
        BY <2>0, ActiveRequest, AnEndIsATime
      <4> QED
        BY <4>1, <4>2 DEF TypeOK
    <3>2. CASE extend(r)
      BY <3>2, <2>0, ActiveRequest DEF extend, TypeOK
    <3>3. CASE changePackage(r)
      BY <3>3, <2>0, ActiveRequest, AnEndIsATime DEF changePackage
    <3>4. CASE updatePlanStore(r)
      BY <3>4, <2>0, ActiveRequest, AnEndIsATime DEF updatePlanStore
    <3>5. CASE store' = store
      BY <3>5 DEF TypeOK
    <3> QED
      BY <1>3, <3>1, <3>2, <3>3, <3>4, <3>5 DEF Writes, suspend, reactivate, cancel,
           updatePaymentStatus, addNote, updatePlanSubscription
  <2>2. sub' \in [status : Statuses, paymentStatus : PaymentStatuses, plan : Plans,
                  price : Plans \X Cycles, nextRenewalAt : Nat]
    <3>1. CASE renew(r)
      <4>1. PICK start \in Taken(r) :
              sub' = [sub EXCEPT !.status = "ACTIVE",
                        !.nextRenewalAt = computeSubscriptionEnd(start, request[r].cycle)]
        BY <3>1 DEF renew
      <4>2. computeSubscriptionEnd(start, request[r].cycle) \in Nat
        BY <2>0, ActiveRequest, AnEndIsATime
      <4> QED
        BY <4>1, <4>2 DEF TypeOK, Statuses
    <3>2. CASE extend(r)
      BY <3>2, <2>0, ActiveRequest DEF extend, TypeOK
    <3>3. CASE changePackage(r)
      <4>1. PICK start \in Taken(r) :
              sub' = [sub EXCEPT !.plan = request[r].plan,
                        !.price = <<request[r].plan, request[r].cycle>>,
                        !.nextRenewalAt = computeSubscriptionEnd(start, request[r].cycle)]
        BY <3>3 DEF changePackage
      <4> QED
        BY <4>1, <2>0, ActiveRequest, AnEndIsATime DEF TypeOK
    <3>4. CASE suspend(r) \/ reactivate(r) \/ cancel(r)
      BY <3>4 DEF suspend, reactivate, cancel, TypeOK, Statuses
    <3>5. CASE updatePaymentStatus(r)
      BY <3>5 DEF updatePaymentStatus, TypeOK
    <3>6. CASE updatePlanSubscription(r)
      BY <3>6, <2>0, ActiveRequest DEF updatePlanSubscription, TypeOK
    <3>7. CASE sub' = sub
      BY <3>7 DEF TypeOK
    <3> QED
      BY <1>3, <3>1, <3>2, <3>3, <3>4, <3>5, <3>6, <3>7 DEF Writes, addNote, updatePlanStore
  <2>3. activities' \in Seq(ActivityTypes)
    <3>1. \/ activities' = activities
          \/ \E type \in ActivityTypes : activities' = Append(activities, type)
      BY <1>3 DEF Writes, renew, extend, changePackage, suspend, reactivate, cancel, addNote,
           updatePaymentStatus, updatePlanStore, updatePlanSubscription, logActivity, ActivityTypes
    <3>2. activities \in Seq(ActivityTypes)
      BY DEF TypeOK
    <3> QED
      BY <3>1, <3>2, AppendProperties
  <2>4. changes' \in Seq([from : Plans, to : Plans])
    <3> DEFINE C == [from : Plans, to : Plans]
    <3>1. \/ changes' = changes
          \/ changes' = Append(changes, [from |-> request[r].saw.plan, to |-> request[r].plan])
      BY <1>3 DEF Writes, renew, extend, changePackage, suspend, reactivate, cancel, addNote,
           updatePaymentStatus, updatePlanStore, updatePlanSubscription
    <3>2. PICK c \in C : c = [from |-> request[r].saw.plan, to |-> request[r].plan]
      BY <2>0, ActiveRequest
    <3>3. changes \in Seq(C)
      BY DEF TypeOK
    <3> HIDE DEF C
    <3>4. changes' \in Seq(C)
      BY <3>1, <3>2, <3>3, AppendProperties
    <3> QED
      BY <3>4 DEF C
  <2>5. now' \in Nat
    BY <1>3 DEF Writes, renew, extend, changePackage, suspend, reactivate, cancel, addNote,
         updatePaymentStatus, updatePlanStore, updatePlanSubscription, Commits, TypeOK
  <2> QED
    BY <2>0, <2>1, <2>2, <2>3, <2>4, <2>5 DEF TypeOK
<1> QED
  BY <1>0, <1>1, <1>2, <1>3 DEF Next, Reads, Writes

-----------------------------------------------------------------------------
(* The rows and the histories, as one inductive invariant: RowsAgree and   *)
(* ChangesTellPlan need each other only through the older endpoint's mark. *)

HalfIsLegacy ==
  \A r \in Requests : request[r].phase = "half" => request[r].kind = "updatePlan"

HistoryInv ==
  TypeOK /\ HalfIsLegacy /\ RowsAgree /\ HistoryTellsStatus /\ ChangesTellPlan

LEMMA HistoryInit == Init => HistoryInv
<1> SUFFICES ASSUME Init PROVE HistoryInv
  OBVIOUS
<1>1. PICK p \in Plans, c \in Cycles :
        /\ store = [plan |-> p, cycle |-> c, start |-> 0, end |-> Period["MONTHLY"]]
        /\ sub = [status |-> "TRIAL", paymentStatus |-> "UNPAID", plan |-> p,
                  price |-> <<p, c>>, nextRenewalAt |-> Period["MONTHLY"]]
        /\ activities = <<"CREATED">>
        /\ changes = <<[from |-> p, to |-> p]>>
        /\ request = [r \in Requests |-> [phase |-> "idle"]]
        /\ now = 0
  BY DEF Init
<1>2. Period["MONTHLY"] \in Nat
  BY SubscriptionsAssumption DEF Cycles
<1>3. TypeOK
  <2>1. activities \in Seq(ActivityTypes)
    BY <1>1 DEF ActivityTypes
  <2>2. changes \in Seq([from : Plans, to : Plans])
    BY <1>1
  <2>3. request \in [Requests -> RequestType]
    BY <1>1 DEF RequestType
  <2>4. /\ store \in [plan : Plans, cycle : Cycles, start : Nat, end : Nat]
        /\ sub \in [status : Statuses, paymentStatus : PaymentStatuses, plan : Plans,
                    price : Plans \X Cycles, nextRenewalAt : Nat]
        /\ now \in Nat
    BY <1>1, <1>2 DEF Statuses, PaymentStatuses
  <2> QED
    BY <2>1, <2>2, <2>3, <2>4 DEF TypeOK
<1>4. RowsAgree
  BY <1>1 DEF RowsAgree, OneContract
<1>5. HistoryTellsStatus
  <2>1. Len(activities) = 1 /\ activities[1] = "CREATED" /\ sub.status = "TRIAL"
    BY <1>1
  <2>2. 1 \in 1 .. Len(activities) /\ \A j \in 1 + 1 .. Len(activities) : FALSE
    BY <2>1
  <2> QED
    BY <2>1, <2>2 DEF HistoryTellsStatus, StatusAfter
<1>6. ChangesTellPlan
  BY <1>1 DEF ChangesTellPlan
<1>7. HalfIsLegacy
  BY <1>1 DEF HalfIsLegacy
<1> QED
  BY <1>3, <1>4, <1>5, <1>6, <1>7 DEF HistoryInv

(* Once the older endpoint has written, its mark stays.                    *)
LEMMA LegacyStays ==
  ASSUME TypeOK, [Next]_vars
  PROVE  LegacyWrote => LegacyWrote'
<1> SUFFICES ASSUME LegacyWrote PROVE LegacyWrote'
  OBVIOUS
<1>1. PICK x \in Requests : request[x].phase \in {"half", "done"} /\ request[x].kind = "updatePlan"
  BY DEF LegacyWrote
<1>2. request'[x].phase \in {"half", "done"} /\ request'[x].kind = "updatePlan"
  <2>1. CASE request' = request
    BY <2>1, <1>1
  <2>2. ASSUME NEW r \in Requests, Reads(r)
        PROVE  request'[x].phase \in {"half", "done"} /\ request'[x].kind = "updatePlan"
    <3>1. r # x
      BY <2>2, <1>1 DEF Reads, BeginPlain, BeginExtend, BeginChange, Admit
    <3>2. request'[x] = request[x]
      BY <2>2, <3>1 DEF Reads, BeginPlain, BeginExtend, BeginChange, Admit, TypeOK
    <3> QED
      BY <3>2, <1>1
  <2>3. ASSUME NEW r \in Requests, Writes(r)
        PROVE  request'[x].phase \in {"half", "done"} /\ request'[x].kind = "updatePlan"
    <3>1. CASE r # x
      <4>1. request'[x] = request[x]
        BY <2>3, <3>1 DEF Writes, renew, extend, changePackage, suspend, reactivate, cancel,
             addNote, updatePaymentStatus, updatePlanStore, updatePlanSubscription, Commits, TypeOK
      <4> QED
        BY <4>1, <1>1
    <3>2. CASE r = x
      <4>1. updatePlanSubscription(x)
        BY <2>3, <3>2, <1>1 DEF Writes, renew, extend, changePackage, suspend, reactivate, cancel,
             addNote, updatePaymentStatus, updatePlanStore, Commits
      <4>2. request'[x] = [request[x] EXCEPT !.phase = "done"]
        BY <4>1 DEF updatePlanSubscription, TypeOK
      <4>3. request[x].phase # "idle"
        BY <1>1
      <4> QED
        BY <4>2, <4>3, <1>1, ActiveRequest
    <3> QED
      BY <3>1, <3>2
  <2> QED
    BY <2>1, <2>2, <2>3 DEF Next, Reads, Writes, Tick, vars
<1> QED
  BY <1>2 DEF LegacyWrote

(* One named fact per kind of write: what it does to the two rows, to the  *)
(* log and to the package history.                                         *)
LEMMA WriteEffects ==
  ASSUME NEW r \in Requests, Writes(r), TypeOK
  PROVE  \/ /\ updatePlanStore(r) \/ updatePlanSubscription(r)
            /\ UNCHANGED <<activities, changes>> /\ sub'.status = sub.status
         \/ /\ store'.plan = store.plan /\ store'.cycle = store.cycle
            /\ sub'.plan = sub.plan /\ sub'.price = sub.price
            /\ \/ store'.end = sub'.nextRenewalAt
               \/ store'.end = store.end /\ sub'.nextRenewalAt = sub.nextRenewalAt
            /\ changes' = changes
            /\ \E type \in ActivityTypes :
                 /\ activities' = Append(activities, type)
                 /\ \/ type \in DOMAIN StatusAfter /\ sub'.status = StatusAfter[type]
                    \/ type \notin DOMAIN StatusAfter /\ sub'.status = sub.status
         \/ /\ store'.plan = request[r].plan /\ store'.cycle = request[r].cycle
            /\ sub'.plan = request[r].plan
            /\ sub'.price = <<request[r].plan, request[r].cycle>>
            /\ store'.end = sub'.nextRenewalAt
            /\ sub'.status = sub.status
            /\ changes' = Append(changes, [from |-> request[r].saw.plan, to |-> request[r].plan])
            /\ activities' = Append(activities, "PACKAGE_CHANGED")
<1> USE DEF StatusAfter, ActivityTypes
<1>1. CASE renew(r)
  <2>1. PICK end :
          /\ \E start : store' = [store EXCEPT !.start = start, !.end = end]
          /\ sub' = [sub EXCEPT !.status = "ACTIVE", !.nextRenewalAt = end]
    BY <1>1 DEF renew
  <2>2. activities' = Append(activities, "RENEWED") /\ changes' = changes
    BY <1>1 DEF renew, logActivity
  <2> QED
    BY <2>1, <2>2 DEF TypeOK
<1>2. CASE extend(r)
  BY <1>2 DEF extend, logActivity, TypeOK
<1>3. CASE changePackage(r)
  <2>1. PICK end :
          /\ \E start : store' = [plan |-> request[r].plan, cycle |-> request[r].cycle,
                                  start |-> start, end |-> end]
          /\ sub' = [sub EXCEPT !.plan = request[r].plan,
                                !.price = <<request[r].plan, request[r].cycle>>,
                                !.nextRenewalAt = end]
    BY <1>3 DEF changePackage
  <2>2. /\ activities' = Append(activities, "PACKAGE_CHANGED")
        /\ changes' = Append(changes, [from |-> request[r].saw.plan, to |-> request[r].plan])
    BY <1>3 DEF changePackage, logActivity
  <2>3. /\ sub'.plan = request[r].plan
        /\ sub'.price = <<request[r].plan, request[r].cycle>>
        /\ sub'.nextRenewalAt = end
        /\ sub'.status = sub.status
    BY <2>1 DEF TypeOK
  <2>4. store'.plan = request[r].plan /\ store'.cycle = request[r].cycle /\ store'.end = end
    BY <2>1
  <2> QED
    BY <2>2, <2>3, <2>4
<1>4. CASE suspend(r)
  BY <1>4 DEF suspend, logActivity, TypeOK
<1>5. CASE reactivate(r)
  BY <1>5 DEF reactivate, logActivity, TypeOK
<1>6. CASE cancel(r)
  BY <1>6 DEF cancel, logActivity, TypeOK
<1>7. CASE updatePaymentStatus(r)
  BY <1>7 DEF updatePaymentStatus, logActivity, TypeOK
<1>8. CASE addNote(r)
  BY <1>8 DEF addNote, logActivity, TypeOK
<1>9. CASE updatePlanStore(r)
  BY <1>9 DEF updatePlanStore
<1>10. CASE updatePlanSubscription(r)
  BY <1>10 DEF updatePlanSubscription, TypeOK
<1> QED
  BY <1>1, <1>2, <1>3, <1>4, <1>5, <1>6, <1>7, <1>8, <1>9, <1>10 DEF Writes

(* A request under way at its second commit belongs to the older endpoint. *)
LEMMA HalfStaysLegacy == TypeOK /\ HalfIsLegacy /\ [Next]_vars => HalfIsLegacy'
<1> SUFFICES ASSUME TypeOK, HalfIsLegacy, [Next]_vars, NEW x \in Requests, request'[x].phase = "half"
             PROVE  request'[x].kind = "updatePlan"
  BY DEF HalfIsLegacy
<1>1. CASE request' = request
  BY <1>1 DEF HalfIsLegacy
<1>2. ASSUME NEW r \in Requests, Reads(r) PROVE request'[x].kind = "updatePlan"
  BY <1>2 DEF Reads, BeginPlain, BeginExtend, BeginChange, Admit, TypeOK, HalfIsLegacy
<1>3. ASSUME NEW r \in Requests, Writes(r) PROVE request'[x].kind = "updatePlan"
  <2>1. CASE updatePlanStore(r)
    <3>1. PICK e : request' = [request EXCEPT ![r].phase = "half", ![r].end = e]
      BY <2>1 DEF updatePlanStore
    <3>2. request[r].phase # "idle" /\ request[r].kind = "updatePlan"
      BY <2>1 DEF updatePlanStore
    <3>3. CASE x # r
      BY <3>1, <3>3 DEF TypeOK, HalfIsLegacy
    <3>4. CASE x = r
      <4>1. request'[r] = [[request[r] EXCEPT !.phase = "half"] EXCEPT !.end = e]
        BY <3>1 DEF TypeOK
      <4> QED
        BY <4>1, <3>2, <3>4, ActiveRequest
    <3> QED
      BY <3>3, <3>4
  <2>2. CASE ~updatePlanStore(r)
    <3>1. request[r].phase # "idle" /\ request' = [request EXCEPT ![r].phase = "done"]
      BY <1>3, <2>2 DEF Writes, Commits, renew, extend, changePackage, suspend, reactivate,
           cancel, updatePaymentStatus, addNote, updatePlanSubscription
    <3>2. request'[r] = [request[r] EXCEPT !.phase = "done"] /\ (x # r => request'[x] = request[x])
      BY <3>1 DEF TypeOK
    <3>3. request'[r].phase = "done"
      BY <3>1, <3>2, ActiveRequest
    <3> QED
      BY <3>2, <3>3 DEF HalfIsLegacy
  <2> QED
    BY <2>1, <2>2
<1> QED
  BY <1>1, <1>2, <1>3 DEF Next, Reads, Writes, Tick, vars

(* An entry appended to the log leaves the earlier entries where they are. *)
LEMMA LogKeepsStatus ==
  ASSUME activities \in Seq(ActivityTypes), HistoryTellsStatus,
         NEW type \in ActivityTypes, activities' = Append(activities, type),
         \/ type \in DOMAIN StatusAfter /\ sub'.status = StatusAfter[type]
         \/ type \notin DOMAIN StatusAfter /\ sub'.status = sub.status
  PROVE  HistoryTellsStatus'
<1> DEFINE n == Len(activities)
<1>1. /\ n \in Nat /\ Len(activities') = n + 1
      /\ \A i \in 1 .. n : activities'[i] = activities[i]
      /\ activities'[n + 1] = type
  BY AppendProperties, LenProperties
<1>2. CASE type \in DOMAIN StatusAfter
  <2>1. /\ n + 1 \in 1 .. Len(activities')
        /\ \A j \in (n + 1) + 1 .. Len(activities') : FALSE
    BY <1>1
  <2> QED
    BY <2>1, <1>1, <1>2 DEF HistoryTellsStatus
<1>3. CASE type \notin DOMAIN StatusAfter
  <2>1. PICK i \in 1 .. n : /\ activities[i] \in DOMAIN StatusAfter
                            /\ sub.status = StatusAfter[activities[i]]
                            /\ \A j \in i + 1 .. n : activities[j] \notin DOMAIN StatusAfter
    BY DEF HistoryTellsStatus
  <2>2. i \in 1 .. Len(activities') /\ activities'[i] = activities[i] /\ sub'.status = sub.status
    BY <1>1, <1>3
  <2>3. ASSUME NEW j \in i + 1 .. Len(activities') PROVE activities'[j] \notin DOMAIN StatusAfter
    <3>1. CASE j = n + 1
      BY <3>1, <1>1, <1>3
    <3>2. CASE j # n + 1
      <4>1. j \in i + 1 .. n /\ j \in 1 .. n
        BY <3>2, <1>1
      <4> QED
        BY <4>1, <1>1, <2>1
    <3> QED
      BY <3>1, <3>2
  <2> QED
    BY <2>1, <2>2, <2>3 DEF HistoryTellsStatus
<1> QED
  BY <1>2, <1>3

LEMMA HistoryInductive == HistoryInv /\ [Next]_vars => HistoryInv'
<1> SUFFICES ASSUME HistoryInv, [Next]_vars PROVE HistoryInv'
  OBVIOUS
<1> USE DEF HistoryInv
<1>1. TypeOK' /\ HalfIsLegacy'
  BY TypeInductive, HalfStaysLegacy
<1>2. LegacyWrote => LegacyWrote'
  BY LegacyStays
<1>3. CASE UNCHANGED <<store, sub, activities, changes>>
  BY <1>1, <1>2, <1>3 DEF RowsAgree, OneContract, HistoryTellsStatus, ChangesTellPlan
<1>4. ASSUME NEW r \in Requests, Writes(r) PROVE HistoryInv'
  <2>1. CASE updatePlanStore(r) \/ updatePlanSubscription(r)
    <3>1. LegacyWrote'
      <4>1. CASE updatePlanSubscription(r)
        <5>1. LegacyWrote
          BY <4>1 DEF updatePlanSubscription, LegacyWrote, HalfIsLegacy
        <5> QED
          BY <5>1, <1>2
      <4>2. CASE updatePlanStore(r)
        <5>1. PICK e : request' = [request EXCEPT ![r].phase = "half", ![r].end = e]
          BY <4>2 DEF updatePlanStore
        <5>2. request[r].phase # "idle" /\ request[r].kind = "updatePlan"
          BY <4>2 DEF updatePlanStore
        <5>3. request'[r] = [[request[r] EXCEPT !.phase = "half"] EXCEPT !.end = e]
          BY <5>1 DEF TypeOK
        <5>4. request'[r].phase = "half" /\ request'[r].kind = "updatePlan"
          BY <5>2, <5>3, ActiveRequest
        <5> QED
          BY <5>4 DEF LegacyWrote
      <4> QED
        BY <2>1, <4>1, <4>2
    <3>2. UNCHANGED <<activities, changes>> /\ sub'.status = sub.status
      BY <2>1 DEF updatePlanStore, updatePlanSubscription, TypeOK
    <3> QED
      BY <3>1, <3>2, <1>1 DEF RowsAgree, HistoryTellsStatus, ChangesTellPlan
  <2>2. CASE /\ store'.plan = store.plan /\ store'.cycle = store.cycle
             /\ sub'.plan = sub.plan /\ sub'.price = sub.price
             /\ \/ store'.end = sub'.nextRenewalAt
                \/ store'.end = store.end /\ sub'.nextRenewalAt = sub.nextRenewalAt
             /\ changes' = changes
             /\ \E type \in ActivityTypes :
                  /\ activities' = Append(activities, type)
                  /\ \/ type \in DOMAIN StatusAfter /\ sub'.status = StatusAfter[type]
                     \/ type \notin DOMAIN StatusAfter /\ sub'.status = sub.status
    <3>1. HistoryTellsStatus'
      BY <2>2, LogKeepsStatus DEF TypeOK
    <3>2. RowsAgree' /\ ChangesTellPlan'
      BY <2>2, <1>2 DEF RowsAgree, OneContract, ChangesTellPlan
    <3> QED
      BY <3>1, <3>2, <1>1
  <2>3. CASE /\ store'.plan = request[r].plan /\ store'.cycle = request[r].cycle
             /\ sub'.plan = request[r].plan
             /\ sub'.price = <<request[r].plan, request[r].cycle>>
             /\ store'.end = sub'.nextRenewalAt
             /\ sub'.status = sub.status
             /\ changes' = Append(changes, [from |-> request[r].saw.plan, to |-> request[r].plan])
             /\ activities' = Append(activities, "PACKAGE_CHANGED")
    <3>1. HistoryTellsStatus'
      <4>1. "PACKAGE_CHANGED" \in ActivityTypes /\ "PACKAGE_CHANGED" \notin DOMAIN StatusAfter
        BY DEF ActivityTypes, StatusAfter
      <4> QED
        BY <4>1, <2>3, LogKeepsStatus DEF TypeOK
    <3>2. RowsAgree'
      BY <2>3 DEF RowsAgree, OneContract
    <3>3. ChangesTellPlan'
      <4> DEFINE c == [from |-> request[r].saw.plan, to |-> request[r].plan]
                 C == [from : Plans, to : Plans]
      <4>1. changes' # <<>> /\ Len(changes') = Len(changes) + 1 /\ changes'[Len(changes) + 1] = c
        <5>0. request[r].phase # "idle"
          BY <1>4 DEF Writes, Commits, renew, extend, changePackage, suspend, reactivate, cancel,
               addNote, updatePaymentStatus, updatePlanStore, updatePlanSubscription
        <5>1. changes \in Seq(C) /\ c \in C
          BY <5>0, ActiveRequest DEF TypeOK
        <5> HIDE DEF C, c
        <5>2. changes' = Append(changes, c)
          BY <2>3 DEF c
        <5> QED
          BY <5>1, <5>2, AppendProperties
      <4>2. changes'[Len(changes')].to = request[r].plan
        BY <4>1
      <4> QED
        BY <4>1, <4>2, <2>3 DEF ChangesTellPlan
    <3> QED
      BY <3>1, <3>2, <3>3, <1>1
  <2> QED
    BY <1>4, <2>1, <2>2, <2>3, WriteEffects
<1>5. ASSUME NEW r \in Requests, Reads(r) PROVE UNCHANGED <<store, sub, activities, changes>>
  BY <1>5 DEF Reads, BeginPlain, BeginExtend, BeginChange, Admit
<1> QED
  BY <1>3, <1>4, <1>5 DEF Next, Reads, Writes, Tick, vars

-----------------------------------------------------------------------------
(* The inductive invariant holds of every behaviour.                       *)
THEOREM HistoryInvariance == Spec => []HistoryInv
<1> QED
  BY HistoryInit, HistoryInductive, PTL DEF Spec

(* The shapes hold for every number of requests and plans.                 *)
THEOREM SubscriptionsTypeCorrect == Spec => []TypeOK
<1> QED
  BY HistoryInvariance, PTL DEF HistoryInv

(* However the handlers of subscriptions.service.ts overlap, the store's   *)
(* row and the subscription's row agree until the older endpoint writes;   *)
(* the activity log always accounts for the status, and the package        *)
(* history for the package.                                                *)
THEOREM RecordsAlwaysAgree == Spec => []RecordsAgree
<1>1. HistoryInv => RecordsAgree
  BY DEF HistoryInv, RecordsAgree
<1> QED
  BY <1>1, HistoryInvariance, PTL

-----------------------------------------------------------------------------
(* Every admitted request read a status its handler may start from.        *)
ReadAdmissible ==
  \A r \in Requests :
    request[r].phase # "idle" /\ request[r].kind \in DOMAIN ALLOWED_TRANSITIONS =>
      request[r].saw.status \in ALLOWED_TRANSITIONS[request[r].kind]

LEMMA AdmissibleInductive == TypeOK /\ ReadAdmissible /\ [Next]_vars => ReadAdmissible'
<1> SUFFICES ASSUME TypeOK, ReadAdmissible, [Next]_vars, NEW x \in Requests,
                    request'[x].phase # "idle",
                    request'[x].kind \in DOMAIN ALLOWED_TRANSITIONS
             PROVE  request'[x].saw.status \in ALLOWED_TRANSITIONS[request'[x].kind]
  BY DEF ReadAdmissible
<1>1. CASE request' = request
  BY <1>1 DEF ReadAdmissible
<1>2. ASSUME NEW r \in Requests, Reads(r)
      PROVE  request'[x].saw.status \in ALLOWED_TRANSITIONS[request'[x].kind]
  <2>1. PICK k, p, c, e : Admit(r, k, p, c, e)
    BY <1>2 DEF Reads, BeginPlain, BeginExtend, BeginChange
  <2>2. CASE x = r
    <3>1. request'[r].kind = k /\ request'[r].saw.status = sub.status
      BY <2>1 DEF Admit, TypeOK
    <3> QED
      BY <2>1, <2>2, <3>1 DEF Admit, assertTransition
  <2>3. CASE x # r
    <3>1. request'[x] = request[x]
      BY <2>1, <2>3 DEF Admit, TypeOK
    <3> QED
      BY <3>1 DEF ReadAdmissible
  <2> QED
    BY <2>2, <2>3
<1>3. ASSUME NEW r \in Requests, Writes(r)
      PROVE  request'[x].saw.status \in ALLOWED_TRANSITIONS[request'[x].kind]
  <2>1. /\ request[r].phase # "idle"
        /\ \/ request' = [request EXCEPT ![r].phase = "done"]
           \/ \E e : request' = [request EXCEPT ![r].phase = "half", ![r].end = e]
    BY <1>3 DEF Writes, Commits, renew, extend, changePackage, suspend, reactivate, cancel,
         addNote, updatePaymentStatus, updatePlanStore, updatePlanSubscription
  <2>2. CASE x # r
    <3>1. request'[x] = request[x]
      BY <2>1, <2>2 DEF TypeOK
    <3> QED
      BY <3>1 DEF ReadAdmissible
  <2>3. CASE x = r
    <3>1. \/ request'[r] = [request[r] EXCEPT !.phase = "done"]
          \/ \E e : request'[r] = [[request[r] EXCEPT !.phase = "half"] EXCEPT !.end = e]
      BY <2>1 DEF TypeOK
    <3>2. request'[r].kind = request[r].kind /\ request'[r].saw = request[r].saw
      BY <3>1, <2>1, ActiveRequest
    <3> QED
      BY <3>2, <2>1, <2>3 DEF ReadAdmissible
  <2> QED
    BY <2>2, <2>3
<1> QED
  BY <1>1, <1>2, <1>3 DEF Next, Reads, Writes, Tick, vars

(* The step that brings a cancelled subscription back is the write of a    *)
(* request that read the row while it was not cancelled.                   *)
LEMMA RevivalStep ==
  TypeOK /\ ReadAdmissible /\ [Next]_vars =>
    [sub.status = "CANCELLED" /\ sub'.status # "CANCELLED" =>
       \E r \in Requests : /\ request[r].phase = "read"
                           /\ request'[r].phase = "done"
                           /\ request[r].saw.status # "CANCELLED"]_vars
<1> SUFFICES ASSUME TypeOK, ReadAdmissible, [Next]_vars,
                    sub.status = "CANCELLED", sub'.status # "CANCELLED"
             PROVE  \E r \in Requests : /\ request[r].phase = "read"
                                        /\ request'[r].phase = "done"
                                        /\ request[r].saw.status # "CANCELLED"
  OBVIOUS
<1>1. PICK r \in Requests : renew(r) \/ suspend(r) \/ reactivate(r)
  BY DEF Next, Tick, vars, BeginPlain, BeginExtend, BeginChange, Admit, extend, changePackage,
     cancel, updatePaymentStatus, addNote, updatePlanStore, updatePlanSubscription, TypeOK
<1>2. /\ request[r].phase = "read"
      /\ request[r].kind \in {"renew", "suspend", "reactivate"}
      /\ request' = [request EXCEPT ![r].phase = "done"]
  BY <1>1 DEF renew, suspend, reactivate, Commits
<1>3. request[r].saw.status # "CANCELLED"
  BY <1>2 DEF ReadAdmissible, ALLOWED_TRANSITIONS
<1>4. request'[r] = [request[r] EXCEPT !.phase = "done"]
  BY <1>2 DEF TypeOK
<1>5. request'[r].phase = "done"
  BY <1>4, <1>2, ActiveRequest
<1> QED
  BY <1>2, <1>3, <1>5

(* No request admitted after the cancellation revives a subscription.      *)
THEOREM RevivalsAreStale == Spec => RevivedOnlyByStaleRead
<1>1. Init => ReadAdmissible
  BY DEF Init, ReadAdmissible
<1> QED
  BY <1>1, AdmissibleInductive, RevivalStep, SubscriptionsTypeCorrect, PTL
     DEF Spec, RevivedOnlyByStaleRead

-----------------------------------------------------------------------------
(* What an extension will write lies after the end it read.                *)
ExtensionsLater ==
  \A r \in Requests :
    request[r].phase = "read" /\ request[r].kind = "extend" => request[r].end > request[r].saw.end

LEMMA LaterInductive == TypeOK /\ ExtensionsLater /\ [Next]_vars => ExtensionsLater'
<1> SUFFICES ASSUME TypeOK, ExtensionsLater, [Next]_vars, NEW x \in Requests,
                    request'[x].phase = "read", request'[x].kind = "extend"
             PROVE  request'[x].end > request'[x].saw.end
  BY DEF ExtensionsLater
<1>1. CASE request'[x] = request[x]
  BY <1>1 DEF ExtensionsLater
<1>2. ASSUME NEW r \in Requests, BeginPlain(r) \/ BeginChange(r)
      PROVE  request'[x] = request[x]
  <2>1. PICK k \in Handlers \ {"extend"}, p \in Plans, c \in Cycles, e \in Nat : Admit(r, k, p, c, e)
    BY <1>2 DEF BeginPlain, BeginChange, Handlers, Unchecked, ALLOWED_TRANSITIONS, TypeOK
  <2>2. request'[r].kind = k
    BY <2>1 DEF Admit, TypeOK
  <2> QED
    BY <2>1, <2>2 DEF Admit, TypeOK
<1>3. ASSUME NEW r \in Requests, BeginExtend(r)
      PROVE  request'[x].end > request'[x].saw.end
  <2>1. PICK e \in store.end + 1 .. store.end + MaxExtension :
          Admit(r, "extend", sub.plan, store.cycle, e)
    BY <1>3 DEF BeginExtend
  <2>2. store.end \in Nat /\ e > store.end
    BY SubscriptionsAssumption DEF TypeOK
  <2>3. CASE x = r
    <3>1. request'[r].end = e /\ request'[r].saw.end = store.end
      BY <2>1 DEF Admit, TypeOK
    <3> QED
      BY <2>2, <2>3, <3>1
  <2>4. CASE x # r
    BY <1>1, <2>1, <2>4 DEF Admit, TypeOK
  <2> QED
    BY <2>3, <2>4
<1>4. ASSUME NEW r \in Requests, Writes(r)
      PROVE  request'[x] = request[x]
  <2>1. /\ request[r].phase # "idle"
        /\ \E ph \in {"half", "done"} :
             \/ request' = [request EXCEPT ![r].phase = ph]
             \/ \E e : request' = [request EXCEPT ![r].phase = ph, ![r].end = e]
    BY <1>4 DEF Writes, Commits, renew, extend, changePackage, suspend, reactivate, cancel,
         addNote, updatePaymentStatus, updatePlanStore, updatePlanSubscription
  <2>2. PICK ph \in {"half", "done"} :
             \/ request'[r] = [request[r] EXCEPT !.phase = ph]
             \/ \E e : request'[r] = [[request[r] EXCEPT !.phase = ph] EXCEPT !.end = e]
    BY <2>1 DEF TypeOK
  <2>3. request'[r].phase # "read"
    BY <2>1, <2>2, ActiveRequest
  <2> QED
    BY <2>1, <2>3 DEF TypeOK
<1> QED
  BY <1>1, <1>2, <1>3, <1>4 DEF Next, Writes, Tick, vars

(* Whatever was read in between, an extension whose reading is not stale   *)
(* moves the end of the period forward.                                    *)
THEOREM ExtensionsGoForward == Spec => ExtendsForward
<1> DEFINE A == \A r \in Requests :
                  extend(r) /\ request[r].saw.end = store.end => store'.end > store.end
<1>1. Init => ExtensionsLater
  BY DEF Init, ExtensionsLater
<1>2. TypeOK /\ ExtensionsLater => A
  <2> SUFFICES ASSUME TypeOK, ExtensionsLater, NEW r \in Requests, extend(r),
                      request[r].saw.end = store.end
               PROVE  store'.end > store.end
    OBVIOUS
  <2>1. request[r].end > request[r].saw.end
    BY DEF extend, Commits, ExtensionsLater
  <2>2. store'.end = request[r].end
    BY DEF extend, TypeOK
  <2> QED
    BY <2>1, <2>2
<1>3. Spec => [][A]_vars
  BY <1>1, <1>2, LaterInductive, SubscriptionsTypeCorrect, PTL DEF Spec
<1> QED
  BY <1>3 DEF ExtendsForward
=============================================================================
