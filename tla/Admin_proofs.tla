---------------------------- MODULE Admin_proofs ----------------------------

(***************************************************************************)
(* The super admin's side.  First the applications of stores: for any      *)
(* number of requests served at once, of documents and of decisions, the   *)
(* history is a path of the workflow, the store follows it, every decision *)
(* is told unless its request failed, and nothing comes back to a          *)
(* cancelled registration.  Then the reports                               *)
(* next to each other: whatever orders, stores and prices there are, each  *)
(* adds up and they tell the same story.  They are sums, counts and sorted *)
(* lists over finite sets, so the lemmas about those come first.  Last the *)
(* pages of the stock list.                                                *)
(***************************************************************************)
EXTENDS StoreApplications, StoreReports, SequenceTheorems, FiniteSetTheorems, TLAPS

Entry == [from : Statuses, to : Statuses]

(* A request that was admitted read a status its handler accepts, and one  *)
(* the application had; a request that owes a mail has its entry, and the  *)
(* mail it has composed tells that entry or a later one.                   *)
RequestsHonest ==
  \A r \in Requests :
    /\ request[r].phase = "read" =>
         /\ request[r].status \in Accepted[request[r].kind]
         /\ app.exists => Been(request[r].status, Len(hist))
    /\ request[r].phase \in {"owes", "composed"} /\ app.exists =>
         /\ request[r].at \in 1 .. Len(hist)
         /\ hist[request[r].at].to = request[r].to
    /\ request[r].phase = "composed" /\ app.exists =>
         Tells(request[r].mail, request[r].at)

AppsInv ==
  /\ TypeOK /\ RequestsHonest
  /\ HistoryIsPath /\ StoreFollowsHistory /\ DecisionsTold /\ NothingAfterCancel

Decides(r) ==
  \/ doSubmit(r) \/ startReview(r) \/ approve(r)
  \/ requestChanges(r) \/ reject(r) \/ suspend(r)

Edits(r) == patchOwnApplication(r) \/ addDocument(r) \/ removeDocument(r)

(* What a slot holds, phase by phase.                                      *)
LEMMA SlotShapes ==
  ASSUME TypeOK, NEW r \in Requests
  PROVE  /\ request[r].phase \in
              {"idle", "read", "clearing", "cancelled", "owes", "composed"}
         /\ request[r].phase = "read" =>
              /\ request[r].kind \in Handlers /\ request[r].status \in Statuses
              /\ request[r].version \in Nat
         /\ request[r].phase = "clearing" => request[r].cleared \subseteq Mail
         /\ request[r].phase \in {"owes", "composed"} =>
              request[r].to \in DOMAIN MailType /\ request[r].at \in Nat
         /\ request[r].phase = "composed" => request[r].mail \in Mail
<1>1. request[r] \in {Idle}
        \cup [phase : {"read"}, kind : Handlers, status : Statuses, version : Nat]
        \cup [phase : {"clearing"}, cleared : SUBSET Mail]
        \cup [phase : {"cancelled"}, left : SUBSET Mail]
        \cup [phase : {"owes"}, to : DOMAIN MailType, at : Nat]
        \cup [phase : {"composed"}, to : DOMAIN MailType, at : Nat, mail : Mail]
  BY DEF TypeOK
<1> HIDE DEF Mail
<1> QED
  BY <1>1 DEF Idle

(* A slot that has read holds what it read.                                *)
LEMMA ReadRequest ==
  ASSUME TypeOK, NEW r \in Requests, request[r].phase = "read"
  PROVE  /\ request[r].kind \in Handlers /\ request[r].status \in Statuses
         /\ request[r].version \in Nat
BY SlotShapes

(* What the transaction of a decision does, in the terms of the invariant. *)
LEMMA DecisionEffects ==
  ASSUME TypeOK, NEW r \in Requests, Decides(r)
  PROVE  /\ app.exists /\ request[r].phase = "read" /\ request[r].kind \in Deciders
         /\ Target[request[r].kind] \in DOMAIN MailType
         /\ Record(r)
         /\ app'.exists /\ app'.status = Target[request[r].kind]
         /\ storeStatus' =
              IF Target[request[r].kind] = "APPROVED" THEN "ACTIVE"
              ELSE IF Target[request[r].kind] = "SUSPENDED" /\ request[r].status = "APPROVED"
                   THEN "SUSPENDED" ELSE storeStatus
<1>1. /\ app.exists /\ request[r].phase = "read" /\ Record(r)
      /\ \/ request[r].kind \in {"submit", "resubmit", "startReview", "requestChanges", "reject"}
            /\ storeStatus' = storeStatus
         \/ request[r].kind = "approve" /\ storeStatus' = "ACTIVE"
         \/ /\ request[r].kind = "suspend"
            /\ storeStatus' = IF request[r].status = "APPROVED" THEN "SUSPENDED" ELSE storeStatus
  BY DEF Decides, doSubmit, startReview, approve, requestChanges, reject, suspend, Writing
<1>2. request[r].kind \in Deciders /\ Target[request[r].kind] \in DOMAIN MailType
  BY <1>1 DEF Deciders, Submitters, Target, MailType
<1>3. app'.exists = app.exists /\ app'.status = Target[request[r].kind]
  BY <1>1 DEF Record, TypeOK
<1> QED
  BY <1>1, <1>2, <1>3 DEF Target

LEMMA AppendedHistory ==
  ASSUME TypeOK, NEW e \in Entry, hist' = Append(hist, e)
  PROVE  /\ hist' \in Seq(Entry)
         /\ Len(hist) \in Nat /\ Len(hist') = Len(hist) + 1 /\ hist' # <<>>
         /\ \A i \in 1 .. Len(hist) : hist'[i] = hist[i]
         /\ hist'[Len(hist) + 1] = e
<1>1. hist \in Seq(Entry)
  BY DEF TypeOK, Entry
<1> QED
  BY <1>1, AppendProperties, LenProperties

-----------------------------------------------------------------------------
LEMMA TypeInductive == TypeOK /\ [Next]_vars => TypeOK'
<1> SUFFICES ASSUME TypeOK, [Next]_vars PROVE TypeOK'
  OBVIOUS
<1>1. CASE UNCHANGED vars
  BY <1>1 DEF TypeOK, vars
<1>2. CASE updateStatus
  BY <1>2 DEF TypeOK, updateStatus
<1>3. ASSUME NEW r \in Requests, Read(r) PROVE TypeOK'
  <2>1. PICK k \in Handlers :
          request' = [request EXCEPT ![r] =
            [phase |-> "read", kind |-> k, status |-> app.status, version |-> app.version]]
    BY <1>3 DEF Read
  <2>2. app.status \in Statuses /\ app.version \in Nat
    BY DEF TypeOK
  <2> QED
    BY <1>3, <2>1, <2>2 DEF TypeOK, Read
<1>4. ASSUME NEW r \in Requests, Abort(r) \/ TellingFails(r) PROVE TypeOK'
  <2>1. TellingFails(r) => untold' \subseteq Nat
    BY SlotShapes DEF TypeOK, TellingFails
  <2>2. /\ UNCHANGED <<app, complete, documents, storeStatus, overridden, hist, mails>>
        /\ untold' \subseteq Nat /\ request' = [request EXCEPT ![r] = Idle]
    BY <1>4, <2>1 DEF TypeOK, Abort, TellingFails, Finished
  <2> QED
    BY <2>2 DEF TypeOK
<1>5. ASSUME NEW r \in Requests, Edits(r) PROVE TypeOK'
  BY <1>5 DEF TypeOK, Edits, patchOwnApplication, addDocument, removeDocument, Finished
<1>6. ASSUME NEW r \in Requests, cancelOwnApplication(r) PROVE TypeOK'
  <2>1. <<>> \in Seq([from : Statuses, to : Statuses])
    OBVIOUS
  <2>2. mails' \subseteq Mail
    BY <1>6 DEF TypeOK, cancelOwnApplication
  <2>3. PICK q : q = [phase |-> "cancelled", left |-> mails']
    OBVIOUS
  <2>4. q \in [phase : {"cancelled"}, left : SUBSET Mail]
    BY <2>2, <2>3
  <2>5. request' = [request EXCEPT ![r] = q]
    BY <1>6, <2>3 DEF cancelOwnApplication
  <2>6. /\ app' \in [exists : BOOLEAN, status : Statuses, version : Nat]
        /\ hist' = <<>> /\ documents' = {}
        /\ UNCHANGED <<complete, storeStatus, overridden, untold>>
    BY <1>6 DEF TypeOK, cancelOwnApplication
  <2> QED
    BY <2>1, <2>2, <2>4, <2>5, <2>6 DEF TypeOK
<1>7. ASSUME NEW r \in Requests, Decides(r) PROVE TypeOK'
  <2> DEFINE to == Target[request[r].kind]
             e == [from |-> request[r].status, to |-> to]
  <2>1. /\ Record(r) /\ request[r].phase = "read" /\ to \in DOMAIN MailType
        /\ storeStatus' \in {"ACTIVE", "SUSPENDED", storeStatus}
    BY <1>7, DecisionEffects
  <2>2. request[r].version \in Nat /\ request[r].status \in Statuses
    BY <2>1, ReadRequest
  <2>3. to \in Statuses
    BY <2>1 DEF MailType, Statuses
  <2>4. app' \in [exists : BOOLEAN, status : Statuses, version : Nat]
    <3>1. \E v \in Nat : app' = [app EXCEPT !.status = to, !.version = v]
      <4>1. app.version \in Nat /\ request[r].version + 1 \in Nat
        BY <2>2 DEF TypeOK
      <4> QED
        BY <2>1, <4>1 DEF Record
    <3> HIDE DEF to
    <3> QED
      BY <3>1, <2>3 DEF TypeOK
  <2>5. hist' \in Seq(Entry)
    <3>1. e \in Entry /\ hist' = Append(hist, e)
      BY <2>1, <2>2, <2>3 DEF Record, Entry
    <3> HIDE DEF e
    <3> QED
      BY <3>1, AppendedHistory
  <2>6. storeStatus' \in StoreStatuses
    BY <2>1 DEF TypeOK, StoreStatuses
  <2>7. PICK q : q = [phase |-> "owes", to |-> to, at |-> Len(hist) + 1]
    OBVIOUS
  <2>8. q \in [phase : {"owes"}, to : DOMAIN MailType, at : Nat]
    <3>1. Len(hist) + 1 \in Nat
      BY LenProperties DEF TypeOK
    <3> HIDE DEF to
    <3> QED
      BY <3>1, <2>1, <2>7
  <2>9. request' = [request EXCEPT ![r] = q]
        /\ UNCHANGED <<complete, documents, overridden, mails, untold>>
    BY <2>1, <2>7 DEF Record
  <2> HIDE DEF to
  <2> QED
    BY <2>1, <2>4, <2>5, <2>6, <2>8, <2>9 DEF TypeOK, Entry
<1>8. ASSUME NEW r \in Requests, DeleteMails(r) PROVE TypeOK'
  <2>1. PICK q : q = [phase |-> "clearing", cleared |-> mails]
    OBVIOUS
  <2>2. q \in [phase : {"clearing"}, cleared : SUBSET Mail]
    BY <2>1 DEF TypeOK
  <2>3. request' = [request EXCEPT ![r] = q]
    BY <1>8, <2>1 DEF DeleteMails
  <2> QED
    BY <1>8, <2>2, <2>3 DEF TypeOK, DeleteMails
<1>9. ASSUME NEW r \in Requests, Compose(r) PROVE TypeOK'
  <2> DEFINE to == request[r].to
  <2>1. PICK m : m = [type |-> MailType[to], version |-> app.version,
                      text |-> IF to = "SUBMITTED" THEN to ELSE app.status]
    OBVIOUS
  <2>2. to \in DOMAIN MailType /\ request[r].at \in Nat
    BY <1>9, SlotShapes DEF Compose
  <2>3. m \in Mail
    <3>1. app.version \in Nat /\ app.status \in Statuses /\ "SUBMITTED" \in Statuses
      BY DEF TypeOK, Statuses
    <3> HIDE DEF to
    <3> QED
      BY <2>1, <2>2, <3>1 DEF Mail
  <2>4. PICK q : q = [phase |-> "composed", to |-> to, at |-> request[r].at, mail |-> m]
    OBVIOUS
  <2>5. q \in [phase : {"composed"}, to : DOMAIN MailType, at : Nat, mail : Mail]
    <3> HIDE DEF to
    <3> QED
      BY <2>2, <2>3, <2>4
  <2>6. request' = [request EXCEPT ![r] = q]
        /\ UNCHANGED <<app, complete, documents, storeStatus, overridden, hist, mails, untold>>
    BY <1>9, <2>1, <2>4 DEF Compose
  <2> HIDE DEF to
  <2> QED
    BY <2>5, <2>6 DEF TypeOK
<1>10. ASSUME NEW r \in Requests, Enqueue(r) PROVE TypeOK'
  <2>1. mails' \subseteq Mail
    BY <1>10, SlotShapes DEF Enqueue, TypeOK
  <2>2. request' = [request EXCEPT ![r] = Idle]
        /\ UNCHANGED <<app, complete, documents, storeStatus, overridden, hist, untold>>
    BY <1>10 DEF Enqueue, Finished
  <2> QED
    BY <2>1, <2>2 DEF TypeOK
<1> QED
  BY <1>1, <1>2, <1>3, <1>4, <1>5, <1>6, <1>7, <1>8, <1>9, <1>10 DEF Next, Edits, Decides

-----------------------------------------------------------------------------
(* A decision keeps each part of the invariant.                            *)
LEMMA DecisionKeeps ==
  ASSUME AppsInv, NEW r \in Requests, Decides(r)
  PROVE  RequestsHonest' /\ HistoryIsPath' /\ StoreFollowsHistory' /\ DecisionsTold'
         /\ NothingAfterCancel'
<1> USE DEF AppsInv
<1> DEFINE k == request[r].kind
           s == request[r].status
           to == Target[k]
<1>0. PICK n \in Nat : n = Len(hist)
  <2>1. hist \in Seq(Entry)
    BY DEF TypeOK, Entry
  <2> QED
    BY <2>1, LenProperties
<1>1. /\ app.exists /\ app'.exists /\ request[r].phase = "read" /\ k \in Deciders
      /\ to \in DOMAIN MailType /\ app'.status = to
      /\ UNCHANGED <<complete, documents, overridden, mails, untold>>
      /\ hist' = Append(hist, [from |-> s, to |-> to])
      /\ request' = [request EXCEPT ![r] =
           [phase |-> "owes", to |-> to, at |-> Len(hist) + 1]]
      /\ storeStatus' = IF to = "APPROVED" THEN "ACTIVE"
                        ELSE IF to = "SUSPENDED" /\ s = "APPROVED" THEN "SUSPENDED"
                        ELSE storeStatus
  BY DecisionEffects DEF Record
<1>2. s \in Accepted[k] /\ Been(s, n)
  BY <1>0, <1>1 DEF RequestsHonest
<1>3. /\ Len(hist') = n + 1 /\ hist' # <<>>
      /\ \A i \in 1 .. n : hist'[i] = hist[i]
      /\ hist'[n + 1].from = s /\ hist'[n + 1].to = to
  <2>1. PICK e \in Entry : e = [from |-> s, to |-> to]
    <3>1. to \in Statuses
      BY <1>1 DEF MailType, Statuses
    <3> QED
      BY <1>1, <3>1, ReadRequest DEF Entry
  <2> QED
    BY <1>0, <1>1, <2>1, AppendedHistory
<1> HIDE DEF k, s, to
<1>4. ASSUME NEW x, NEW m \in 0 .. n, Been(x, m)
      PROVE  x = "DRAFT" \/ \E j \in 1 .. m : hist'[j].to = x
  BY <1>3, <1>4 DEF Been
<1>5. HistoryIsPath'
  <2>1. app'.status = IF hist' = <<>> THEN "DRAFT" ELSE hist'[Len(hist')].to
    BY <1>1, <1>3
  <2>2. ASSUME NEW i \in 1 .. Len(hist')
        PROVE  /\ hist'[i].from = "DRAFT" \/ \E j \in 1 .. i - 1 : hist'[j].to = hist'[i].from
               /\ \E q \in Deciders : Target[q] = hist'[i].to /\ hist'[i].from \in Accepted[q]
    <3>1. CASE i = n + 1
      <4>1. s = "DRAFT" \/ \E j \in 1 .. n : hist'[j].to = s
        BY <1>2, <1>3, <1>4
      <4>2. Target[k] = hist'[i].to /\ hist'[i].from \in Accepted[k] /\ k \in Deciders
        BY <3>1, <1>1, <1>2, <1>3 DEF to
      <4>3. i - 1 = n
        BY <3>1, <1>3
      <4> QED
        BY <3>1, <4>1, <4>2, <4>3, <1>3
    <3>2. CASE i # n + 1
      <4>1. i \in 1 .. n /\ i - 1 \in 0 .. n /\ hist'[i] = hist[i]
        BY <3>2, <1>3
      <4>2. /\ Been(hist[i].from, i - 1)
            /\ \E q \in Deciders : Target[q] = hist[i].to /\ hist[i].from \in Accepted[q]
        BY <1>0, <4>1, <1>1 DEF HistoryIsPath
      <4> QED
        BY <4>1, <4>2, <1>4
    <3> QED
      BY <3>1, <3>2
  <2> QED
    BY <2>1, <2>2 DEF HistoryIsPath, Been
<1>6. StoreFollowsHistory'
  <2> SUFFICES ASSUME ~overridden
      PROVE \/ storeStatus' = "PENDING" /\ \A i \in 1 .. Len(hist') : ~Opens(i)' /\ ~Closes(i)'
            \/ \E i \in 1 .. Len(hist') :
                 /\ storeStatus' = IF Opens(i)' THEN "ACTIVE" ELSE "SUSPENDED"
                 /\ Opens(i)' \/ Closes(i)'
                 /\ \A j \in i + 1 .. Len(hist') : ~Opens(j)' /\ ~Closes(j)'
    BY <1>1 DEF StoreFollowsHistory
  <2>1. \A i \in 1 .. n : (Opens(i)' <=> Opens(i)) /\ (Closes(i)' <=> Closes(i))
    BY <1>3 DEF Opens, Closes
  <2>2. /\ Opens(n + 1)' <=> to = "APPROVED"
        /\ Closes(n + 1)' <=> to = "SUSPENDED" /\ s = "APPROVED"
    BY <1>3 DEF Opens, Closes
  <2>3. CASE Opens(n + 1)' \/ Closes(n + 1)'
    <3>1. /\ n + 1 \in 1 .. Len(hist')
          /\ \A j \in (n + 1) + 1 .. Len(hist') : FALSE
      BY <1>3
    <3>2. storeStatus' = IF Opens(n + 1)' THEN "ACTIVE" ELSE "SUSPENDED"
      BY <2>2, <2>3, <1>1
    <3> QED
      BY <3>1, <3>2, <2>3
  <2>4. CASE ~Opens(n + 1)' /\ ~Closes(n + 1)'
    <3>1. storeStatus' = storeStatus
      BY <2>2, <2>4, <1>1
    <3>2. CASE storeStatus = "PENDING" /\ \A i \in 1 .. n : ~Opens(i) /\ ~Closes(i)
      <4>1. \A i \in 1 .. Len(hist') : i \in 1 .. n \/ i = n + 1
        BY <1>3
      <4> QED
        BY <4>1, <3>1, <3>2, <2>1, <2>4
    <3>3. ASSUME NEW i \in 1 .. n,
                 storeStatus = IF Opens(i) THEN "ACTIVE" ELSE "SUSPENDED",
                 Opens(i) \/ Closes(i),
                 \A j \in i + 1 .. n : ~Opens(j) /\ ~Closes(j)
          PROVE  \E x \in 1 .. Len(hist') :
                   /\ storeStatus' = IF Opens(x)' THEN "ACTIVE" ELSE "SUSPENDED"
                   /\ Opens(x)' \/ Closes(x)'
                   /\ \A j \in x + 1 .. Len(hist') : ~Opens(j)' /\ ~Closes(j)'
      <4>1. i \in 1 .. Len(hist') /\ (Opens(i)' <=> Opens(i)) /\ (Closes(i)' <=> Closes(i))
        BY <1>3, <2>1
      <4>2. \A j \in i + 1 .. Len(hist') : (j \in i + 1 .. n /\ j \in 1 .. n) \/ j = n + 1
        BY <1>3
      <4>3. \A j \in i + 1 .. Len(hist') : ~Opens(j)' /\ ~Closes(j)'
        BY <4>2, <3>3, <2>1, <2>4
      <4> QED
        BY <4>1, <4>3, <3>1, <3>3
    <3> QED
      BY <1>0, <3>2, <3>3, <1>1 DEF StoreFollowsHistory
  <2> QED
    BY <2>3, <2>4
<1>7. request'[r] = [phase |-> "owes", to |-> to, at |-> n + 1]
      /\ \A x \in Requests : x # r => request'[x] = request[x]
  BY <1>0, <1>1 DEF TypeOK
<1>8. ASSUME NEW m, NEW i \in 1 .. n, Tells(m, i)
      PROVE  /\ m.type = MailType[hist'[i].to]
             /\ \E j \in i .. Len(hist') : hist'[j].to = m.text
  <2>1. PICK j \in i .. n : hist[j].to = m.text
    BY <1>0, <1>8 DEF Tells
  <2>2. j \in 1 .. n /\ j \in i .. Len(hist')
    BY <1>3
  <2> QED
    BY <1>3, <1>8, <2>1, <2>2 DEF Tells
<1>10. DecisionsTold'
  <2>1. ASSUME NEW i \in 1 .. Len(hist')
        PROVE  (\E m \in mails' : m.type = MailType[hist'[i].to]) \/ Owed(i)' \/ i \in untold'
    <3>1. CASE i = n + 1
      BY <3>1, <1>7 DEF Owed
    <3>2. CASE i # n + 1
      <4>1. i \in 1 .. n /\ hist'[i] = hist[i]
        BY <3>2, <1>3
      <4>2. (\E m \in mails : m.type = MailType[hist[i].to]) \/ Owed(i) \/ i \in untold
        BY <1>0, <4>1, <1>1 DEF DecisionsTold
      <4>3. Owed(i) => Owed(i)'
        BY <1>7, <1>1 DEF Owed
      <4> QED
        BY <4>1, <4>2, <4>3, <1>1
    <3> QED
      BY <3>1, <3>2
  <2>2. ASSUME NEW m \in mails' PROVE \E i \in 1 .. Len(hist') : Tells(m, i)'
    <3>1. PICK i \in 1 .. n : Tells(m, i)
      BY <1>0, <1>1 DEF DecisionsTold
    <3>2. i \in 1 .. Len(hist')
      BY <1>3
    <3> QED
      BY <3>1, <3>2, <1>8 DEF Tells
  <2> QED
    BY <2>1, <2>2 DEF DecisionsTold
<1>11. RequestsHonest'
  <2> SUFFICES ASSUME NEW x \in Requests
      PROVE /\ request'[x].phase = "read" =>
                 /\ request'[x].status \in Accepted[request'[x].kind]
                 /\ \/ request'[x].status = "DRAFT"
                    \/ \E j \in 1 .. Len(hist') : hist'[j].to = request'[x].status
            /\ request'[x].phase \in {"owes", "composed"} =>
                 /\ request'[x].at \in 1 .. Len(hist')
                 /\ hist'[request'[x].at].to = request'[x].to
            /\ request'[x].phase = "composed" =>
                 /\ request'[x].mail.type = MailType[hist'[request'[x].at].to]
                 /\ \E j \in request'[x].at .. Len(hist') : hist'[j].to = request'[x].mail.text
    BY DEF RequestsHonest, Been, Tells
  <2>1. CASE x = r
    <3>1. n + 1 \in 1 .. Len(hist') /\ hist'[n + 1].to = to
      BY <1>3
    <3> QED
      BY <2>1, <3>1, <1>7
  <2>2. CASE x # r
    <3>1. request'[x] = request[x]
      BY <2>2, <1>7
    <3>2. /\ request[x].phase = "read" =>
               request[x].status \in Accepted[request[x].kind] /\ Been(request[x].status, n)
          /\ request[x].phase \in {"owes", "composed"} =>
               request[x].at \in 1 .. n /\ hist[request[x].at].to = request[x].to
          /\ request[x].phase = "composed" => Tells(request[x].mail, request[x].at)
      BY <1>0, <1>1 DEF RequestsHonest
    <3>3. n \in 0 .. n /\ \A j \in 1 .. n : j \in 1 .. Len(hist') /\ hist'[j] = hist[j]
      BY <1>3
    <3>4. CASE request[x].phase = "read"
      BY <3>1, <3>2, <3>3, <3>4, <1>4
    <3>5. CASE request[x].phase = "owes"
      BY <3>1, <3>2, <3>3, <3>5
    <3>6. CASE request[x].phase = "composed"
      BY <3>1, <3>2, <3>3, <3>6, <1>8
    <3> QED
      BY <3>1, <3>4, <3>5, <3>6
  <2> QED
    BY <2>1, <2>2
<1>12. NothingAfterCancel'
  BY <1>1 DEF NothingAfterCancel
<1> QED
  BY <1>5, <1>6, <1>10, <1>11, <1>12

(* A slot moves on and the application, its history and its mails do not:  *)
(* the invariant stays if the slot is honest and owes what it owed.        *)
LEMMA SlotKeeps ==
  ASSUME AppsInv, TypeOK', NEW r \in Requests, NEW q,
         request' = [request EXCEPT ![r] = q],
         request[r].phase # "cancelled",
         UNCHANGED <<app, storeStatus, overridden, hist, mails>>,
         ~app.exists => documents' = documents,
         untold \subseteq untold',
         request[r].phase \in {"owes", "composed"} =>
           \/ q.phase \in {"owes", "composed"} /\ q.at = request[r].at
           \/ request[r].at \in untold',
         q.phase = "read" =>
           /\ q.status \in Accepted[q.kind]
           /\ app.exists => Been(q.status, Len(hist)),
         q.phase \in {"owes", "composed"} /\ app.exists =>
           q.at \in 1 .. Len(hist) /\ hist[q.at].to = q.to,
         q.phase = "composed" /\ app.exists => Tells(q.mail, q.at)
  PROVE  AppsInv'
<1> USE DEF AppsInv
<1>1. request'[r] = q /\ \A x \in Requests : x # r => request'[x] = request[x]
  BY DEF TypeOK
<1>2. ASSUME NEW m, NEW i PROVE Tells(m, i)' <=> Tells(m, i)
  BY DEF Tells
<1>3. RequestsHonest'
  <2> SUFFICES ASSUME NEW x \in Requests
      PROVE /\ request'[x].phase = "read" =>
                 /\ request'[x].status \in Accepted[request'[x].kind]
                 /\ app.exists => Been(request'[x].status, Len(hist))
            /\ request'[x].phase \in {"owes", "composed"} /\ app.exists =>
                 /\ request'[x].at \in 1 .. Len(hist)
                 /\ hist[request'[x].at].to = request'[x].to
            /\ request'[x].phase = "composed" /\ app.exists =>
                 Tells(request'[x].mail, request'[x].at)
    BY DEF RequestsHonest, Been, Tells
  <2>1. CASE x = r
    BY <2>1, <1>1
  <2>2. CASE x # r
    BY <2>2, <1>1 DEF RequestsHonest
  <2> QED
    BY <2>1, <2>2
<1>4. DecisionsTold'
  <2> SUFFICES ASSUME app.exists
      PROVE  /\ \A i \in 1 .. Len(hist) :
                  \/ \E m \in mails : m.type = MailType[hist[i].to]
                  \/ Owed(i)' \/ i \in untold'
             /\ \A m \in mails : \E i \in 1 .. Len(hist) : Tells(m, i)
    BY DEF DecisionsTold, Tells
  <2>1. ASSUME NEW i, Owed(i) PROVE Owed(i)' \/ i \in untold'
    <3>1. PICK x \in Requests :
            request[x].phase \in {"owes", "composed"} /\ request[x].at = i
      BY <2>1 DEF Owed
    <3>2. CASE x = r
      BY <3>1, <3>2, <1>1 DEF Owed
    <3>3. CASE x # r
      BY <3>1, <3>3, <1>1 DEF Owed
    <3> QED
      BY <3>2, <3>3
  <2> QED
    BY <2>1 DEF DecisionsTold
<1>5. NothingAfterCancel'
  <2> SUFFICES ASSUME ~app.exists
      PROVE  hist = <<>> /\ documents' = {}
             /\ \E x \in Requests : request'[x].phase = "cancelled" /\ mails = request'[x].left
    BY DEF NothingAfterCancel
  <2>1. PICK x \in Requests : request[x].phase = "cancelled" /\ mails = request[x].left
    BY DEF NothingAfterCancel
  <2>2. request'[x] = request[x]
    BY <2>1, <1>1
  <2> QED
    BY <2>1, <2>2 DEF NothingAfterCancel
<1>6. HistoryIsPath' /\ StoreFollowsHistory'
  BY DEF HistoryIsPath, StoreFollowsHistory, Been, Opens, Closes
<1> QED
  BY <1>3, <1>4, <1>5, <1>6

LEMMA AppsInductive == AppsInv /\ [Next]_vars => AppsInv'
<1> SUFFICES ASSUME AppsInv, [Next]_vars PROVE AppsInv'
  OBVIOUS
<1> USE DEF AppsInv
<1>0. TypeOK'
  BY TypeInductive
<1>1. CASE UNCHANGED vars
  BY <1>0, <1>1 DEF RequestsHonest, HistoryIsPath, StoreFollowsHistory, DecisionsTold,
     NothingAfterCancel, Been, Opens, Closes, Owed, Tells, vars
<1>2. CASE updateStatus
  BY <1>0, <1>2 DEF updateStatus, RequestsHonest, HistoryIsPath, StoreFollowsHistory,
     DecisionsTold, NothingAfterCancel, Been, Opens, Closes, Owed, Tells
<1>3. ASSUME NEW r \in Requests, Read(r) PROVE AppsInv'
  <2>1. PICK k \in Handlers :
          /\ app.status \in Accepted[k]
          /\ request' = [request EXCEPT ![r] =
               [phase |-> "read", kind |-> k, status |-> app.status, version |-> app.version]]
    BY <1>3 DEF Read
  <2>2. app.exists /\ request[r].phase = "idle"
        /\ UNCHANGED <<app, complete, documents, storeStatus, overridden, hist, mails, untold>>
    BY <1>3 DEF Read
  <2>3. Been(app.status, Len(hist))
    <3>1. hist \in Seq(Entry)
      BY DEF TypeOK, Entry
    <3>2. hist # <<>> => Len(hist) \in 1 .. Len(hist)
      BY <3>1, LenProperties, EmptySeq
    <3> QED
      BY <2>2, <3>2 DEF HistoryIsPath, Been
  <2>4. PICK q : q = [phase |-> "read", kind |-> k, status |-> app.status,
                      version |-> app.version]
    OBVIOUS
  <2>5. q.phase = "read" /\ q.status = app.status /\ q.kind = k
    BY <2>4
  <2>6. request' = [request EXCEPT ![r] = q]
    BY <2>1, <2>4
  <2> HIDE DEF AppsInv
  <2> QED
    BY <1>0, <2>1, <2>2, <2>3, <2>5, <2>6, SlotKeeps
<1>4. ASSUME NEW r \in Requests, Abort(r) \/ Edits(r) \/ TellingFails(r) PROVE AppsInv'
  <2>1. /\ request' = [request EXCEPT ![r] = Idle]
        /\ UNCHANGED <<app, storeStatus, overridden, hist, mails>>
        /\ ~app.exists => documents' = documents
        /\ \/ request[r].phase \in {"read", "clearing"} /\ untold' = untold
           \/ request[r].phase \in {"owes", "composed"} /\ untold' = untold \cup {request[r].at}
    BY <1>4 DEF Abort, Edits, patchOwnApplication, addDocument, removeDocument, TellingFails,
       Writing, Finished
  <2>2. Idle.phase = "idle"
    BY DEF Idle
  <2> HIDE DEF AppsInv
  <2> QED
    BY <1>0, <2>1, <2>2, SlotKeeps
<1>5. ASSUME NEW r \in Requests, DeleteMails(r) PROVE AppsInv'
  <2>1. PICK q : q = [phase |-> "clearing", cleared |-> mails]
    OBVIOUS
  <2>2. q.phase = "clearing"
    BY <2>1
  <2>3. /\ request' = [request EXCEPT ![r] = q] /\ request[r].phase = "read"
        /\ UNCHANGED <<app, complete, documents, storeStatus, overridden, hist, mails, untold>>
    BY <1>5, <2>1 DEF DeleteMails, Writing
  <2> HIDE DEF AppsInv
  <2> QED
    BY <1>0, <2>2, <2>3, SlotKeeps
<1>6. ASSUME NEW r \in Requests, cancelOwnApplication(r) PROVE AppsInv'
  <2>1. /\ ~app'.exists /\ documents' = {} /\ hist' = <<>>
        /\ request' = [request EXCEPT ![r] = [phase |-> "cancelled", left |-> mails']]
        /\ request[r].phase = "clearing"
    BY <1>6 DEF cancelOwnApplication, TypeOK
  <2>2. request'[r].phase = "cancelled" /\ request'[r].left = mails'
    BY <2>1 DEF TypeOK
  <2>3. \A x \in Requests : x # r => request'[x] = request[x]
    BY <2>1 DEF TypeOK
  <2>4. RequestsHonest'
    BY <2>1, <2>2, <2>3 DEF RequestsHonest
  <2>5. NothingAfterCancel'
    BY <2>1, <2>2 DEF NothingAfterCancel
  <2> QED
    BY <1>0, <2>1, <2>4, <2>5 DEF HistoryIsPath, StoreFollowsHistory, DecisionsTold
<1>7. ASSUME NEW r \in Requests, Decides(r) PROVE AppsInv'
  BY <1>0, <1>7, DecisionKeeps
<1>8. ASSUME NEW r \in Requests, Compose(r) PROVE AppsInv'
  <2> DEFINE to == request[r].to
  <2>1. PICK m : m = [type |-> MailType[to], version |-> app.version,
                      text |-> IF to = "SUBMITTED" THEN to ELSE app.status]
    OBVIOUS
  <2>2. PICK q : q = [phase |-> "composed", to |-> to, at |-> request[r].at, mail |-> m]
    OBVIOUS
  <2>3. /\ request[r].phase = "owes" /\ app.exists /\ request' = [request EXCEPT ![r] = q]
        /\ UNCHANGED <<app, complete, documents, storeStatus, overridden, hist, mails, untold>>
    BY <1>8, <2>1, <2>2 DEF Compose
  <2>4. q.phase = "composed" /\ q.to = to /\ q.at = request[r].at /\ q.mail = m
    BY <2>2
  <2>5. request[r].at \in 1 .. Len(hist) /\ hist[request[r].at].to = to
    BY <2>3 DEF RequestsHonest
  <2>6. Tells(m, request[r].at)
    <3>1. Len(hist) \in request[r].at .. Len(hist) /\ request[r].at \in request[r].at .. Len(hist)
          /\ hist # <<>>
      BY <2>5, LenProperties DEF TypeOK
    <3>2. app.status = hist[Len(hist)].to
      BY <2>3, <3>1 DEF HistoryIsPath
    <3>3. m.type = MailType[to] /\ m.text = IF to = "SUBMITTED" THEN to ELSE app.status
      BY <2>1
    <3> HIDE DEF to
    <3>4. m.type = MailType[hist[request[r].at].to]
      BY <3>3, <2>5
    <3>5. \E j \in request[r].at .. Len(hist) : hist[j].to = m.text
      BY <3>1, <3>2, <3>3, <2>5
    <3> QED
      BY <3>4, <3>5 DEF Tells
  <2> HIDE DEF AppsInv, to
  <2> QED
    BY <1>0, <2>3, <2>4, <2>5, <2>6, SlotKeeps
<1>9. ASSUME NEW r \in Requests, Enqueue(r) PROVE AppsInv'
  <2> DEFINE m == request[r].mail
  <2>1. /\ request[r].phase = "composed" /\ app.exists
        /\ request' = [request EXCEPT ![r] = Idle]
        /\ mails' = IF \E x \in mails : x.type = m.type /\ x.version = m.version
                    THEN mails ELSE mails \cup {m}
        /\ UNCHANGED <<app, complete, documents, storeStatus, overridden, hist, untold>>
    BY <1>9 DEF Enqueue, Finished
  <2> HIDE DEF m
  <2>2. /\ mails \subseteq mails' /\ mails' \subseteq mails \cup {m}
        /\ \E x \in mails' : x.type = m.type
    BY <2>1
  <2>3. \A x \in Requests : request'[x] = request[x] \/ (x = r /\ request'[x] = Idle)
    BY <2>1 DEF TypeOK
  <2>4. Tells(m, request[r].at) /\ request[r].at \in 1 .. Len(hist)
    BY <2>1 DEF RequestsHonest, m
  <2>5. RequestsHonest'
    BY <2>1, <2>3 DEF RequestsHonest, Been, Tells, Idle
  <2>6. DecisionsTold'
    <3>1. ASSUME NEW i \in 1 .. Len(hist)
          PROVE  \/ \E x \in mails' : x.type = MailType[hist[i].to]
                 \/ Owed(i)' \/ i \in untold
      <4>1. CASE Owed(i)
        <5>1. PICK x \in Requests :
                request[x].phase \in {"owes", "composed"} /\ request[x].at = i
          BY <4>1 DEF Owed
        <5>2. CASE x = r
          BY <5>1, <5>2, <2>2, <2>4 DEF Tells
        <5>3. CASE x # r
          BY <5>1, <5>3, <2>3 DEF Owed
        <5> QED
          BY <5>2, <5>3
      <4>2. CASE ~Owed(i)
        BY <4>2, <2>1, <2>2 DEF DecisionsTold
      <4> QED
        BY <4>1, <4>2
    <3>2. ASSUME NEW x \in mails' PROVE \E i \in 1 .. Len(hist) : Tells(x, i)
      BY <3>2, <2>1, <2>2, <2>4 DEF DecisionsTold
    <3>3. \A x, i : Tells(x, i)' <=> Tells(x, i)
      BY <2>1 DEF Tells
    <3> QED
      BY <3>1, <3>2, <3>3, <2>1 DEF DecisionsTold
  <2>7. HistoryIsPath' /\ StoreFollowsHistory' /\ NothingAfterCancel'
    BY <2>1 DEF HistoryIsPath, StoreFollowsHistory, NothingAfterCancel, Been, Opens, Closes
  <2> QED
    BY <1>0, <2>5, <2>6, <2>7
<1> QED
  BY <1>1, <1>2, <1>3, <1>4, <1>5, <1>6, <1>7, <1>8, <1>9 DEF Next, Edits, Decides

LEMMA AppsInit == Init => AppsInv
<1> SUFFICES ASSUME Init PROVE AppsInv
  OBVIOUS
<1>1. TypeOK
  <2>1. hist \in Seq([from : Statuses, to : Statuses])
    BY DEF Init
  <2> QED
    BY <2>1 DEF Init, TypeOK, Statuses, StoreStatuses
<1>2. Len(hist) = 0 /\ \A r \in Requests : request[r] = Idle
  BY DEF Init
<1> QED
  BY <1>1, <1>2 DEF Init, AppsInv, RequestsHonest, HistoryIsPath, StoreFollowsHistory,
     DecisionsTold, NothingAfterCancel, Idle

-----------------------------------------------------------------------------
(* The inductive invariant holds of every behaviour.                       *)
THEOREM AppsInvariance == Spec => []AppsInv
<1> QED
  BY AppsInit, AppsInductive, PTL DEF Spec

(* The variables keep their shapes for every number of requests.           *)
THEOREM AppsTypeCorrect == Spec => []TypeOK
<1> QED
  BY AppsInvariance, PTL DEF AppsInv

(* The submissions on record, and the versions that requests remember: no  *)
(* number is ahead of them, not even one that was read long ago.           *)
Submissions == {i \in 1 .. Len(hist) : hist[i].to = "SUBMITTED"}

VersionInv ==
  app.exists =>
    /\ app.version <= Cardinality(Submissions)
    /\ \A r \in Requests : request[r].phase = "read" =>
         request[r].version <= Cardinality(Submissions)

LEMMA SubmissionsFinite ==
  ASSUME TypeOK
  PROVE  IsFiniteSet(Submissions) /\ Cardinality(Submissions) \in Nat
<1>1. IsFiniteSet(1 .. Len(hist))
  BY FS_Interval, LenProperties DEF TypeOK
<1> QED
  BY <1>1, FS_Subset, FS_CardinalityType DEF Submissions

(* A decision appends to the history: one more submission, or as many.     *)
LEMMA SubmissionsGrow ==
  ASSUME TypeOK, NEW r \in Requests, Decides(r)
  PROVE  /\ Cardinality(Submissions') \in Nat
         /\ Cardinality(Submissions') >= Cardinality(Submissions)
         /\ Target[request[r].kind] = "SUBMITTED" =>
              Cardinality(Submissions') = Cardinality(Submissions) + 1
<1> DEFINE e == [from |-> request[r].status, to |-> Target[request[r].kind]]
<1>1. hist' = Append(hist, e) /\ e \in Entry /\ request[r].phase = "read"
  BY DecisionEffects, ReadRequest DEF Record, Entry, MailType, Statuses
<1>2. /\ Len(hist) \in Nat /\ Len(hist') = Len(hist) + 1
      /\ \A i \in 1 .. Len(hist) : hist'[i] = hist[i]
      /\ hist'[Len(hist) + 1] = e
  BY <1>1, AppendedHistory
<1> HIDE DEF e
<1>3. Submissions' = IF e.to = "SUBMITTED" THEN Submissions \cup {Len(hist) + 1} ELSE Submissions
  <2>1. 1 .. Len(hist') = (1 .. Len(hist)) \cup {Len(hist) + 1}
    BY <1>2
  <2>2. \A i \in 1 .. Len(hist') :
          i \in Submissions' <=> i \in Submissions \/ (i = Len(hist) + 1 /\ e.to = "SUBMITTED")
    BY <1>2, <2>1 DEF Submissions
  <2> QED
    BY <2>1, <2>2, <1>2 DEF Submissions
<1>4. Len(hist) + 1 \notin Submissions
  BY <1>2 DEF Submissions
<1>5. e.to = Target[request[r].kind]
  BY DEF e
<1>6. IsFiniteSet(Submissions) /\ Cardinality(Submissions) \in Nat
  BY SubmissionsFinite
<1>7. Cardinality(Submissions \cup {Len(hist) + 1}) = Cardinality(Submissions) + 1
  BY <1>4, <1>6, FS_AddElement
<1> QED
  BY <1>3, <1>5, <1>6, <1>7

LEMMA VersionInductive == TypeOK /\ VersionInv /\ [Next]_vars => VersionInv'
<1> SUFFICES ASSUME TypeOK, VersionInv, [Next]_vars, app'.exists PROVE VersionInv'
  BY DEF VersionInv
<1>0. Cardinality(Submissions) \in Nat /\ app.version \in Nat
  BY SubmissionsFinite DEF TypeOK
<1>1. ASSUME NEW r \in Requests, Decides(r) PROVE VersionInv'
  <2>1. /\ app.exists /\ request[r].phase = "read" /\ Record(r)
        /\ request[r].version \in Nat
    BY <1>1, DecisionEffects, ReadRequest
  <2>2. /\ app'.version = IF Target[request[r].kind] = "SUBMITTED"
                          THEN request[r].version + 1 ELSE app.version
        /\ \A s \in Requests : request'[s].phase = "read" => request'[s] = request[s]
    BY <2>1 DEF Record, TypeOK
  <2>3. /\ app.version <= Cardinality(Submissions)
        /\ \A s \in Requests : request[s].phase = "read" =>
             request[s].version <= Cardinality(Submissions) /\ request[s].version \in Nat
    BY <2>1, ReadRequest DEF VersionInv
  <2>4. app'.version <= Cardinality(Submissions')
    BY <1>0, <1>1, <2>1, <2>2, <2>3, SubmissionsGrow
  <2>5. \A s \in Requests : request'[s].phase = "read" =>
          request'[s].version <= Cardinality(Submissions')
    BY <1>0, <1>1, <2>2, <2>3, SubmissionsGrow
  <2> QED
    BY <2>4, <2>5 DEF VersionInv
<1>2. ASSUME app' = app, hist' = hist,
             \A s \in Requests : request'[s].phase = "read" =>
               request'[s] = request[s] \/ request'[s].version = app.version
      PROVE  VersionInv'
  <2>1. Submissions' = Submissions
    BY <1>2 DEF Submissions
  <2> QED
    BY <1>2, <2>1 DEF VersionInv
<1>3. ASSUME NEW r \in Requests, cancelOwnApplication(r) PROVE FALSE
  BY <1>3 DEF cancelOwnApplication, TypeOK
<1>4. ASSUME NEW r \in Requests, Read(r) PROVE VersionInv'
  BY <1>2, <1>4 DEF Read, TypeOK
<1>5. ASSUME NEW r \in Requests,
             \/ Abort(r) \/ Edits(r) \/ DeleteMails(r)
             \/ Compose(r) \/ Enqueue(r) \/ TellingFails(r)
      PROVE  VersionInv'
  <2>1. app' = app /\ hist' = hist
    BY <1>5 DEF Abort, Edits, DeleteMails, Compose, Enqueue, TellingFails,
       patchOwnApplication, addDocument, removeDocument
  <2>2. \E q : q.phase # "read" /\ request' = [request EXCEPT ![r] = q]
    BY <1>5 DEF Abort, Edits, DeleteMails, Compose, Enqueue, TellingFails, Finished, Idle,
       patchOwnApplication, addDocument, removeDocument
  <2>3. \A s \in Requests : request'[s].phase = "read" => request'[s] = request[s]
    BY <2>2 DEF TypeOK
  <2> QED
    BY <1>2, <2>1, <2>3
<1>6. ASSUME updateStatus \/ UNCHANGED vars PROVE VersionInv'
  BY <1>2, <1>6 DEF updateStatus, vars
<1> QED
  BY <1>1, <1>3, <1>4, <1>5, <1>6 DEF Next, Decides, Edits

(* However reviewers and merchant overlap: the history is a path of the    *)
(* review workflow that ends in the application's status, the store is     *)
(* open or closed as the last decision on it says, the version is never    *)
(* ahead of the submissions, and nothing comes back to a registration that *)
(* was cancelled: what is left are the mails queued between the two        *)
(* statements of the cancellation.                                         *)
THEOREM RecordAlwaysKept == Spec => []RecordKept
<1>1. Init => VersionInv
  <2> SUFFICES ASSUME Init PROVE VersionInv
    OBVIOUS
  <2>1. Cardinality(Submissions) \in Nat
    BY AppsInit, SubmissionsFinite DEF AppsInv
  <2> QED
    BY <2>1 DEF Init, VersionInv, Idle
<1>2. AppsInv /\ VersionInv => RecordKept
  BY DEF AppsInv, VersionInv, Submissions, RecordKept, VersionCountsSubmissions
<1>3. AppsInv => TypeOK
  BY DEF AppsInv
<1> QED
  BY <1>1, <1>2, <1>3, AppsInvariance, VersionInductive, PTL DEF Spec

(* Every decision is told or owed, unless its request failed after it, and *)
(* a mail tells the decision it is the mail of or a later one.             *)
THEOREM DecisionsAlwaysTold == Spec => []DecisionsTold
<1> QED
  BY AppsInvariance, PTL DEF AppsInv

LEMMA EditStep ==
  AppsInv /\ [Next]_vars =>
    [app.status \notin EDITABLE_STATUSES /\ app'.exists
       /\ (complete' # complete \/ documents' # documents) =>
     \E r \in Requests : /\ request[r].phase = "read" /\ request[r].kind \in Editors
                         /\ request[r].status \in EDITABLE_STATUSES
                         /\ request'[r].phase = "idle"]_vars
<1> SUFFICES ASSUME AppsInv, [Next]_vars, app'.exists,
                    complete' # complete \/ documents' # documents
             PROVE  \E r \in Requests : /\ request[r].phase = "read" /\ request[r].kind \in Editors
                                        /\ request[r].status \in EDITABLE_STATUSES
                                        /\ request'[r].phase = "idle"
  OBVIOUS
<1> USE DEF AppsInv
<1>1. PICK r \in Requests : Edits(r)
  <2>1. ASSUME NEW r \in Requests, cancelOwnApplication(r) PROVE ~app'.exists
    BY <2>1 DEF cancelOwnApplication, TypeOK
  <2> QED
    BY <2>1 DEF Next, Edits, vars, Read, Abort, doSubmit, startReview, approve, requestChanges,
       reject, suspend, Record, DeleteMails, Compose, Enqueue, TellingFails, updateStatus
<1>2. request[r].phase = "read" /\ request[r].kind \in Editors /\ request'[r].phase = "idle"
  BY <1>1 DEF Edits, patchOwnApplication, addDocument, removeDocument, Writing, Finished,
     Editors, TypeOK, Idle
<1>3. request[r].status \in EDITABLE_STATUSES
  BY <1>2 DEF RequestsHonest, Accepted, Editors
<1> QED
  BY <1>2, <1>3

(* What lies with the reviewers is edited only by a request that read it   *)
(* before.                                                                 *)
THEOREM EditsAreStale == Spec => EditedOnlyByStaleRead
<1> QED
  BY AppsInvariance, EditStep, PTL DEF Spec, EditedOnlyByStaleRead

-----------------------------------------------------------------------------
(* Sums over a finite set.  SumFunction is defined by recursion over the   *)
(* subsets; Value counts units instead, and is shown to be what the        *)
(* recursion gives.  Induction over a finite set is by a smallest          *)
(* counterexample: a set of sets, so no operator is a parameter.           *)

Pick(s) == CHOOSE x \in s : TRUE
Step(f, g, s) == IF s = {} THEN 0 ELSE f[Pick(s)] + g[s \ {Pick(s)}]
SumRec(f, S, g) == g = [s \in SUBSET S |-> Step(f, g, s)]

(* The sum, as the recursion that the community module defines.            *)
LEMMA SumUnfold ==
  ASSUME NEW f, NEW S
  PROVE  SumFunctionOnSet(f, S) = (CHOOSE g : SumRec(f, S, g))[S]
BY DEF SumFunctionOnSet, FoldFunctionOnSet, MapThenFoldSet, SumRec, Step, Pick

(* Among bad subsets of a finite set one has no bad proper subset.         *)
LEMMA Smallest ==
  ASSUME NEW S, IsFiniteSet(S), NEW Bad \in SUBSET (SUBSET S), Bad # {}
  PROVE  \E T \in Bad : \A U \in SUBSET T : U # T => U \notin Bad
<1>1. IsWellFoundedOn(StrictSubsetOrdering(S), SUBSET S)
  BY FS_StrictSubsetOrderingWellFounded, FS_FiniteSubsetsOfFinite
<1>2. PICK T \in Bad : \A U \in Bad : ~ (<<U, T>> \in StrictSubsetOrdering(S))
  BY <1>1, WFMin
<1> QED BY <1>2 DEF StrictSubsetOrdering

(* The value of a sum without recursion: unit by unit. *)
Units(f, s) == UNION {{x} \X (1..f[x]) : x \in s}
Negated(f, S) == [x \in S |-> 0 - f[x]]
Value(f, S, s) == Cardinality(Units(f, s)) - Cardinality(Units(Negated(f, S), s))

(* One row has as many units as its number, or none.                       *)
LEMMA UnitsOfOne ==
  ASSUME NEW x, NEW n \in Int
  PROVE  /\ IsFiniteSet({x} \X (1..n))
         /\ Cardinality({x} \X (1..n)) = IF n > 0 THEN n ELSE 0
<1>1. /\ IsFiniteSet({x}) /\ Cardinality({x}) = 1
  BY FS_Singleton
<1>2. /\ IsFiniteSet(1..n) /\ Cardinality(1..n) = IF n > 0 THEN n ELSE 0
  <2>1. /\ IsFiniteSet(1..n)
        /\ Cardinality(1..n) = IF 1 > n THEN 0 ELSE n - 1 + 1
    BY FS_Interval
  <2> QED BY <2>1
<1>3. /\ IsFiniteSet({x} \X (1..n))
      /\ Cardinality({x} \X (1..n)) = Cardinality({x}) * Cardinality(1..n)
  BY <1>1, <1>2, FS_Product
<1>4. \A k \in Int : 1 * k = k
  OBVIOUS
<1> QED BY <1>1, <1>2, <1>3, <1>4

(* The units of finitely many rows are finite.                             *)
LEMMA UnitsFinite ==
  ASSUME NEW s, IsFiniteSet(s), NEW f, \A x \in s : f[x] \in Int
  PROVE  IsFiniteSet(Units(f, s))
<1> DEFINE h == [y \in s |-> {y} \X (1..f[y])]
           R == {{y} \X (1..f[y]) : y \in s}
<1>1. \A y \in s : IsFiniteSet({y} \X (1..f[y]))
  BY UnitsOfOne
<1>2. h \in Surjection(s, R)
  BY DEF Surjection
<1>3. IsFiniteSet(R)
  BY <1>2, FS_Surjection
<1> QED BY <1>1, <1>3, FS_UNION DEF Units

(* One row more has its number of units more.                              *)
LEMMA UnitsSplit ==
  ASSUME NEW s, IsFiniteSet(s), NEW f, \A x \in s : f[x] \in Int, NEW x \in s
  PROVE  Cardinality(Units(f, s)) =
           Cardinality(Units(f, s \ {x})) + (IF f[x] > 0 THEN f[x] ELSE 0)
<1>2. IsFiniteSet(s \ {x})
  BY FS_RemoveElement
<1>3. Units(f, s) = Units(f, s \ {x}) \cup ({x} \X (1..f[x]))
  BY DEF Units
<1>4. Units(f, s \ {x}) \cap ({x} \X (1..f[x])) = {}
  BY DEF Units
<1>5. /\ IsFiniteSet({x} \X (1..f[x]))
      /\ Cardinality({x} \X (1..f[x])) = IF f[x] > 0 THEN f[x] ELSE 0
  BY UnitsOfOne
<1>6. Cardinality({}) = 0
  BY FS_EmptySet
<1>7. IsFiniteSet(Units(f, s \ {x}))
  BY <1>2, UnitsFinite
<1>8. Cardinality(Units(f, s \ {x})) \in Nat
  BY <1>7, FS_CardinalityType
<1> DEFINE A == Units(f, s \ {x})
           B == {x} \X (1..f[x])
<1>9. Cardinality(A \cup B) = Cardinality(A) + Cardinality(B) - Cardinality(A \cap B)
  BY <1>7, <1>5, FS_Union
<1>10. A \cap B = {} /\ Cardinality(A) \in Nat /\ Units(f, s) = A \cup B
  BY <1>3, <1>4, <1>8
<1>11. Cardinality(B) = IF f[x] > 0 THEN f[x] ELSE 0
  BY <1>5
<1>12. f[x] \in Int
  OBVIOUS
<1> HIDE DEF A, B
<1>13. Cardinality(A \cup B) = Cardinality(A) + Cardinality(B)
  BY <1>9, <1>6, <1>10, <1>11, <1>12
<1> QED BY <1>10, <1>11, <1>13 DEF A

(* The value without recursion satisfies the recursion.                    *)
LEMMA ValueStep ==
  ASSUME NEW S, IsFiniteSet(S), NEW f, \A x \in S : f[x] \in Int,
         NEW s \in SUBSET S, NEW x \in s
  PROVE  /\ Value(f, S, s) = f[x] + Value(f, S, s \ {x})
         /\ Value(f, S, s) \in Int
<1> DEFINE g == Negated(f, S)
<1>1. IsFiniteSet(s) /\ IsFiniteSet(s \ {x})
  BY FS_Subset, FS_RemoveElement
<1>2. /\ \A y \in S : g[y] = 0 - f[y]
  BY DEF Negated
<1>3. \A y \in s : f[y] \in Int /\ g[y] \in Int
  BY <1>2
<1> HIDE DEF g
<1>4. \A t : t \in {s, s \ {x}} => IsFiniteSet(Units(f, t)) /\ IsFiniteSet(Units(g, t))
  BY <1>1, <1>3, UnitsFinite
<1>5. \A t : t \in {s, s \ {x}} => Cardinality(Units(f, t)) \in Nat /\ Cardinality(Units(g, t)) \in Nat
  BY <1>4, FS_CardinalityType
<1>6. Cardinality(Units(f, s)) = Cardinality(Units(f, s \ {x})) + (IF f[x] > 0 THEN f[x] ELSE 0)
  BY <1>1, <1>3, UnitsSplit
<1>7. Cardinality(Units(g, s)) = Cardinality(Units(g, s \ {x})) + (IF g[x] > 0 THEN g[x] ELSE 0)
  BY <1>1, <1>3, UnitsSplit
<1>8. x \in S /\ g[x] = 0 - f[x] /\ f[x] \in Int
  BY <1>2
<1> QED BY <1>5, <1>6, <1>7, <1>8 DEF Value, g

(* The value of no rows.                                                   *)
LEMMA ValueOfNone == ASSUME NEW f, NEW S PROVE Value(f, S, {}) = 0
<1>1. \A g : Units(g, {}) = {}
  BY DEF Units
<1> QED BY <1>1, FS_EmptySet DEF Value

(* The recursion has exactly one solution. *)
LEMMA SumExists ==
  ASSUME NEW S, IsFiniteSet(S), NEW f, \A x \in S : f[x] \in Int
  PROVE  SumRec(f, S, [s \in SUBSET S |-> Value(f, S, s)])
<1> DEFINE g == [s \in SUBSET S |-> Value(f, S, s)]
<1>1. ASSUME NEW s \in SUBSET S PROVE g[s] = Step(f, g, s)
  <2>1. CASE s = {}
    BY <2>1, ValueOfNone DEF Step
  <2>2. CASE s # {}
    <3>1. Pick(s) \in s
      BY <2>2 DEF Pick
    <3>2. Value(f, S, s) = f[Pick(s)] + Value(f, S, s \ {Pick(s)})
      BY <3>1, ValueStep
    <3>3. s \ {Pick(s)} \in SUBSET S
      OBVIOUS
    <3> QED BY <2>2, <3>2, <3>3 DEF Step
  <2> QED BY <2>1, <2>2
<1> QED BY <1>1 DEF SumRec

(* Whatever satisfies the recursion is the value.                          *)
LEMMA SumUnique ==
  ASSUME NEW S, IsFiniteSet(S), NEW f, \A x \in S : f[x] \in Int, NEW g, SumRec(f, S, g)
  PROVE  \A s \in SUBSET S : g[s] = Value(f, S, s)
<1> DEFINE Bad == {s \in SUBSET S : g[s] # Value(f, S, s)}
<1> SUFFICES ASSUME Bad # {} PROVE FALSE
  OBVIOUS
<1>0. Bad \in SUBSET (SUBSET S)
  OBVIOUS
<1>1. PICK s \in Bad : \A U \in SUBSET s : U # s => U \notin Bad
  <2> HIDE DEF Bad
  <2> QED BY <1>0, Smallest
<1>2. g[s] = Step(f, g, s)
  BY <1>1 DEF SumRec
<1>3. CASE s = {}
  BY <1>1, <1>2, <1>3, ValueOfNone DEF Step
<1>4. CASE s # {}
  <2>1. Pick(s) \in s
    BY <1>4 DEF Pick
  <2>2. g[s \ {Pick(s)}] = Value(f, S, s \ {Pick(s)})
    BY <1>1, <2>1
  <2>3. Value(f, S, s) = f[Pick(s)] + Value(f, S, s \ {Pick(s)})
    BY <1>1, <2>1, ValueStep
  <2> QED BY <1>1, <1>2, <1>4, <2>2, <2>3 DEF Step
<1> QED BY <1>3, <1>4

(* So the sum is the value.                                                *)
LEMMA SumValue ==
  ASSUME NEW S, IsFiniteSet(S), NEW f, \A x \in S : f[x] \in Int
  PROVE  SumFunctionOnSet(f, S) = Value(f, S, S)
<1>1. SumRec(f, S, CHOOSE g : SumRec(f, S, g))
  BY SumExists
<1> QED BY <1>1, SumUnique, SumUnfold

-----------------------------------------------------------------------------
(* A set of subsets that has the empty set, and with every set less one    *)
(* element the set, has all of them.                                       *)
LEMMA SetInduction ==
  ASSUME NEW S, IsFiniteSet(S), NEW Good,
         {} \in Good,
         \A s \in SUBSET S : \A x \in s : s \ {x} \in Good => s \in Good
  PROVE  S \in Good
<1> DEFINE Bad == {s \in SUBSET S : s \notin Good}
<1> SUFFICES ASSUME Bad # {} PROVE FALSE
  OBVIOUS
<1>1. PICK s \in Bad : \A U \in SUBSET s : U # s => U \notin Bad
  <2>1. Bad \in SUBSET (SUBSET S)
    OBVIOUS
  <2> HIDE DEF Bad
  <2> QED BY <2>1, Smallest
<1>2. PICK x \in s : TRUE
  BY <1>1
<1>3. s \ {x} \in SUBSET s /\ s \ {x} # s /\ s \in SUBSET S
  BY <1>1, <1>2
<1>4. s \ {x} \in Good
  BY <1>1, <1>3
<1> QED BY <1>1, <1>2, <1>3, <1>4

(* The sum over a part of the domain. *)
SumOver(f, s) == SumFunction([x \in s |-> f[x]])

(* The same of a part of the rows.                                         *)
LEMMA SumOverValue ==
  ASSUME NEW S, IsFiniteSet(S), NEW f \in [S -> Int], NEW s \in SUBSET S
  PROVE  SumOver(f, s) = Value(f, S, s)
<1> DEFINE g == [x \in s |-> f[x]]
<1>1. IsFiniteSet(s)
  BY FS_Subset
<1>2. \A x \in s : g[x] \in Int /\ g[x] = f[x]
  OBVIOUS
<1>3. DOMAIN g = s /\ SumOver(f, s) = SumFunctionOnSet(g, s)
  BY DEF SumOver, SumFunction
<1> HIDE DEF g
<1>4. SumFunctionOnSet(g, s) = Value(g, s, s)
  BY <1>1, <1>2, SumValue
<1>5. Units(g, s) = Units(f, s)
  BY <1>2 DEF Units
<1>6. \A x \in s : Negated(g, s)[x] = Negated(f, S)[x]
  BY <1>2 DEF Negated
<1>7. Units(Negated(g, s), s) = Units(Negated(f, S), s)
  BY <1>6 DEF Units
<1> QED BY <1>3, <1>4, <1>5, <1>7 DEF Value

(* A sum of no rows.                                                       *)
LEMMA SumNone == ASSUME NEW f PROVE SumOver(f, {}) = 0
<1> DEFINE g == [x \in {} |-> f[x]]
<1>1. SumOver(f, {}) = SumFunctionOnSet(g, {})
  BY DEF SumOver, SumFunction
<1>2. \A x \in {} : g[x] \in Int
  OBVIOUS
<1> HIDE DEF g
<1> QED BY <1>1, <1>2, FS_EmptySet, SumValue, ValueOfNone

(* A sum is that of one row and that of the others.                        *)
LEMMA SumStep ==
  ASSUME NEW S, IsFiniteSet(S), NEW f \in [S -> Int], NEW s \in SUBSET S, NEW x \in s
  PROVE  SumOver(f, s) = f[x] + SumOver(f, s \ {x}) /\ SumOver(f, s) \in Int
<1>1. SumOver(f, s) = Value(f, S, s)
  BY SumOverValue
<1>2. SumOver(f, s \ {x}) = Value(f, S, s \ {x})
  <2>1. s \ {x} \in SUBSET S
    OBVIOUS
  <2> QED BY <2>1, SumOverValue
<1>3. \A y \in S : f[y] \in Int
  OBVIOUS
<1>4. Value(f, S, s) = f[x] + Value(f, S, s \ {x}) /\ Value(f, S, s) \in Int
  BY <1>3, ValueStep
<1> QED BY <1>1, <1>2, <1>4

(* The sum of a function is the one over its domain.                       *)
LEMMA SumWhole ==
  ASSUME NEW S, NEW f, f = [x \in S |-> f[x]]
  PROVE  SumFunction(f) = SumOver(f, S)
BY DEF SumOver

(* Sums of integers are integers.                                          *)
LEMMA SumInt ==
  ASSUME NEW S, IsFiniteSet(S), NEW f \in [S -> Int], NEW s \in SUBSET S
  PROVE  SumOver(f, s) \in Int
<1>1. CASE s = {}
  BY <1>1, SumNone
<1>2. CASE s # {}
  BY <1>2, SumStep
<1> QED BY <1>1, <1>2

(* Sums of naturals are naturals.                                          *)
LEMMA SumNat ==
  ASSUME NEW S, IsFiniteSet(S), NEW f \in [S -> Int], NEW s \in SUBSET S,
         \A x \in s : f[x] \in Nat
  PROVE  SumOver(f, s) \in Nat
<1> DEFINE Good == {t \in SUBSET s : SumOver(f, t) \in Nat}
<1>1. {} \in Good
  BY SumNone
<1>2. ASSUME NEW t \in SUBSET s, NEW x \in t, t \ {x} \in Good
      PROVE  t \in Good
  <2>1. SumOver(f, t) = f[x] + SumOver(f, t \ {x})
    BY SumStep
  <2> QED BY <1>2, <2>1
<1>3. IsFiniteSet(s)
  BY FS_Subset
<1>4. s \in Good
  <2> HIDE DEF Good
  <2> QED BY <1>1, <1>2, <1>3, SetInduction
<1> QED BY <1>4

(* A sum depends on the rows it is over only.                              *)
LEMMA SumSame ==
  ASSUME NEW f, NEW g, NEW s, \A x \in s : f[x] = g[x]
  PROVE  SumOver(f, s) = SumOver(g, s)
<1>1. [x \in s |-> f[x]] = [x \in s |-> g[x]]
  OBVIOUS
<1> QED BY <1>1 DEF SumOver

(* A sum of zeros.                                                         *)
LEMMA SumZero ==
  ASSUME NEW S, IsFiniteSet(S), NEW f \in [S -> Int], NEW s \in SUBSET S,
         \A x \in s : f[x] = 0
  PROVE  SumOver(f, s) = 0
<1> DEFINE Good == {t \in SUBSET s : SumOver(f, t) = 0}
<1>1. {} \in Good
  BY SumNone
<1>2. ASSUME NEW t \in SUBSET s, NEW x \in t, t \ {x} \in Good
      PROVE  t \in Good
  <2>1. SumOver(f, t) = f[x] + SumOver(f, t \ {x})
    BY SumStep
  <2> QED BY <1>2, <2>1
<1>3. IsFiniteSet(s)
  BY FS_Subset
<1>4. s \in Good
  <2> HIDE DEF Good
  <2> QED BY <1>1, <1>2, <1>3, SetInduction
<1> QED BY <1>4

(* A sum of ones counts.                                                   *)
LEMMA SumOnes ==
  ASSUME NEW S, IsFiniteSet(S), NEW f \in [S -> Int], NEW s \in SUBSET S,
         \A x \in s : f[x] = 1
  PROVE  SumOver(f, s) = Cardinality(s)
<1> DEFINE Good == {t \in SUBSET s : SumOver(f, t) = Cardinality(t)}
<1>1. {} \in Good
  BY SumNone, FS_EmptySet
<1>2. ASSUME NEW t \in SUBSET s, NEW x \in t, t \ {x} \in Good
      PROVE  t \in Good
  <2>1. SumOver(f, t) = f[x] + SumOver(f, t \ {x})
    BY SumStep
  <2>2. IsFiniteSet(t)
    BY FS_Subset
  <2>3. Cardinality(t \ {x}) = Cardinality(t) - 1 /\ Cardinality(t) \in Nat
    BY <2>2, FS_RemoveElement, FS_CardinalityType
  <2>4. SumOver(f, t) = 1 + (Cardinality(t) - 1)
    BY <1>2, <2>1, <2>3
  <2> QED BY <2>3, <2>4
<1>3. IsFiniteSet(s)
  BY FS_Subset
<1>4. s \in Good
  <2> HIDE DEF Good
  <2> QED BY <1>1, <1>2, <1>3, SetInduction
<1> QED BY <1>4

(* A sum of sums.                                                          *)
LEMMA SumPlus ==
  ASSUME NEW S, IsFiniteSet(S), NEW f \in [S -> Int], NEW g \in [S -> Int], NEW h \in [S -> Int],
         NEW s \in SUBSET S, \A x \in s : h[x] = f[x] + g[x]
  PROVE  SumOver(h, s) = SumOver(f, s) + SumOver(g, s)
<1> DEFINE Good == {t \in SUBSET s : SumOver(h, t) = SumOver(f, t) + SumOver(g, t)}
<1>1. {} \in Good
  BY SumNone
<1>2. ASSUME NEW t \in SUBSET s, NEW x \in t, t \ {x} \in Good
      PROVE  t \in Good
  <2>1. /\ SumOver(f, t) = f[x] + SumOver(f, t \ {x})
        /\ SumOver(g, t) = g[x] + SumOver(g, t \ {x})
        /\ SumOver(h, t) = h[x] + SumOver(h, t \ {x})
    BY SumStep
  <2>2. SumOver(f, t \ {x}) \in Int /\ SumOver(g, t \ {x}) \in Int
    BY SumInt
  <2>3. h[x] = f[x] + g[x] /\ f[x] \in Int /\ g[x] \in Int
    OBVIOUS
  <2>4. SumOver(h, t \ {x}) = SumOver(f, t \ {x}) + SumOver(g, t \ {x})
    BY <1>2
  <2>5. SumOver(h, t) = SumOver(f, t) + SumOver(g, t)
    BY <2>1, <2>2, <2>3, <2>4
  <2> QED BY <2>5
<1>3. IsFiniteSet(s)
  BY FS_Subset
<1>4. s \in Good
  <2> HIDE DEF Good
  <2> QED BY <1>1, <1>2, <1>3, SetInduction
<1> QED BY <1>4

(* A sum over two sets that share no row.                                  *)
LEMMA SumUnion ==
  ASSUME NEW S, IsFiniteSet(S), NEW f \in [S -> Int],
         NEW s \in SUBSET S, NEW r \in SUBSET S, s \cap r = {}
  PROVE  SumOver(f, r \cup s) = SumOver(f, r) + SumOver(f, s)
<1> DEFINE Good == {t \in SUBSET s : SumOver(f, r \cup t) = SumOver(f, r) + SumOver(f, t)}
<1>0. SumOver(f, r) \in Int
  BY SumInt
<1>1. {} \in Good
  <2>1. r \cup {} = r
    OBVIOUS
  <2> QED BY <1>0, <2>1, SumNone
<1>2. ASSUME NEW t \in SUBSET s, NEW x \in t, t \ {x} \in Good
      PROVE  t \in Good
  <2>1. SumOver(f, t) = f[x] + SumOver(f, t \ {x})
    BY SumStep
  <2>2. SumOver(f, r \cup t) = f[x] + SumOver(f, (r \cup t) \ {x})
    <3>1. r \cup t \in SUBSET S /\ x \in r \cup t
      OBVIOUS
    <3> QED BY <3>1, SumStep
  <2>3. (r \cup t) \ {x} = r \cup (t \ {x})
    OBVIOUS
  <2>4. SumOver(f, t \ {x}) \in Int /\ f[x] \in Int
    BY SumInt
  <2>5. SumOver(f, (r \cup t) \ {x}) = SumOver(f, r) + SumOver(f, t \ {x})
    BY <1>2, <2>3
  <2>6. SumOver(f, r \cup t) = SumOver(f, r) + SumOver(f, t)
    BY <1>0, <2>1, <2>2, <2>4, <2>5
  <2> QED BY <2>6
<1>3. IsFiniteSet(s)
  BY FS_Subset
<1>4. s \in Good
  <2> HIDE DEF Good
  <2> QED BY <1>1, <1>2, <1>3, SetInduction
<1> QED BY <1>4

(* Over parts that have nothing in common, the sums add up. *)
LEMMA PartSums ==
  ASSUME NEW S, IsFiniteSet(S), NEW f \in [S -> Int], NEW K, IsFiniteSet(K),
         NEW part \in [K -> SUBSET S], \A k, l \in K : k # l => part[k] \cap part[l] = {},
         NEW W, W = UNION {part[k] : k \in K},
         NEW G, G = [k \in K |-> SumOver(f, part[k])]
  PROVE  SumFunction(G) = SumOver(f, W)
<1> DEFINE of(L) == UNION {part[k] : k \in L}
           Good == {L \in SUBSET K : SumOver(G, L) = SumOver(f, of(L))}
<1>0. G \in [K -> Int]
  BY SumInt
<1>1. {} \in Good
  <2>1. of({}) = {}
    OBVIOUS
  <2> QED BY <2>1, SumNone
<1>2. ASSUME NEW L \in SUBSET K, NEW k \in L, L \ {k} \in Good
      PROVE  L \in Good
  <2>1. SumOver(G, L) = G[k] + SumOver(G, L \ {k})
    BY <1>0, SumStep
  <2> DEFINE A == part[k]
             B == of(L \ {k})
  <2>2. A \in SUBSET S /\ B \in SUBSET S /\ A \cap B = {} /\ of(L) = B \cup A
    OBVIOUS
  <2>3. G[k] = SumOver(f, A) /\ G[k] \in Int
    BY <1>0
  <2>4. SumOver(G, L \ {k}) = SumOver(f, B)
    BY <1>2
  <2> HIDE DEF A, B, of
  <2>5. SumOver(f, B \cup A) = SumOver(f, B) + SumOver(f, A)
    BY <2>2, SumUnion
  <2>6. SumOver(f, B) \in Int
    BY <2>2, SumInt
  <2>7. SumOver(G, L) = SumOver(f, of(L))
    BY <2>1, <2>2, <2>3, <2>4, <2>5, <2>6
  <2> QED BY <2>7 DEF of
<1>3. K \in Good
  <2> HIDE DEF Good
  <2> QED BY <1>1, <1>2, SetInduction
<1>4. SumFunction(G) = SumOver(G, K)
  BY SumWhole
<1> QED BY <1>3, <1>4

(* The same of the numbers of rows.                                        *)
LEMMA PartCounts ==
  ASSUME NEW S, IsFiniteSet(S), NEW K, IsFiniteSet(K),
         NEW part \in [K -> SUBSET S], \A k, l \in K : k # l => part[k] \cap part[l] = {},
         NEW W, W = UNION {part[k] : k \in K},
         NEW G, G = [k \in K |-> Cardinality(part[k])]
  PROVE  SumFunction(G) = Cardinality(W)
<1> DEFINE one == [x \in S |-> 1]
<1>1. one \in [S -> Int] /\ \A x \in S : one[x] = 1
  OBVIOUS
<1> HIDE DEF one
<1>2. ASSUME NEW T \in SUBSET S PROVE SumOver(one, T) = Cardinality(T)
  BY <1>1, SumOnes
<1>3. G = [k \in K |-> SumOver(one, part[k])]
  <2>1. \A k \in K : part[k] \in SUBSET S
    OBVIOUS
  <2> QED BY <1>2, <2>1
<1>4. SumFunction(G) = SumOver(one, W)
  BY <1>1, <1>3, PartSums
<1>5. W \in SUBSET S
  OBVIOUS
<1> QED BY <1>2, <1>4, <1>5

(* A sum of one row.                                                       *)
LEMMA SumOfOne ==
  ASSUME NEW S, IsFiniteSet(S), NEW f \in [S -> Int], NEW x \in S
  PROVE  SumOver(f, {x}) = f[x]
<1>1. SumOver(f, {x}) = f[x] + SumOver(f, {x} \ {x}) /\ {x} \ {x} = {}
  BY SumStep
<1> QED BY <1>1, SumNone

(* A sum read along a list of the elements. *)
LEMMA SumAlong ==
  ASSUME NEW S, IsFiniteSet(S), NEW f \in [S -> Int],
         NEW T, IsFiniteSet(T), NEW b \in Bijection(T, S)
  PROVE  SumOver([t \in T |-> f[b[t]]], T) = SumOver(f, S)
<1> DEFINE g == [t \in T |-> f[b[t]]]
           part == [k \in S |-> {t \in T : b[t] = k}]
           h == [k \in S |-> SumOver(g, part[k])]
<1>0. b \in [T -> S] /\ (\A t, u \in T : b[t] = b[u] => t = u) /\ \A k \in S : \E t \in T : b[t] = k
  BY DEF Bijection, Injection, IsInjective, Surjection
<1>1. g \in [T -> Int]
  BY <1>0
<1>2. part \in [S -> SUBSET T] /\ (\A k, l \in S : k # l => part[k] \cap part[l] = {})
      /\ T = UNION {part[k] : k \in S}
  BY <1>0
<1>3. SumFunction(h) = SumOver(g, T)
  <2> HIDE DEF g, part
  <2> QED BY <1>1, <1>2, PartSums
<1>4. ASSUME NEW k \in S PROVE h[k] = f[k]
  <2>1. PICK t \in T : b[t] = k
    BY <1>0
  <2>2. {u \in T : b[u] = k} = {t}
    BY <1>0, <2>1
  <2>3. SumOver(g, {t}) = g[t]
    <3> HIDE DEF g
    <3> QED BY <1>1, SumOfOne
  <2> QED BY <2>1, <2>2, <2>3
<1>5. SumFunction(h) = SumOver(f, S)
  <2>1. h = [k \in S |-> h[k]]
    OBVIOUS
  <2> HIDE DEF h
  <2> QED BY <1>4, <2>1, SumSame, SumWhole
<1> QED BY <1>3, <1>5

(* With none below zero, fewer rows have a sum no greater.                 *)
LEMMA SumLeq ==
  ASSUME NEW S, IsFiniteSet(S), NEW f \in [S -> Int], NEW r \in SUBSET S, NEW s \in SUBSET r,
         \A x \in r : f[x] \in Nat
  PROVE  SumOver(f, s) <= SumOver(f, r)
<1>1. r \ s \in SUBSET S /\ s \in SUBSET S /\ s \cup (r \ s) = r /\ (r \ s) \cap s = {}
  OBVIOUS
<1>2. SumOver(f, r) = SumOver(f, s) + SumOver(f, r \ s)
  BY <1>1, SumUnion
<1>3. SumOver(f, r \ s) \in Nat /\ SumOver(f, s) \in Int
  BY <1>1, SumNat, SumInt
<1> QED BY <1>2, <1>3

-----------------------------------------------------------------------------
(* What an order on a finite set has: first elements, a greatest number    *)
(* and a list.                                                             *)
LEMMA ListExists ==
  ASSUME NEW S, IsFiniteSet(S), NEW before,
         \A T \in SUBSET S : T # {} => \E m \in T : \A x \in T : <<x, m>> \notin before
  PROVE  \E l \in [1..Cardinality(S) -> S] :
           \A i, j \in 1..Cardinality(S) : i < j => l[i] # l[j] /\ <<l[j], l[i]>> \notin before
<1> DEFINE P(s, l) == /\ l \in [1..Cardinality(s) -> s]
                      /\ \A i, j \in 1..Cardinality(s) :
                            i < j => l[i] # l[j] /\ <<l[j], l[i]>> \notin before
           Good == {s \in SUBSET S : \E l : P(s, l)}
           Bad == {s \in SUBSET S : ~ \E l : P(s, l)}
<1> SUFFICES ASSUME Bad # {} PROVE FALSE
  <2>1. S \in SUBSET S
    OBVIOUS
  <2>2. \E l : P(S, l)
    BY <2>1
  <2> QED BY <2>2
<1>1. PICK s \in Bad : \A U \in SUBSET s : U # s => U \notin Bad
  <2>1. Bad \in SUBSET (SUBSET S)
    OBVIOUS
  <2> HIDE DEF Bad
  <2> QED BY <2>1, Smallest
<1>2. s # {}
  <2> SUFFICES ASSUME s = {} PROVE FALSE
    OBVIOUS
  <2>1. Cardinality(s) = 0 /\ 1..0 = {}
    BY FS_EmptySet
  <2>2. P(s, [i \in {} |-> i])
    BY <2>1
  <2> QED BY <1>1, <2>2
<1>3. PICK m \in s : \A x \in s : <<x, m>> \notin before
  BY <1>1, <1>2
<1>4. IsFiniteSet(s)
  BY <1>1, FS_Subset
<1> DEFINE n == Cardinality(s)
<1>5. Cardinality(s \ {m}) = n - 1 /\ n \in Nat /\ n # 0
  BY <1>2, <1>4, FS_RemoveElement, FS_CardinalityType, FS_EmptySet
<1>6. PICK k : P(s \ {m}, k)
  <2>1. s \ {m} \in SUBSET s /\ s \ {m} # s /\ s \ {m} \in SUBSET S
    BY <1>1
  <2>2. s \ {m} \notin Bad
    BY <1>1, <2>1
  <2> QED BY <2>1, <2>2
<1>7. /\ k \in [1..n - 1 -> s \ {m}]
      /\ \A i, j \in 1..n - 1 : i < j => k[i] # k[j] /\ <<k[j], k[i]>> \notin before
  BY <1>5, <1>6
<1> DEFINE l == [i \in 1..n |-> IF i = 1 THEN m ELSE k[i - 1]]
<1> HIDE DEF n
<1>8. \A i \in 1..n : i # 1 => i - 1 \in 1..n - 1
  BY <1>5
<1>9. l \in [1..n -> s]
  BY <1>7, <1>8
<1>10. ASSUME NEW i \in 1..n, NEW j \in 1..n, i < j
       PROVE  l[i] # l[j] /\ <<l[j], l[i]>> \notin before
  <2>1. j # 1 /\ j - 1 \in 1..n - 1 /\ l[j] = k[j - 1] /\ l[j] \in s \ {m}
    BY <1>7, <1>8, <1>10
  <2>2. CASE i = 1
    BY <1>3, <2>1, <2>2
  <2>3. CASE i # 1
    <3>1. i - 1 \in 1..n - 1 /\ i - 1 < j - 1 /\ l[i] = k[i - 1]
      BY <1>8, <1>10, <2>3
    <3> QED BY <1>7, <2>1, <3>1
  <2> QED BY <2>2, <2>3
<1>11. P(s, l)
  BY <1>9, <1>10 DEF n
<1> QED BY <1>1, <1>11

(* A list of all rows without repetition has each of them once.            *)
LEMMA ListIsBijection ==
  ASSUME NEW S, IsFiniteSet(S), NEW l \in [1..Cardinality(S) -> S],
         \A i, j \in 1..Cardinality(S) : i < j => l[i] # l[j]
  PROVE  l \in Bijection(1..Cardinality(S), S)
<1> DEFINE n == Cardinality(S)
<1>1. n \in Nat
  BY FS_CardinalityType
<1>2. IsFiniteSet(1..n) /\ Cardinality(1..n) = n
  BY <1>1, FS_Interval
<1> HIDE DEF n
<1>3. \A i, j \in 1..n : l[i] = l[j] => i = j
  BY DEF n
<1>4. l \in Injection(1..n, S)
  BY <1>3 DEF Injection, IsInjective, n
<1>5. l \in Surjection(1..n, S)
  BY <1>2, <1>4, FS_Injection DEF n
<1> QED BY <1>4, <1>5 DEF Bijection, n

(* One of finitely many rows is the greatest.                              *)
LEMMA GreatestExists ==
  ASSUME NEW S, IsFiniteSet(S), NEW f \in [S -> Int], NEW T \in SUBSET S, T # {}
  PROVE  \E m \in T : \A x \in T : f[x] <= f[m]
<1> DEFINE Best(s) == \E m \in s : \A x \in s : f[x] <= f[m]
           Good == {s \in SUBSET T : s = {} \/ Best(s)}
<1>1. {} \in Good
  OBVIOUS
<1>2. ASSUME NEW s \in SUBSET T, NEW x \in s, s \ {x} \in Good
      PROVE  s \in Good
  <2>0. \A y \in s : f[y] \in Int
    OBVIOUS
  <2>1. CASE s \ {x} = {}
    <3>1. s = {x}
      BY <2>1
    <3>2. Best(s)
      BY <2>0, <3>1
    <3> QED BY <3>2
  <2>2. CASE s \ {x} # {}
    <3>1. PICK m \in s \ {x} : \A y \in s \ {x} : f[y] <= f[m]
      BY <1>2, <2>2
    <3>2. CASE f[x] <= f[m]
      <4>1. \A y \in s : f[y] <= f[m]
        BY <3>1, <3>2
      <4> QED BY <3>1, <4>1
    <3>3. CASE ~ (f[x] <= f[m])
      <4>1. \A y \in s : f[y] <= f[x]
        BY <2>0, <3>1, <3>3
      <4>2. Best(s)
        BY <4>1
      <4> QED BY <4>2
    <3> QED BY <3>2, <3>3
  <2> QED BY <2>1, <2>2
<1>3. IsFiniteSet(T)
  BY FS_Subset
<1>4. T \in Good
  <2> HIDE DEF Good
  <2> QED BY <1>1, <1>2, <1>3, SetInduction
<1> QED BY <1>4

-----------------------------------------------------------------------------
(* The calendar.                                                           *)

(* Months are 28 to 31 days, and twelve of them 365. *)
LEMMA YearDays ==
  /\ \A r \in 1..12 : DaysOfYear[r] \in 0..334
  /\ \A r \in 1..11 : DaysOfYear[r + 1] - DaysOfYear[r] \in 28..31
  /\ DaysOfYear[1] = 0 /\ DaysOfYear[12] = 334
<1>1. DOMAIN DaysOfYear = 1..12
  BY DEF DaysOfYear
<1>2. /\ DaysOfYear[1] = 0 /\ DaysOfYear[2] = 31 /\ DaysOfYear[3] = 59 /\ DaysOfYear[4] = 90
      /\ DaysOfYear[5] = 120 /\ DaysOfYear[6] = 151 /\ DaysOfYear[7] = 181 /\ DaysOfYear[8] = 212
      /\ DaysOfYear[9] = 243 /\ DaysOfYear[10] = 273 /\ DaysOfYear[11] = 304 /\ DaysOfYear[12] = 334
  BY DEF DaysOfYear
<1>3. \A r \in 1..12 : r = 1 \/ r = 2 \/ r = 3 \/ r = 4 \/ r = 5 \/ r = 6 \/ r = 7 \/ r = 8
                       \/ r = 9 \/ r = 10 \/ r = 11 \/ r = 12
  OBVIOUS
<1>4. ASSUME NEW r \in 1..12 PROVE DaysOfYear[r] \in 0..334
  BY <1>2, <1>3
<1>5. ASSUME NEW r \in 1..11 PROVE DaysOfYear[r + 1] - DaysOfYear[r] \in 28..31
  <2>1. r = 1 \/ r = 2 \/ r = 3 \/ r = 4 \/ r = 5 \/ r = 6 \/ r = 7 \/ r = 8 \/ r = 9 \/ r = 10 \/ r = 11
    OBVIOUS
  <2> QED BY <1>2, <2>1
<1> QED BY <1>2, <1>4, <1>5

(* The days before a month and those of it.                                *)
LEMMA MonthLength ==
  ASSUME NEW m \in 0..35
  PROVE  /\ DaysBefore[m] \in Nat /\ DaysBefore[m + 1] \in Nat
         /\ LengthOf(m) \in 28..31
         /\ DaysBefore[m + 1] = DaysBefore[m] + LengthOf(m)
<1>1. PICK y \in 0..2, r \in 0..11 : m = 12 * y + r
  <2>1. m \div 12 \in 0..2 /\ m % 12 \in 0..11 /\ m = 12 * (m \div 12) + (m % 12)
    OBVIOUS
  <2> QED BY <2>1
<1>2. m \div 12 = y /\ m % 12 = r
  BY <1>1
<1>3. DaysBefore[m] = 365 * y + DaysOfYear[r + 1]
  BY <1>2 DEF DaysBefore
<1>4. r + 1 \in 1..12
  OBVIOUS
<1>5. CASE r < 11
  <2>1. (m + 1) \div 12 = y /\ (m + 1) % 12 = r + 1 /\ m + 1 \in 0..36
    BY <1>1, <1>5
  <2>2. DaysBefore[m + 1] = 365 * y + DaysOfYear[r + 1 + 1]
    BY <2>1 DEF DaysBefore
  <2>3. r + 1 \in 1..11
    BY <1>5
  <2>4. DaysOfYear[r + 1 + 1] - DaysOfYear[r + 1] \in 28..31
    BY <2>3, YearDays
  <2>5. DaysOfYear[r + 1] \in 0..334 /\ DaysOfYear[r + 1 + 1] \in 0..334
    <3>1. r + 1 + 1 \in 1..12
      BY <2>3
    <3> QED BY <1>4, <3>1, YearDays
  <2> DEFINE a == DaysOfYear[r + 1]
             b == DaysOfYear[r + 1 + 1]
  <2>6. a \in 0..334 /\ b \in 0..334 /\ b - a \in 28..31
    BY <2>4, <2>5
  <2>7. DaysBefore[m] = 365 * y + a /\ DaysBefore[m + 1] = 365 * y + b
    BY <1>3, <2>2
  <2> HIDE DEF a, b
  <2> QED BY <2>6, <2>7 DEF LengthOf
<1>6. CASE r = 11
  <2>1. (m + 1) \div 12 = y + 1 /\ (m + 1) % 12 = 0 /\ m + 1 \in 0..36
    BY <1>1, <1>6
  <2>2. DaysBefore[m + 1] = 365 * (y + 1) + DaysOfYear[0 + 1]
    BY <2>1 DEF DaysBefore
  <2>3. DaysOfYear[0 + 1] = 0 /\ DaysOfYear[r + 1] = 334
    BY <1>6, YearDays
  <2> QED BY <1>3, <2>2, <2>3 DEF LengthOf
<1> QED BY <1>5, <1>6

(* The months are finitely many.                                           *)
LEMMA MonthsFinite == IsFiniteSet(0..36)
<1> DEFINE n == 36
<1>1. n \in Int /\ 0 \in Int
  OBVIOUS
<1> HIDE DEF n
<1>2. IsFiniteSet(0..n)
  BY <1>1, FS_Interval
<1> QED BY <1>2 DEF n

(* Months follow each other. *)
LEMMA MonthsFollow ==
  ASSUME NEW m \in 0..36, NEW n \in 0..36, m < n
  PROVE  DaysBefore[m] + 28 <= DaysBefore[n] /\ DaysBefore[m + 1] <= DaysBefore[n]
<1> DEFINE Bad == {k \in m + 1..n : ~ (DaysBefore[m + 1] <= DaysBefore[k])}
           f == [k \in 0..36 |-> 0 - k]
<1>1. m \in 0..35 /\ m + 1 \in 0..36
  OBVIOUS
<1>2. \A k \in m + 1..n : DaysBefore[m + 1] <= DaysBefore[k]
  <2> SUFFICES ASSUME Bad # {} PROVE FALSE
    OBVIOUS
  <2>1. f \in [0..36 -> Int] /\ Bad \in SUBSET (0..36)
    OBVIOUS
  <2>2. PICK k \in Bad : \A x \in Bad : f[x] <= f[k]
    <3>1. IsFiniteSet(0..36)
      BY MonthsFinite
    <3> HIDE DEF f, Bad
    <3> QED BY <2>1, <3>1, GreatestExists
  <2>3. k \in m + 1..n /\ k - 1 \notin Bad
    <3>1. k \in 0..36
      BY <2>2
    <3>2. f[k] = 0 - k /\ (k - 1 \in Bad => f[k - 1] = 0 - (k - 1))
      BY <3>1
    <3>3. ~ (0 - (k - 1) <= 0 - k)
      BY <3>1
    <3> QED BY <2>2, <3>2, <3>3
  <2>4. k # m + 1
    BY <1>1, <2>2, MonthLength
  <2>5. k - 1 \in m + 1..n /\ k - 1 \in 0..35
    BY <2>3, <2>4
  <2>6. DaysBefore[m + 1] <= DaysBefore[k - 1]
    BY <2>3, <2>5
  <2>7. DaysBefore[k - 1 + 1] = DaysBefore[k - 1] + LengthOf(k - 1) /\ LengthOf(k - 1) \in 28..31
        /\ DaysBefore[k - 1] \in Nat
    BY <2>5, MonthLength
  <2>8. DaysBefore[m + 1] \in Nat /\ k - 1 + 1 = k
    BY <1>1, <2>3, MonthLength
  <2> QED BY <2>2, <2>6, <2>7, <2>8
<1>3. DaysBefore[m + 1] = DaysBefore[m] + LengthOf(m) /\ LengthOf(m) \in 28..31 /\ DaysBefore[m] \in Nat
  BY <1>1, MonthLength
<1>4. DaysBefore[n] \in Nat
  <2>1. n - 1 \in 0..35 /\ n - 1 + 1 = n
    BY <1>1
  <2> QED BY <2>1, MonthLength
<1>5. DaysBefore[m + 1] <= DaysBefore[n]
  BY <1>2
<1> QED BY <1>3, <1>4, <1>5

(* The months known: a time is of exactly one. *)
LEMMA MonthOfADay ==
  ASSUME NEW d \in 0..DaysBefore[36] - 1
  PROVE  /\ MonthOfDay[d] \in 0..35
         /\ DaysBefore[MonthOfDay[d]] <= d /\ d < DaysBefore[MonthOfDay[d] + 1]
         /\ \A m \in 0..35 : DaysBefore[m] <= d /\ d < DaysBefore[m + 1] => MonthOfDay[d] = m
<1> DEFINE f == [k \in 0..36 |-> k]
           T == {k \in 0..36 : DaysBefore[k] <= d}
<1>0. /\ DaysBefore[36] \in Nat /\ DaysBefore[0] = 0
  <2>1. DaysBefore[35 + 1] \in Nat
    BY MonthLength
  <2>2. 0 \div 12 = 0 /\ 0 % 12 = 0 /\ DaysOfYear[1] = 0
    BY YearDays
  <2>3. DaysBefore[0] = 365 * (0 \div 12) + DaysOfYear[(0 % 12) + 1]
    BY DEF DaysBefore
  <2> QED BY <2>1, <2>2, <2>3
<1>00. d \in Int /\ 0 <= d /\ d < DaysBefore[36]
  BY <1>0
<1>1. T # {} /\ f \in [0..36 -> Int] /\ T \in SUBSET (0..36)
  BY <1>0, <1>00
<1>2. PICK m \in T : \A x \in T : f[x] <= f[m]
  <2>1. IsFiniteSet(0..36)
    BY MonthsFinite
  <2> HIDE DEF f, T
  <2> QED BY <1>1, <2>1, GreatestExists
<1>3. m \in 0..35 /\ DaysBefore[m] <= d
  BY <1>2, <1>00, <1>0
<1>4. d < DaysBefore[m + 1]
  <2>1. m + 1 \in 0..36 /\ ~ m + 1 <= m
    BY <1>3
  <2>2. m + 1 \notin T
    BY <1>2, <2>1
  <2>3. DaysBefore[m + 1] \in Nat
    BY <1>3, MonthLength
  <2> QED BY <1>00, <2>1, <2>2, <2>3
<1>5. ASSUME NEW a \in 0..35, NEW b \in 0..35, DaysBefore[a] <= d, d < DaysBefore[a + 1],
             DaysBefore[b] <= d, d < DaysBefore[b + 1], a < b
      PROVE FALSE
  <2>1. DaysBefore[a + 1] <= DaysBefore[b]
    BY <1>5, MonthsFollow
  <2>2. DaysBefore[a + 1] \in Nat /\ DaysBefore[b] \in Nat
    BY MonthLength
  <2> QED BY <1>5, <1>00, <2>1, <2>2
<1>6. MonthOfDay[d] = CHOOSE k \in 0..35 : DaysBefore[k] <= d /\ d < DaysBefore[k + 1]
  BY DEF MonthOfDay
<1>7. /\ MonthOfDay[d] \in 0..35
      /\ DaysBefore[MonthOfDay[d]] <= d /\ d < DaysBefore[MonthOfDay[d] + 1]
  BY <1>3, <1>4, <1>6
<1>8. \A a, b \in 0..35 : DaysBefore[a] <= d /\ d < DaysBefore[a + 1] /\
         DaysBefore[b] <= d /\ d < DaysBefore[b + 1] => a = b
  <2> SUFFICES ASSUME NEW a \in 0..35, NEW b \in 0..35, DaysBefore[a] <= d, d < DaysBefore[a + 1],
             DaysBefore[b] <= d, d < DaysBefore[b + 1], a # b
               PROVE FALSE
    OBVIOUS
  <2>1. a < b \/ b < a
    OBVIOUS
  <2> QED BY <1>5, <2>1
<1> QED BY <1>7, <1>8

(* Where the months are that the bounds on the clock name.                 *)
LEMMA CalendarEnds ==
  /\ DaysBefore[0] = 0 /\ DaysBefore[5] = 151 /\ DaysBefore[12] = 365
  /\ DaysBefore[13] = 396 /\ DaysBefore[14] = 424 /\ DaysBefore[36] = 1095
<1>1. /\ DaysOfYear[1] = 0 /\ DaysOfYear[2] = 31 /\ DaysOfYear[3] = 59 /\ DaysOfYear[6] = 151
  BY DEF DaysOfYear
<1>2. /\ DaysBefore[0] = 365 * (0 \div 12) + DaysOfYear[(0 % 12) + 1]
      /\ DaysBefore[5] = 365 * (5 \div 12) + DaysOfYear[(5 % 12) + 1]
      /\ DaysBefore[12] = 365 * (12 \div 12) + DaysOfYear[(12 % 12) + 1]
      /\ DaysBefore[13] = 365 * (13 \div 12) + DaysOfYear[(13 % 12) + 1]
      /\ DaysBefore[14] = 365 * (14 \div 12) + DaysOfYear[(14 % 12) + 1]
      /\ DaysBefore[36] = 365 * (36 \div 12) + DaysOfYear[(36 % 12) + 1]
  BY DEF DaysBefore
<1>3. /\ 0 \div 12 = 0 /\ 0 % 12 = 0 /\ 5 \div 12 = 0 /\ 5 % 12 = 5 /\ 12 \div 12 = 1 /\ 12 % 12 = 0
      /\ 13 \div 12 = 1 /\ 13 % 12 = 1 /\ 14 \div 12 = 1 /\ 14 % 12 = 2 /\ 36 \div 12 = 3 /\ 36 % 12 = 0
  OBVIOUS
<1> QED BY <1>1, <1>2, <1>3

-----------------------------------------------------------------------------
(* The rows, and what is told of a set of orders: groups that share out    *)
(* the orders share out their number and their gross sales.                *)

(* What is known of an order that was placed.                              *)
LEMMA OrderRow ==
  ASSUME ReportsTypeOK, NEW o \in Placed
  PROVE  /\ o \in Orders /\ order[o] \in Placing(now)
         /\ order[o].status \in ActiveStatuses \cup SettledStatuses
         /\ order[o].at \in 0..now /\ order[o].at \in Int
         /\ Facts[o].store \in Registered
<1>1. now \in Int
  BY ReportAssumption, CalendarEnds DEF ReportsTypeOK
<1>2. order[o] \in Placing(now)
  BY DEF ReportsTypeOK, Placed
<1>3. order[o].status \in ActiveStatuses \cup SettledStatuses /\ order[o].at \in 0..now
  BY <1>2 DEF Placing
<1> QED BY <1>1, <1>2, <1>3 DEF ReportsTypeOK, Placed

(* What is known of a store.                                               *)
LEMMA StoreRow ==
  ASSUME ReportsTypeOK, NEW s \in Registered
  PROVE  /\ s \in Stores /\ store[s] \in Opening(now) /\ Consistent(store[s])
         /\ store[s].status \in LifeStatuses /\ store[s].plan \in Plans \cup {"none"}
         /\ store[s].yearly \in BOOLEAN
         /\ store[s].at \in 0..now /\ store[s].at \in Int
         /\ store[s].since \in 0..now /\ store[s].since \in Int
         /\ store[s].end \in Nat \cup {NoEnd} /\ store[s].end \in Int
         /\ store[s].contract \in ContractStatuses \cup {"NONE"}
<1>1. now \in Int
  BY ReportAssumption, CalendarEnds DEF ReportsTypeOK
<1>2. store[s] \in Opening(now)
  BY DEF ReportsTypeOK, Registered
<1>3. /\ store[s].status \in LifeStatuses /\ store[s].plan \in Plans \cup {"none"}
      /\ store[s].yearly \in BOOLEAN
      /\ store[s].at \in 0..now /\ store[s].since \in 0..now
      /\ store[s].end \in Nat \cup {NoEnd}
      /\ store[s].contract \in ContractStatuses \cup {"NONE"}
  BY <1>2 DEF Opening
<1>4. s \in Stores /\ Consistent(store[s])
  BY DEF ReportsTypeOK, Registered
<1> QED BY <1>1, <1>2, <1>3, <1>4 DEF NoEnd

(* What an order keeps for good.                                           *)
LEMMA FactsOf ==
  ASSUME NEW o \in Orders
  PROVE  /\ Facts[o].store \in Stores /\ Facts[o].customer \in Customers \cup {Nobody}
         /\ Facts[o].shipping \in Nat /\ Facts[o].discount \in Nat
         /\ IsFiniteSet(Facts[o].lines)
         /\ \A l \in Facts[o].lines : l.price \in Nat /\ l.quantity \in Nat
<1>1. Facts[o] \in [store : Stores, customer : Customers \cup {Nobody}, method : STRING,
                    governorate : STRING, city : STRING, shipping : Nat, discount : Nat,
                    lines : SUBSET [product : STRING, category : STRING, quantity : Nat, price : Nat]]
  BY ReportAssumption
<1>2. Facts[o].lines \in SUBSET [product : STRING, category : STRING, quantity : Nat, price : Nat]
  BY <1>1
<1> QED BY <1>1, <1>2, ReportAssumption

(* Every set of orders or of stores is finite.                             *)
LEMMA RowsFinite ==
  /\ IsFiniteSet(Orders) /\ IsFiniteSet(Stores) /\ IsFiniteSet(Customers) /\ IsFiniteSet(Plans)
  /\ Placed \in SUBSET Orders /\ Registered \in SUBSET Stores
  /\ \A S \in SUBSET Orders : IsFiniteSet(S) /\ Cardinality(S) \in Nat
  /\ \A S \in SUBSET Stores : IsFiniteSet(S) /\ Cardinality(S) \in Nat
<1>1. IsFiniteSet(Orders) /\ IsFiniteSet(Stores) /\ IsFiniteSet(Customers) /\ IsFiniteSet(Plans)
  BY ReportAssumption
<1>2. Placed \in SUBSET Orders /\ Registered \in SUBSET Stores
  BY DEF Placed, Registered
<1>3. ASSUME NEW S \in SUBSET Orders PROVE IsFiniteSet(S) /\ Cardinality(S) \in Nat
  BY <1>1, FS_Subset, FS_CardinalityType
<1>4. ASSUME NEW S \in SUBSET Stores PROVE IsFiniteSet(S) /\ Cardinality(S) \in Nat
  BY <1>1, FS_Subset, FS_CardinalityType
<1> QED BY <1>1, <1>2, <1>3, <1>4

(* The clock, and what it stands for in the calendar. *)
LEMMA TimeNow ==
  ASSUME ReportsTypeOK
  PROVE  now \in 302..848 /\ now + Offset \in 302..849
<1>1. Start \in 302..789 /\ MaxTicks \in 0..59 /\ Offset \in 0..1
  BY ReportAssumption, CalendarEnds
<1>2. now \in Start..Start + MaxTicks
  BY DEF ReportsTypeOK
<1> QED BY <1>1, <1>2

(* The month of a time is the one its day is in.                           *)
LEMMA MonthOfTime ==
  ASSUME NEW t \in 0..849
  PROVE  /\ MonthOf(t) \in 0..14 /\ DayOf(t) \in 0..424
         /\ DaysBefore[MonthOf(t)] <= DayOf(t) /\ DayOf(t) < DaysBefore[MonthOf(t) + 1]
         /\ \A m \in 0..35 : DaysBefore[m] <= DayOf(t) /\ DayOf(t) < DaysBefore[m + 1] => MonthOf(t) = m
<1>1. DayOf(t) \in 0..424
  BY DEF DayOf
<1>2. DayOf(t) \in 0..DaysBefore[36] - 1
  BY <1>1, CalendarEnds
<1>3. /\ MonthOf(t) \in 0..35
      /\ DaysBefore[MonthOf(t)] <= DayOf(t) /\ DayOf(t) < DaysBefore[MonthOf(t) + 1]
      /\ \A m \in 0..35 : DaysBefore[m] <= DayOf(t) /\ DayOf(t) < DaysBefore[m + 1] => MonthOf(t) = m
  BY <1>2, MonthOfADay DEF MonthOf
<1>4. ASSUME MonthOf(t) > 14 PROVE FALSE
  <2>1. DaysBefore[14] + 28 <= DaysBefore[MonthOf(t)]
    BY <1>3, <1>4, MonthsFollow
  <2>2. DaysBefore[MonthOf(t)] \in Nat
    BY <1>3, MonthLength
  <2> QED BY <1>1, <1>3, <2>1, <2>2, CalendarEnds
<1> QED BY <1>1, <1>3, <1>4

(* After the start five months are in the calendar.                        *)
LEMMA LaterMonths == \A t \in 302..849 : MonthOf(t) \in 5..14
<1> TAKE t \in 302..849
<1>1. DayOf(t) \in 151..424
  BY DEF DayOf
<1>2. MonthOf(t) \in 0..14 /\ DayOf(t) < DaysBefore[MonthOf(t) + 1]
  <2>1. t \in 0..849
    OBVIOUS
  <2> QED BY <2>1, MonthOfTime
<1>3. CASE MonthOf(t) + 1 < 5
  <2>1. DaysBefore[MonthOf(t) + 1] + 28 <= DaysBefore[5]
    BY <1>2, <1>3, MonthsFollow
  <2>2. DaysBefore[MonthOf(t) + 1] \in Nat
    BY <1>2, MonthLength
  <2> QED BY <1>1, <1>2, <2>1, <2>2, CalendarEnds
<1>4. CASE MonthOf(t) + 1 = 5
  BY <1>1, <1>2, <1>4, CalendarEnds
<1> QED BY <1>1, <1>2, <1>3, <1>4

-----------------------------------------------------------------------------
(* The total of an order, as a column. *)
TotalOf == [o \in Orders |-> Total(o)]

(* A subtotal is no less than nothing.                                     *)
LEMMA SubtotalNat ==
  ASSUME NEW o \in Orders
  PROVE  Subtotal(o) \in Nat
<1> DEFINE L == Facts[o].lines
           f == [l \in L |-> l.price * l.quantity]
<1>1. IsFiniteSet(L) /\ \A l \in L : l.price \in Nat /\ l.quantity \in Nat
  BY FactsOf
<1>2. \A a, b \in Nat : a * b \in Nat
  OBVIOUS
<1>3. f \in [L -> Int] /\ \A l \in L : f[l] \in Nat
  BY <1>1, <1>2
<1>4. SumFunction(f) = SumOver(f, L)
  BY SumWhole
<1> HIDE DEF f, L
<1>5. SumOver(f, L) \in Nat
  BY <1>1, <1>3, SumNat
<1> QED BY <1>4, <1>5 DEF f, L, Subtotal

(* A total is an integer: a discount may exceed it.                        *)
LEMMA TotalOfType == TotalOf \in [Orders -> Int]
<1>1. ASSUME NEW o \in Orders PROVE Total(o) \in Int
  BY SubtotalNat, FactsOf DEF Total
<1> QED BY <1>1 DEF TotalOf

(* Gross sales are the totals of what was delivered.                       *)
LEMMA GrossIs ==
  ASSUME NEW S \in SUBSET Orders
  PROVE  Gross(S) = SumOver(TotalOf, Realized(S)) /\ Gross(S) \in Int /\ Realized(S) \in SUBSET S
<1>1. Realized(S) \in SUBSET S /\ Realized(S) \in SUBSET Orders
  BY DEF Realized, Having
<1>2. [o \in Realized(S) |-> Total(o)] = [o \in Realized(S) |-> TotalOf[o]]
  BY <1>1 DEF TotalOf
<1>3. SumOver(TotalOf, Realized(S)) \in Int
  BY <1>1, RowsFinite, TotalOfType, SumInt
<1> QED BY <1>1, <1>2, <1>3 DEF Gross, SumOver

(* No orders, no sales.                                                    *)
LEMMA GrossOfNone == Gross({}) = 0
<1>1. Realized({}) = {}
  BY DEF Realized, Having
<1> QED BY <1>1, GrossIs, SumNone

(* The sales of two sets that share no order.                              *)
LEMMA GrossUnion ==
  ASSUME NEW S \in SUBSET Orders, NEW T \in SUBSET Orders, S \cap T = {}
  PROVE  Gross(S \cup T) = Gross(S) + Gross(T)
<1>1. Realized(S \cup T) = Realized(S) \cup Realized(T) /\ Realized(T) \cap Realized(S) = {}
  BY DEF Realized, Having
<1>2. Realized(S) \in SUBSET Orders /\ Realized(T) \in SUBSET Orders
  BY DEF Realized, Having
<1>3. SumOver(TotalOf, Realized(S) \cup Realized(T)) =
        SumOver(TotalOf, Realized(S)) + SumOver(TotalOf, Realized(T))
  <2>1. IsFiniteSet(Orders)
    BY RowsFinite
  <2> QED BY <1>1, <1>2, <2>1, TotalOfType, SumUnion
<1> QED BY <1>1, <1>3, GrossIs

(* The sales of the parts are those of the whole.                          *)
LEMMA PartGross ==
  ASSUME NEW K, IsFiniteSet(K),
         NEW part \in [K -> SUBSET Orders], \A k, l \in K : k # l => part[k] \cap part[l] = {},
         NEW W, W = UNION {part[k] : k \in K},
         NEW G, G = [k \in K |-> Gross(part[k])]
  PROVE  SumFunction(G) = Gross(W)
<1> DEFINE R == [k \in K |-> Realized(part[k])]
<1>1. R \in [K -> SUBSET Orders] /\ (\A k, l \in K : k # l => R[k] \cap R[l] = {})
      /\ Realized(W) = UNION {R[k] : k \in K}
  BY DEF Realized, Having
<1>2. G = [k \in K |-> SumOver(TotalOf, R[k])]
  <2>1. \A k \in K : part[k] \in SUBSET Orders
    OBVIOUS
  <2>2. \A k \in K : Gross(part[k]) = SumOver(TotalOf, R[k])
    BY <2>1, GrossIs
  <2> QED BY <2>2
<1>3. W \in SUBSET Orders /\ IsFiniteSet(Orders)
  BY RowsFinite
<1> HIDE DEF R
<1>4. SumFunction(G) = SumOver(TotalOf, Realized(W))
  BY <1>1, <1>2, <1>3, TotalOfType, PartSums
<1> QED BY <1>3, <1>4, GrossIs

(* Groups of orders, in a report. *)
LEMMA PartSales ==
  ASSUME NEW K, IsFiniteSet(K),
         NEW part \in [K -> SUBSET Orders], \A k, l \in K : k # l => part[k] \cap part[l] = {},
         NEW W, W = UNION {part[k] : k \in K},
         NEW G, DOMAIN G = K,
         \A k \in K : G[k].orders = Cardinality(part[k]) /\ G[k].gross = Gross(part[k])
  PROVE  OrdersIn(G) = Cardinality(W) /\ GrossIn(G) = Gross(W)
<1>1. [k \in K |-> G[k].orders] = [k \in K |-> Cardinality(part[k])]
  OBVIOUS
<1>2. [k \in K |-> G[k].gross] = [k \in K |-> Gross(part[k])]
  OBVIOUS
<1>3. OrdersIn(G) = SumFunction([k \in K |-> Cardinality(part[k])])
  BY <1>1 DEF OrdersIn, Adding
<1>4. GrossIn(G) = SumFunction([k \in K |-> Gross(part[k])])
  BY <1>2 DEF GrossIn, Adding
<1>5. SumFunction([k \in K |-> Cardinality(part[k])]) = Cardinality(W)
  <2>1. IsFiniteSet(Orders)
    BY RowsFinite
  <2> QED BY <2>1, PartCounts
<1>6. SumFunction([k \in K |-> Gross(part[k])]) = Gross(W)
  BY PartGross
<1> QED BY <1>3, <1>4, <1>5, <1>6

(* A column of finitely many rows has finitely many values.                *)
LEMMA KeysFinite ==
  ASSUME NEW S, IsFiniteSet(S), NEW key
  PROVE  IsFiniteSet({key[x] : x \in S})
<1> DEFINE h == [x \in S |-> key[x]]
<1>1. h \in Surjection(S, {key[x] : x \in S})
  BY DEF Surjection
<1> QED BY <1>1, FS_Surjection

(* The number of rows of two sets that share none.                         *)
LEMMA CardUnion ==
  ASSUME NEW S, IsFiniteSet(S), NEW A \in SUBSET S, NEW B \in SUBSET S, A \cap B = {}
  PROVE  Cardinality(A \cup B) = Cardinality(A) + Cardinality(B)
<1>1. IsFiniteSet(A) /\ IsFiniteSet(B)
  BY FS_Subset
<1>2. Cardinality(A \cup B) = Cardinality(A) + Cardinality(B) - Cardinality(A \cap B)
  BY <1>1, FS_Union
<1>3. Cardinality(A) \in Nat /\ Cardinality(B) \in Nat
  BY <1>1, FS_CardinalityType
<1>4. Cardinality(A \cap B) = 0
  BY FS_EmptySet
<1> QED BY <1>2, <1>3, <1>4

-----------------------------------------------------------------------------
(* The merchant's report.                                                  *)

(* A window of n days that ends today: its orders are those of its days.   *)
LEMMA WindowDays ==
  ASSUME now \in Nat, NEW n \in Nat \ {0}, NEW from, from = 2 * DayOf(now) - 2 * (n - 1),
         NEW K, \A d : d \in K <=> \E i \in 0..n - 1 : d = DayOf(from + 2 * i)
  PROVE  IsFiniteSet(K) /\ \A t \in 0..now : t >= from <=> DayOf(t) \in K
<1> DEFINE f == [i \in 0..n - 1 |-> DayOf(from + 2 * i)]
<1>1. IsFiniteSet(0..n - 1)
  BY FS_Interval
<1>2. f \in Surjection(0..n - 1, K)
  BY DEF Surjection
<1>3. IsFiniteSet(K)
  <2> HIDE DEF f
  <2> QED BY <1>1, <1>2, FS_Surjection
<1>4. ASSUME NEW t \in 0..now PROVE t >= from <=> DayOf(t) \in K
  <2>1. DayOf(t) \in Nat /\ DayOf(t) <= DayOf(now) /\ 2 * DayOf(t) <= t /\ t <= 2 * DayOf(t) + 1
        /\ DayOf(now) \in Nat
    BY DEF DayOf
  <2>2. \A i \in 0..n - 1 : DayOf(from + 2 * i) = DayOf(now) - (n - 1) + i
    BY <2>1 DEF DayOf
  <2>3. ASSUME t >= from PROVE DayOf(t) \in K
    <3>1. DayOf(t) - (DayOf(now) - (n - 1)) \in 0..n - 1
      BY <2>1, <2>3
    <3>2. DayOf(t) = DayOf(now) - (n - 1) + (DayOf(t) - (DayOf(now) - (n - 1)))
      BY <2>1
    <3> QED BY <2>2, <3>1, <3>2
  <2>4. ASSUME DayOf(t) \in K PROVE t >= from
    <3>1. PICK i \in 0..n - 1 : DayOf(t) = DayOf(now) - (n - 1) + i
      BY <2>2, <2>4
    <3> QED BY <2>1, <3>1
  <2> QED BY <2>3, <2>4
<1> QED BY <1>3, <1>4

(* The orders of a merchant's range.                                       *)
LEMMA InRangeIs ==
  /\ \A s : InRange(s) = {o \in Placed : Facts[o].store = s /\ order[o].at >= RangeStart}
  /\ \A s : InRange(s) \in SUBSET Placed /\ InRange(s) \in SUBSET Orders /\ IsFiniteSet(InRange(s))
<1>1. \A s : InRange(s) = {o \in Placed : Facts[o].store = s /\ order[o].at >= RangeStart}
  BY DEF InRange, Since, OrdersOfStore
<1>2. \A s : InRange(s) \in SUBSET Placed /\ InRange(s) \in SUBSET Orders
  BY <1>1, RowsFinite
<1>3. \A s : IsFiniteSet(InRange(s))
  BY <1>2, RowsFinite
<1> QED BY <1>1, <1>2, <1>3

(* Each order of the range is on one of its days.                          *)
LEMMA TrendWhole ==
  ASSUME ReportsTypeOK, Offset = 0, NEW s \in Registered
  PROVE  /\ OrdersIn(SalesTrend(s)) = Cardinality(InRange(s))
         /\ GrossIn(SalesTrend(s)) = Gross(InRange(s))
<1> DEFINE K == {DayOf(RangeStart + 2 * i) : i \in 0..RangeDays - 1}
           part == [k \in K |-> {o \in InRange(s) : DayOf(order[o].at) = k}]
<1>1. RangeStart = 2 * DayOf(now) - 2 * (RangeDays - 1) /\ now \in Nat
  <2>1. now \in Nat /\ now + Offset = now
    BY TimeNow
  <2>2. DayOf(now) \in Int
    BY <2>1 DEF DayOf
  <2>3. StartOfDay(now) = 2 * DayOf(now)
    BY <2>1, <2>2 DEF StartOfDay
  <2> QED BY <2>1, <2>2, <2>3 DEF RangeStart
<1>2. IsFiniteSet(K) /\ \A t \in 0..now : t >= RangeStart <=> DayOf(t) \in K
  <2>1. \A d : d \in K <=> \E i \in 0..RangeDays - 1 : d = DayOf(RangeStart + 2 * i)
    OBVIOUS
  <2> HIDE DEF K, part
  <2>2. PICK from, n, L : from = RangeStart /\ n = RangeDays /\ L = K
    OBVIOUS
  <2>3. now \in Nat /\ n \in Nat \ {0} /\ from = 2 * DayOf(now) - 2 * (n - 1)
    BY <1>1, <2>2, MerchantAssumption
  <2>4. \A d : d \in L <=> \E i \in 0..n - 1 : d = DayOf(from + 2 * i)
    BY <2>1, <2>2
  <2>5. IsFiniteSet(L) /\ \A t \in 0..now : t >= from <=> DayOf(t) \in L
    BY <2>3, <2>4, WindowDays
  <2> QED BY <2>2, <2>5
<1>3. DOMAIN SalesTrend(s) = K
  BY DEF SalesTrend
<1>4. \A k \in K : /\ SalesTrend(s)[k].orders = Cardinality(part[k])
                   /\ SalesTrend(s)[k].gross = Gross(part[k])
  BY DEF SalesTrend, Sales
<1>5. \A o \in InRange(s) : order[o].at \in 0..now /\ order[o].at >= RangeStart
  BY InRangeIs, OrderRow
<1>6. part \in [K -> SUBSET Orders] /\ InRange(s) = UNION {part[k] : k \in K}
      /\ \A k, l \in K : k # l => part[k] \cap part[l] = {}
  <2>1. \A o \in InRange(s) : DayOf(order[o].at) \in K
    BY <1>2, <1>5
  <2>2. InRange(s) \in SUBSET Orders
    BY InRangeIs
  <2> HIDE DEF K
  <2>3. part \in [K -> SUBSET Orders]
    BY <2>2
  <2>4. InRange(s) = UNION {part[k] : k \in K}
    BY <2>1
  <2> QED BY <2>3, <2>4
<1> HIDE DEF K, part
<1> QED BY <1>2, <1>3, <1>4, <1>6, PartSales

(* Groups by a key of all the rows. *)
LEMMA SalesByWhole ==
  ASSUME NEW S \in SUBSET Orders, NEW key,
         NEW f, DOMAIN f = {key[o] : o \in S},
         \A k \in DOMAIN f : f[k] = Sales({o \in S : key[o] = k})
  PROVE  OrdersIn(f) = Cardinality(S) /\ GrossIn(f) = Gross(S)
<1> DEFINE K == {key[o] : o \in S}
           part == [k \in K |-> {o \in S : key[o] = k}]
<1>1. IsFiniteSet(K)
  BY RowsFinite, KeysFinite
<1>2. DOMAIN f = K /\ \A k \in K : f[k].orders = Cardinality(part[k]) /\ f[k].gross = Gross(part[k])
  <2>1. DOMAIN f = K
    OBVIOUS
  <2>2. ASSUME NEW k \in K
        PROVE  f[k].orders = Cardinality(part[k]) /\ f[k].gross = Gross(part[k])
    <3>1. f[k] = Sales({o \in S : key[o] = k}) /\ part[k] = {o \in S : key[o] = k}
      BY <2>1
    <3> HIDE DEF part
    <3>2. f[k] = Sales(part[k])
      BY <3>1
    <3> QED BY <3>2 DEF Sales
  <2> HIDE DEF K
  <2> QED BY <2>1, <2>2
<1>3. \A o \in S : key[o] \in K
  OBVIOUS
<1> HIDE DEF K
<1>4. part \in [K -> SUBSET Orders] /\ \A k, l \in K : k # l => part[k] \cap part[l] = {}
  OBVIOUS
<1>5. S = UNION {part[k] : k \in K}
  BY <1>3
<1> HIDE DEF part
<1> QED BY <1>1, <1>2, <1>4, <1>5, PartSales

(* Governorates and payment methods share out the range.                   *)
LEMMA ByPlaceWhole ==
  ASSUME NEW s
  PROVE  /\ OrdersIn(SalesByGovernorate(s)) = Cardinality(InRange(s))
         /\ GrossIn(SalesByGovernorate(s)) = Gross(InRange(s))
         /\ OrdersIn(PaymentMethods(s)) = Cardinality(InRange(s))
         /\ GrossIn(PaymentMethods(s)) = Gross(InRange(s))
<1>1. InRange(s) \in SUBSET Orders
  BY InRangeIs
<1> DEFINE key == [o \in InRange(s) |-> Facts[o].governorate]
           way == [o \in InRange(s) |-> Facts[o].method]
<1>2. /\ DOMAIN SalesByGovernorate(s) = {key[o] : o \in InRange(s)}
      /\ \A k \in DOMAIN SalesByGovernorate(s) : SalesByGovernorate(s)[k] = Sales({o \in InRange(s) : key[o] = k})
  <2>1. {key[o] : o \in InRange(s)} = {Facts[o].governorate : o \in InRange(s)}
    OBVIOUS
  <2>2. \A k : {o \in InRange(s) : key[o] = k} = {o \in InRange(s) : Facts[o].governorate = k}
    OBVIOUS
  <2> QED BY <2>1, <2>2 DEF SalesByGovernorate, SalesBy, GroupBy
<1>3. /\ DOMAIN PaymentMethods(s) = {way[o] : o \in InRange(s)}
      /\ \A k \in DOMAIN PaymentMethods(s) : PaymentMethods(s)[k] = Sales({o \in InRange(s) : way[o] = k})
  <2>1. {way[o] : o \in InRange(s)} = {Facts[o].method : o \in InRange(s)}
    OBVIOUS
  <2>2. \A k : {o \in InRange(s) : way[o] = k} = {o \in InRange(s) : Facts[o].method = k}
    OBVIOUS
  <2> QED BY <2>1, <2>2 DEF PaymentMethods, SalesBy, GroupBy
<1> HIDE DEF key, way
<1> QED BY <1>1, <1>2, <1>3, SalesByWhole

(* Every order of a range is delivered, pending or cancelled. *)
LEMMA ByStatusWhole ==
  ASSUME ReportsTypeOK, NEW s
  PROVE  SalesSummary(s).delivered + SalesSummary(s).pending + SalesSummary(s).cancelled
           = SalesSummary(s).orders
<1> DEFINE S == InRange(s)
           D == Realized(S)
           P == {o \in S : StatusOf(o) \in ActiveStatuses}
           C == Having(S, "CANCELLED")
<1>1. IsFiniteSet(S) /\ \A o \in S : StatusOf(o) \in ActiveStatuses \cup SettledStatuses
  BY InRangeIs, OrderRow DEF StatusOf
<1>2. D \in SUBSET S /\ P \in SUBSET S /\ C \in SUBSET S /\ D \cup P \in SUBSET S
      /\ D \cap P = {} /\ (D \cup P) \cap C = {} /\ (D \cup P) \cup C = S
  BY <1>1 DEF Realized, Having, StatusOf, ActiveStatuses, SettledStatuses
<1> HIDE DEF S, D, P, C
<1>3. Cardinality(D \cup P) = Cardinality(D) + Cardinality(P)
  BY <1>1, <1>2, CardUnion
<1>4. Cardinality((D \cup P) \cup C) = Cardinality(D \cup P) + Cardinality(C)
  BY <1>1, <1>2, CardUnion
<1> QED BY <1>2, <1>3, <1>4 DEF SalesSummary, S, D, P, C

(* The lines sold of an order, and what a line costs. *)
LinesOf(o) == {[order |-> o, line |-> l] : l \in Facts[o].lines}
Costs(S)   == [x \in S |-> x.line.price * x.line.quantity]

(* The lines sold are those of the delivered orders.                       *)
LEMMA SoldLinesAre ==
  ASSUME NEW s
  PROVE  LET D == Realized(InRange(s))
         IN  /\ D \in SUBSET Orders /\ IsFiniteSet(D)
             /\ SoldLines(s) = UNION {LinesOf(o) : o \in D}
             /\ IsFiniteSet(SoldLines(s))
             /\ Costs(SoldLines(s)) \in [SoldLines(s) -> Int]
<1> DEFINE D == Realized(InRange(s))
<1>1. D \in SUBSET Orders /\ IsFiniteSet(D)
  <2>1. InRange(s) \in SUBSET Orders
    BY InRangeIs
  <2> QED BY <2>1, GrossIs, RowsFinite
<1>2. SoldLines(s) = UNION {LinesOf(o) : o \in D}
  BY DEF SoldLines, LinesOf
<1>3. ASSUME NEW o \in Orders PROVE IsFiniteSet(LinesOf(o))
  <2> DEFINE b == [l \in Facts[o].lines |-> [order |-> o, line |-> l]]
  <2>1. IsFiniteSet(Facts[o].lines)
    BY FactsOf
  <2>2. b \in Surjection(Facts[o].lines, LinesOf(o))
    BY DEF Surjection, LinesOf
  <2> HIDE DEF b
  <2> QED BY <2>1, <2>2, FS_Surjection
<1>4. IsFiniteSet(SoldLines(s))
  <2> DEFINE R == {LinesOf(o) : o \in D}
             h == [o \in D |-> LinesOf(o)]
  <2>1. h \in Surjection(D, R)
    BY DEF Surjection
  <2>2. \A T \in R : IsFiniteSet(T)
    BY <1>1, <1>3
  <2>3. SoldLines(s) = UNION R
    BY <1>2
  <2> HIDE DEF R, h
  <2> QED BY <1>1, <2>1, <2>2, <2>3, FS_Surjection, FS_UNION
<1>5. ASSUME NEW x \in SoldLines(s) PROVE x.line.price * x.line.quantity \in Int
  <2>1. PICK o \in D : \E l \in Facts[o].lines : x = [order |-> o, line |-> l]
    BY <1>2 DEF LinesOf
  <2>2. x.line \in Facts[o].lines /\ o \in Orders
    BY <1>1, <2>1
  <2>3. x.line.price \in Nat /\ x.line.quantity \in Nat
    BY <2>2, FactsOf
  <2>4. \A a, b \in Nat : a * b \in Int
    OBVIOUS
  <2> QED BY <2>3, <2>4
<1>6. Costs(SoldLines(s)) \in [SoldLines(s) -> Int]
  BY <1>5 DEF Costs
<1> QED BY <1>1, <1>2, <1>4, <1>6

(* The lines of an order cost its subtotal.                                *)
LEMMA LinesOfCost ==
  ASSUME NEW o \in Orders, NEW c, NEW S, LinesOf(o) \subseteq S, c = Costs(S)
  PROVE  SumOver(c, LinesOf(o)) = Subtotal(o)
<1> DEFINE L == Facts[o].lines
           T == LinesOf(o)
           b == [l \in L |-> [order |-> o, line |-> l]]
           f == [x \in T |-> c[x]]
           e == [l \in L |-> l.price * l.quantity]
<1>1. IsFiniteSet(L) /\ \A l \in L : l.price \in Nat /\ l.quantity \in Nat
  BY FactsOf
<1>2. b \in Bijection(L, T)
  BY DEF Bijection, Injection, Surjection, IsInjective, LinesOf
<1>3. IsFiniteSet(T)
  <2> HIDE DEF b, L, T
  <2> QED BY <1>1, <1>2, FS_Surjection DEF Bijection
<1>4. \A l \in L : b[l] \in T /\ f[b[l]] = e[l] /\ e[l] \in Int
  <2>1. \A x, y \in Nat : x * y \in Int
    OBVIOUS
  <2>2. \A l \in L : b[l] \in T /\ b[l].line = l
    BY DEF LinesOf
  <2>3. \A x \in T : f[x] = x.line.price * x.line.quantity
    BY DEF Costs
  <2> HIDE DEF b, L, T, f
  <2> QED BY <1>1, <2>1, <2>2, <2>3
<1>5. f \in [T -> Int]
  <2>1. \A x \in T : \E l \in L : x = b[l]
    BY DEF LinesOf
  <2>2. ASSUME NEW x \in T PROVE f[x] \in Int
    <3>1. PICK l \in L : x = b[l]
      BY <2>1
    <3>2. f[b[l]] = e[l] /\ e[l] \in Int
      BY <1>4
    <3> HIDE DEF f, e, b, L, T
    <3> QED BY <3>1, <3>2
  <2>3. f = [x \in T |-> f[x]]
    OBVIOUS
  <2> HIDE DEF f
  <2> QED BY <2>2, <2>3
<1>6. SumOver(c, T) = SumFunction(f)
  BY DEF SumOver
<1>7. SumFunction(f) = SumOver(f, T)
  <2>1. f = [x \in T |-> f[x]]
    OBVIOUS
  <2> QED BY <2>1, SumWhole
<1>8. e = [l \in L |-> f[b[l]]]
  BY <1>4
<1>9. SumFunction(e) = SumOver(e, L)
  <2>1. e = [l \in L |-> e[l]]
    OBVIOUS
  <2> QED BY <2>1, SumWhole
<1>10. SumOver([l \in L |-> f[b[l]]], L) = SumOver(f, T)
  <2> HIDE DEF f, b, T, L
  <2> QED BY <1>1, <1>2, <1>3, <1>5, SumAlong
<1>11. Subtotal(o) = SumFunction(e)
  BY DEF Subtotal
<1> HIDE DEF e, f, b, L
<1> QED BY <1>6, <1>7, <1>8, <1>9, <1>10, <1>11

ShippingOf == [o \in Orders |-> Facts[o].shipping]
DiscountOf == [o \in Orders |-> Facts[o].discount]
SubtotalOf == [o \in Orders |-> Subtotal(o)]

(* The columns that the totals are made of.                                *)
LEMMA ColumnTypes ==
  ShippingOf \in [Orders -> Int] /\ DiscountOf \in [Orders -> Int] /\ SubtotalOf \in [Orders -> Int]
BY FactsOf, SubtotalNat DEF ShippingOf, DiscountOf, SubtotalOf

(* Shipping is the sum of its column.                                      *)
LEMMA ShippingIs ==
  ASSUME NEW S \in SUBSET Orders
  PROVE  Shipping(S) = SumOver(ShippingOf, S) /\ Shipping(S) \in Int
<1>1. [o \in S |-> Facts[o].shipping] = [o \in S |-> ShippingOf[o]]
  BY DEF ShippingOf
<1>2. IsFiniteSet(Orders)
  BY RowsFinite
<1> QED BY <1>1, <1>2, ColumnTypes, SumInt DEF Shipping, SumOver

(* What the orders of a range sold, line by line. *)
LEMMA SoldWhole ==
  ASSUME NEW s
  PROVE  LET D == Realized(InRange(s))
         IN  SumOver(Costs(SoldLines(s)), SoldLines(s)) =
               Gross(InRange(s)) - Shipping(D) + SumFunction([o \in D |-> Facts[o].discount])
<1> DEFINE D == Realized(InRange(s))
           S == SoldLines(s)
           c == Costs(S)
           part == [o \in D |-> LinesOf(o)]
           G == [o \in D |-> SumOver(c, part[o])]
<1>1. /\ D \in SUBSET Orders /\ IsFiniteSet(D) /\ S = UNION {LinesOf(o) : o \in D}
      /\ IsFiniteSet(S) /\ c \in [S -> Int]
  BY SoldLinesAre
<1>2. part \in [D -> SUBSET S] /\ S = UNION {part[o] : o \in D}
  BY <1>1
<1>3. \A k, l \in D : k # l => part[k] \cap part[l] = {}
  BY DEF LinesOf
<1>4. SumFunction(G) = SumOver(c, S)
  <2> HIDE DEF D, S, c, part
  <2> QED BY <1>1, <1>2, <1>3, PartSums
<1>5. ASSUME NEW o \in D PROVE G[o] = SubtotalOf[o]
  <2>1. o \in Orders /\ LinesOf(o) \subseteq S
    BY <1>1
  <2>2. SumOver(c, LinesOf(o)) = Subtotal(o)
    BY <2>1, LinesOfCost
  <2> QED BY <2>1, <2>2 DEF SubtotalOf
<1>6. SumFunction(G) = SumOver(SubtotalOf, D)
  <2>1. G = [o \in D |-> SubtotalOf[o]]
    BY <1>5
  <2> QED BY <2>1 DEF SumOver
<1> DEFINE h == [o \in Orders |-> Subtotal(o) + Facts[o].shipping]
<1>7. h \in [Orders -> Int] /\ IsFiniteSet(Orders)
  BY SubtotalNat, FactsOf, RowsFinite
<1>8. \A o \in D : h[o] = SubtotalOf[o] + ShippingOf[o] /\ h[o] = TotalOf[o] + DiscountOf[o]
  <2> TAKE o \in D
  <2>1. o \in Orders
    BY <1>1
  <2>2. Subtotal(o) \in Nat /\ Facts[o].shipping \in Nat /\ Facts[o].discount \in Nat
    BY <2>1, SubtotalNat, FactsOf
  <2> QED BY <2>1, <2>2 DEF SubtotalOf, ShippingOf, TotalOf, DiscountOf, Total
<1>9. SumOver(h, D) = SumOver(SubtotalOf, D) + SumOver(ShippingOf, D)
  <2> HIDE DEF h, D
  <2> QED BY <1>1, <1>7, <1>8, ColumnTypes, SumPlus
<1>10. SumOver(h, D) = SumOver(TotalOf, D) + SumOver(DiscountOf, D)
  <2> HIDE DEF h, D
  <2> QED BY <1>1, <1>7, <1>8, ColumnTypes, TotalOfType, SumPlus
<1>11. SumFunction([o \in D |-> Facts[o].discount]) = SumOver(DiscountOf, D)
  <2>1. [o \in D |-> Facts[o].discount] = [o \in D |-> DiscountOf[o]]
    BY <1>1 DEF DiscountOf
  <2> QED BY <2>1 DEF SumOver
<1>12. Shipping(D) = SumOver(ShippingOf, D)
  BY <1>1, ShippingIs
<1>13. Gross(InRange(s)) = SumOver(TotalOf, D)
  BY InRangeIs, GrossIs
<1>14. SumOver(SubtotalOf, D) \in Int /\ SumOver(TotalOf, D) \in Int
       /\ SumOver(DiscountOf, D) \in Int /\ SumOver(ShippingOf, D) \in Int
  <2> HIDE DEF D
  <2> QED BY <1>1, <1>7, ColumnTypes, TotalOfType, SumInt
<1> HIDE DEF D, S, c, h, G
<1>15. SumOver(c, S) = Gross(InRange(s)) - Shipping(D) + SumFunction([o \in D |-> Facts[o].discount])
  BY <1>4, <1>6, <1>9, <1>10, <1>11, <1>12, <1>13, <1>14
<1> QED BY <1>15 DEF D, S, c

(* Groups of lines share out what they cost.                               *)
LEMMA SoldByWhole ==
  ASSUME NEW s, NEW key, NEW f,
         DOMAIN f = {key[x] : x \in SoldLines(s)},
         \A k \in DOMAIN f : f[k] = LineSales({x \in SoldLines(s) : key[x] = k})
  PROVE  GrossIn(f) = SumOver(Costs(SoldLines(s)), SoldLines(s))
<1> DEFINE S == SoldLines(s)
           c == Costs(S)
           K == {key[x] : x \in S}
           part == [k \in K |-> {x \in S : key[x] = k}]
<1>1. IsFiniteSet(S) /\ c \in [S -> Int]
  BY SoldLinesAre
<1>2. IsFiniteSet(K)
  BY <1>1, KeysFinite
<1>3. DOMAIN f = K /\ \A x \in S : key[x] \in K
  OBVIOUS
<1>4. ASSUME NEW k \in K PROVE f[k].gross = SumOver(c, part[k])
  <2>1. f[k] = LineSales(part[k]) /\ part[k] \in SUBSET S
    BY <1>3
  <2>2. [x \in part[k] |-> x.line.price * x.line.quantity] = [x \in part[k] |-> c[x]]
    BY <2>1 DEF Costs
  <2> HIDE DEF part, c, S
  <2> QED BY <2>1, <2>2 DEF LineSales, SumOver
<1> HIDE DEF K
<1>5. part \in [K -> SUBSET S] /\ \A k, l \in K : k # l => part[k] \cap part[l] = {}
  OBVIOUS
<1>6. S = UNION {part[k] : k \in K}
  BY <1>3
<1> HIDE DEF part, c, S
<1>7. SumFunction([k \in K |-> SumOver(c, part[k])]) = SumOver(c, S)
  BY <1>1, <1>2, <1>5, <1>6, PartSums
<1>8. [k \in DOMAIN f |-> f[k].gross] = [k \in K |-> SumOver(c, part[k])]
  BY <1>3, <1>4
<1>9. GrossIn(f) = SumFunction([k \in DOMAIN f |-> f[k].gross])
  BY DEF GrossIn, Adding
<1> QED BY <1>7, <1>8, <1>9 DEF S, c

(* Products and categories share out the lines.                            *)
LEMMA SoldProductsWhole ==
  ASSUME NEW s
  PROVE  /\ GrossIn(SoldProducts(s)) = SumOver(Costs(SoldLines(s)), SoldLines(s))
         /\ GrossIn(SalesByCategory(s)) = SumOver(Costs(SoldLines(s)), SoldLines(s))
<1> DEFINE S == SoldLines(s)
           key == [x \in S |-> x.line.product]
           cat == [x \in S |-> x.line.category]
<1>1. /\ DOMAIN SoldProducts(s) = {key[x] : x \in S}
      /\ \A k \in DOMAIN SoldProducts(s) : SoldProducts(s)[k] = LineSales({x \in S : key[x] = k})
  <2>1. {key[x] : x \in S} = {x.line.product : x \in S}
    OBVIOUS
  <2>2. \A k : {x \in S : key[x] = k} = {x \in S : x.line.product = k}
    OBVIOUS
  <2> HIDE DEF S
  <2> QED BY <2>1, <2>2 DEF SoldProducts, SoldBy, GroupBy, S
<1>2. /\ DOMAIN SalesByCategory(s) = {cat[x] : x \in S}
      /\ \A k \in DOMAIN SalesByCategory(s) : SalesByCategory(s)[k] = LineSales({x \in S : cat[x] = k})
  <2>1. {cat[x] : x \in S} = {x.line.category : x \in S}
    OBVIOUS
  <2>2. \A k : {x \in S : cat[x] = k} = {x \in S : x.line.category = k}
    OBVIOUS
  <2> HIDE DEF S
  <2> QED BY <2>1, <2>2 DEF SalesByCategory, SoldBy, GroupBy, S
<1> HIDE DEF key, cat
<1> QED BY <1>1, <1>2, SoldByWhole

(* The delivery fees of the cities, and those of orders without one.       *)
LEMMA CityWhole ==
  ASSUME NEW s
  PROVE  Adding(SalesByCity(s), LAMBDA v : v.delivery) =
           DeliveryStats(s).revenue - Shipping(Kept({o \in InRange(s) : Facts[o].city = "none"}))
<1> DEFINE R == InRange(s)
           S == {o \in R : Facts[o].city # "none"}
           N == {o \in R : Facts[o].city = "none"}
           K == {Facts[o].city : o \in S}
           part == [k \in K |-> Kept({o \in S : Facts[o].city = k})]
           f == SalesByCity(s)
<1>1. R \in SUBSET Orders /\ S \in SUBSET Orders /\ N \in SUBSET Orders /\ IsFiniteSet(Orders)
  BY InRangeIs, RowsFinite
<1>2. /\ Kept(S) \in SUBSET Orders /\ Kept(N) \in SUBSET Orders /\ Kept(R) \in SUBSET Orders
      /\ Kept(N) \cap Kept(S) = {} /\ Kept(S) \cup Kept(N) = Kept(R)
  BY <1>1 DEF Kept, Having
<1>3. IsFiniteSet(K)
  <2> DEFINE key == [o \in S |-> Facts[o].city]
  <2>1. K = {key[o] : o \in S} /\ IsFiniteSet(S)
    BY <1>1, RowsFinite
  <2> HIDE DEF key, K, S
  <2> QED BY <2>1, KeysFinite
<1>4. DOMAIN f = K /\ \A k \in K : f[k].delivery = Shipping(part[k])
  BY DEF SalesByCity, GroupBy
<1>5. \A k \in K : part[k] = {o \in Kept(S) : Facts[o].city = k}
  BY DEF Kept, Having
<1>6. \A o \in Kept(S) : Facts[o].city \in K
  BY DEF Kept
<1>7. part \in [K -> SUBSET Orders] /\ (\A k, l \in K : k # l => part[k] \cap part[l] = {})
      /\ Kept(S) = UNION {part[k] : k \in K}
  <2>1. part = [k \in K |-> part[k]]
    OBVIOUS
  <2> HIDE DEF part, K, S
  <2> QED BY <1>2, <1>5, <1>6, <2>1
<1> HIDE DEF part, K, S, f, N, R
<1>8. \A k \in K : Shipping(part[k]) = SumOver(ShippingOf, part[k])
  BY <1>7, ShippingIs
<1>9. [k \in DOMAIN f |-> f[k].delivery] = [k \in K |-> SumOver(ShippingOf, part[k])]
  BY <1>4, <1>8
<1>10. SumFunction([k \in K |-> SumOver(ShippingOf, part[k])]) = SumOver(ShippingOf, Kept(S))
  BY <1>1, <1>3, <1>7, ColumnTypes, PartSums
<1>11. SumOver(ShippingOf, Kept(S) \cup Kept(N)) = SumOver(ShippingOf, Kept(S)) + SumOver(ShippingOf, Kept(N))
  BY <1>1, <1>2, ColumnTypes, SumUnion
<1>12. Shipping(Kept(R)) = Shipping(Kept(S)) + Shipping(Kept(N))
       /\ Shipping(Kept(S)) \in Int /\ Shipping(Kept(N)) \in Int
       /\ Shipping(Kept(S)) = SumOver(ShippingOf, Kept(S))
  BY <1>2, <1>11, ShippingIs
<1>13. Adding(f, LAMBDA v : v.delivery) = SumFunction([k \in DOMAIN f |-> f[k].delivery])
  BY DEF Adding
<1>14. DeliveryStats(s).revenue = Shipping(Kept(R))
  BY DEF DeliveryStats, R
<1>15. Adding(f, LAMBDA v : v.delivery) = DeliveryStats(s).revenue - Shipping(Kept(N))
  BY <1>9, <1>10, <1>12, <1>13, <1>14
<1> QED BY <1>15 DEF f, N, R

(* Deliveries with a fee are of orders not cancelled.                      *)
LEMMA FeesOfKept ==
  ASSUME NEW s
  PROVE  DeliveryStats(s).orders <= SalesSummary(s).orders - SalesSummary(s).cancelled
<1> DEFINE S == InRange(s)
           C == Having(S, "CANCELLED")
           P == {o \in Kept(S) : Facts[o].shipping > 0}
<1>1. IsFiniteSet(S) /\ C \in SUBSET S /\ Kept(S) = S \ C
  BY InRangeIs DEF Having, Kept
<1>2. Kept(S) \in SUBSET S /\ C \cap Kept(S) = {} /\ C \cup Kept(S) = S /\ P \subseteq Kept(S)
  BY <1>1
<1>3. DeliveryStats(s).orders = Cardinality(P) /\ SalesSummary(s).orders = Cardinality(S)
      /\ SalesSummary(s).cancelled = Cardinality(C)
  BY DEF DeliveryStats, SalesSummary
<1> HIDE DEF S, C, P
<1>4. Cardinality(C \cup Kept(S)) = Cardinality(C) + Cardinality(Kept(S))
  BY <1>1, <1>2, CardUnion
<1>5. IsFiniteSet(Kept(S)) /\ IsFiniteSet(C)
  BY <1>1, <1>2, FS_Subset
<1>6. Cardinality(P) <= Cardinality(Kept(S)) /\ Cardinality(P) \in Nat /\ Cardinality(Kept(S)) \in Nat
      /\ Cardinality(C) \in Nat
  BY <1>2, <1>5, FS_Subset, FS_CardinalityType
<1>7. Cardinality(S) = Cardinality(C) + Cardinality(Kept(S))
  BY <1>2, <1>4
<1> QED BY <1>3, <1>6, <1>7

(* The merchant's report adds up.                                          *)
LEMMA MerchantWhole ==
  ASSUME ReportsTypeOK, Offset = 0
  PROVE  MerchantAddsUp
<1> SUFFICES ASSUME NEW s \in Registered
             PROVE  LET sum       == SalesSummary(s)
                        delivered == Realized(InRange(s))
                        discounts == SumFunction([o \in delivered |-> Facts[o].discount])
                        whole(f)  == OrdersIn(f) = sum.orders /\ GrossIn(f) = sum.revenue
                    IN /\ whole(SalesTrend(s)) /\ whole(SalesByGovernorate(s)) /\ whole(PaymentMethods(s))
                       /\ sum.delivered + sum.pending + sum.cancelled = sum.orders
                       /\ \A f \in {SoldProducts(s), SalesByCategory(s)} :
                            GrossIn(f) = sum.revenue - Shipping(delivered) + discounts
                       /\ Adding(SalesByCity(s), LAMBDA v : v.delivery) =
                            DeliveryStats(s).revenue - Shipping(Kept({o \in InRange(s) : Facts[o].city = "none"}))
                       /\ DeliveryStats(s).orders <= sum.orders - sum.cancelled
  BY DEF MerchantAddsUp
<1>1. SalesSummary(s).orders = Cardinality(InRange(s)) /\ SalesSummary(s).revenue = Gross(InRange(s))
  BY DEF SalesSummary
<1>2. /\ OrdersIn(SalesTrend(s)) = SalesSummary(s).orders /\ GrossIn(SalesTrend(s)) = SalesSummary(s).revenue
      /\ OrdersIn(SalesByGovernorate(s)) = SalesSummary(s).orders
      /\ GrossIn(SalesByGovernorate(s)) = SalesSummary(s).revenue
      /\ OrdersIn(PaymentMethods(s)) = SalesSummary(s).orders
      /\ GrossIn(PaymentMethods(s)) = SalesSummary(s).revenue
  BY <1>1, TrendWhole, ByPlaceWhole
<1>3. \A f \in {SoldProducts(s), SalesByCategory(s)} :
        GrossIn(f) = SalesSummary(s).revenue - Shipping(Realized(InRange(s)))
                     + SumFunction([o \in Realized(InRange(s)) |-> Facts[o].discount])
  BY <1>1, SoldProductsWhole, SoldWhole
<1> QED BY <1>2, <1>3, ByStatusWhole, CityWhole, FeesOfKept

-----------------------------------------------------------------------------
(* The stock figures and the subscriptions page.                           *)

(* The stock figures agree with the filters of the list.                   *)
LEMMA StockWhole ==
  ASSUME PagesTypeOK
  PROVE  StockAgrees
<1> DEFINE active(f) == Cardinality({i \in ActiveRows : Where(f, item[i])})
           K == {WarehouseOf[i] : i \in Items}
           part == [w \in K |-> {i \in ActiveRows : WarehouseOf[i] = w}]
           units == [i \in ActiveRows |-> item[i]]
<1>1. ActiveRows \in SUBSET Items /\ IsFiniteSet(Items) /\ IsFiniteSet(ActiveRows)
  <2>1. ActiveRows \in SUBSET Items /\ IsFiniteSet(Items)
    BY PageAssumption DEF ActiveRows, Rows
  <2> QED BY <2>1, FS_Subset
<1>2. \A i \in ActiveRows : item[i] \in Nat /\ item[i] \in Int
  <2> TAKE i \in ActiveRows
  <2>1. i \in Items /\ item[i] # Gone
    BY DEF ActiveRows, Rows
  <2>2. item[i] \in Levels \cup {Gone}
    BY <2>1 DEF PagesTypeOK
  <2>3. Levels \subseteq Nat
    BY PageAssumption
  <2>4. item[i] \in Levels
    BY <2>1, <2>2
  <2>5. item[i] \in Nat
    BY <2>3, <2>4, Zenon
  <2> QED BY <2>5
<1>3. /\ {i \in ActiveRows : item[i] > Threshold} = {i \in ActiveRows : Where("IN_STOCK", item[i])}
      /\ {i \in ActiveRows : 0 < item[i] /\ item[i] <= Threshold} = {i \in ActiveRows : Where("LOW_STOCK", item[i])}
      /\ {i \in ActiveRows : item[i] <= 0} = {i \in ActiveRows : Where("OUT_OF_STOCK", item[i])}
  BY <1>2 DEF Where, StatusOfStock, Threshold
<1>4. /\ StockSummary.inStock = active("IN_STOCK") /\ StockSummary.lowStock = active("LOW_STOCK")
      /\ StockSummary.outOfStock = active("OUT_OF_STOCK")
  BY <1>3 DEF StockSummary
<1>5. IsFiniteSet(K)
  BY <1>1, KeysFinite
<1>6. units \in [ActiveRows -> Int]
  BY <1>2
<1>7. \A i \in ActiveRows : WarehouseOf[i] \in K
  BY <1>1
<1> HIDE DEF K
<1>8. part \in [K -> SUBSET ActiveRows] /\ \A k, l \in K : k # l => part[k] \cap part[l] = {}
  OBVIOUS
<1>9. ActiveRows = UNION {part[k] : k \in K}
  BY <1>7
<1>10. \A S \in SUBSET ActiveRows : UnitsOf(S) = SumOver(units, S)
  <2> TAKE S \in SUBSET ActiveRows
  <2>1. [i \in S |-> item[i]] = [i \in S |-> units[i]]
    OBVIOUS
  <2> HIDE DEF units
  <2> QED BY <2>1 DEF UnitsOf, SumOver
<1>11. Warehouses = [k \in K |-> SumOver(units, part[k])]
  <2>1. \A k \in K : part[k] \in SUBSET ActiveRows
    BY <1>8
  <2>2. \A k \in K : UnitsOf(part[k]) = SumOver(units, part[k])
    BY <1>10, <2>1
  <2>3. Warehouses = [k \in K |-> UnitsOf(part[k])]
    BY DEF Warehouses, K
  <2> HIDE DEF units, part
  <2> QED BY <2>2, <2>3
<1> HIDE DEF units, part
<1>12. SumFunction(Warehouses) = SumOver(units, ActiveRows)
  BY <1>1, <1>5, <1>6, <1>8, <1>9, <1>11, PartSums
<1>13. StockSummary.available = SumOver(units, ActiveRows)
  BY <1>10 DEF StockSummary
<1> QED BY <1>4, <1>12, <1>13 DEF StockAgrees

-----------------------------------------------------------------------------
(* The subscriptions page.                                                 *)
LEMMA ContractRow ==
  ASSUME ReportsTypeOK, NEW s \in Contracts
  PROVE  /\ s \in Registered /\ store[s].contract \in ContractStatuses
         /\ store[s].end \in Nat /\ store[s].since \in 0..now
         /\ store[s].plan \in Plans /\ store[s].yearly \in BOOLEAN
         /\ AgreedPrice(s) \in Nat /\ DaysLeft(s) \in Int
         /\ EffectiveStatus(s) \in ContractStatuses \cup {"EXPIRED"}
<1>1. s \in Registered /\ store[s].contract # "NONE"
  BY DEF Contracts
<1>2. /\ store[s].contract \in ContractStatuses /\ store[s].plan \in Plans
      /\ store[s].end \in Nat /\ store[s].since \in 0..now /\ store[s].yearly \in BOOLEAN
  BY <1>1, StoreRow DEF Consistent
<1>3. AgreedPrice(s) \in Nat
  <2>1. PriceOf[store[s].plan] \in [monthly : Nat, yearly : Nat]
    BY <1>2, ReportAssumption
  <2> QED BY <2>1 DEF AgreedPrice
<1>4. now \in Int
  BY TimeNow
<1>5. DaysLeft(s) \in Int
  BY <1>2, <1>4 DEF DaysLeft
<1> QED BY <1>1, <1>2, <1>3, <1>5 DEF EffectiveStatus

(* The contracts, and those a query finds.                                 *)
LEMMA ContractsFinite ==
  /\ Contracts \in SUBSET Registered /\ IsFiniteSet(Contracts)
  /\ \A q : FetchFiltered(q) \in SUBSET Contracts /\ IsFiniteSet(FetchFiltered(q))
<1>1. Contracts \in SUBSET Registered /\ Contracts \in SUBSET Stores
  BY RowsFinite DEF Contracts
<1>2. \A q : FetchFiltered(q) \in SUBSET Contracts
  BY DEF FetchFiltered
<1>3. \A q : FetchFiltered(q) \in SUBSET Stores
  BY <1>1, <1>2
<1> QED BY <1>1, <1>2, <1>3, RowsFinite

AgreedPriceOf == [s \in Contracts |-> AgreedPrice(s)]

(* Revenue is the sum of the prices agreed.                                *)
LEMMA RevenueIs ==
  ASSUME ReportsTypeOK
  PROVE  /\ AgreedPriceOf \in [Contracts -> Int]
         /\ \A S \in SUBSET Contracts : Revenue(S) = SumOver(AgreedPriceOf, S)
<1>1. AgreedPriceOf \in [Contracts -> Int]
  BY ContractRow DEF AgreedPriceOf
<1>2. ASSUME NEW S \in SUBSET Contracts PROVE Revenue(S) = SumOver(AgreedPriceOf, S)
  <2>1. [s \in S |-> AgreedPrice(s)] = [s \in S |-> AgreedPriceOf[s]]
    BY DEF AgreedPriceOf
  <2> QED BY <2>1 DEF Revenue, SumOver
<1> QED BY <1>1, <1>2

(* Groups of contracts share out their number and revenue.                 *)
LEMMA ContractGroups ==
  ASSUME ReportsTypeOK, NEW S \in SUBSET Contracts, NEW key, NEW f,
         DOMAIN f = {key[s] : s \in S},
         \A k \in DOMAIN f : /\ f[k].stores = Cardinality({s \in S : key[s] = k})
                             /\ f[k].revenue = Revenue({s \in S : key[s] = k})
  PROVE  /\ Adding(f, LAMBDA v : v.stores) = Cardinality(S)
         /\ Adding(f, LAMBDA v : v.revenue) = Revenue(S)
<1> DEFINE K == {key[s] : s \in S}
           part == [k \in K |-> {s \in S : key[s] = k}]
<1>1. IsFiniteSet(S) /\ IsFiniteSet(Contracts)
  BY ContractsFinite, FS_Subset
<1>2. IsFiniteSet(K)
  BY <1>1, KeysFinite
<1>3. DOMAIN f = K /\ \A s \in S : key[s] \in K
  OBVIOUS
<1>4. \A k \in K : f[k].stores = Cardinality(part[k]) /\ f[k].revenue = Revenue(part[k])
  BY <1>3
<1> HIDE DEF K
<1>5. part \in [K -> SUBSET S] /\ (\A k, l \in K : k # l => part[k] \cap part[l] = {})
  OBVIOUS
<1>6. S = UNION {part[k] : k \in K}
  BY <1>3
<1>7. part \in [K -> SUBSET Contracts]
  OBVIOUS
<1> HIDE DEF part
<1>8. SumFunction([k \in K |-> Cardinality(part[k])]) = Cardinality(S)
  BY <1>1, <1>2, <1>5, <1>6, PartCounts
<1>9. SumFunction([k \in K |-> SumOver(AgreedPriceOf, part[k])]) = SumOver(AgreedPriceOf, S)
  BY <1>1, <1>2, <1>5, <1>6, <1>7, RevenueIs, PartSums
<1>10. [k \in DOMAIN f |-> f[k].stores] = [k \in K |-> Cardinality(part[k])]
  BY <1>3, <1>4
<1>11. [k \in DOMAIN f |-> f[k].revenue] = [k \in K |-> SumOver(AgreedPriceOf, part[k])]
  <2>1. \A k \in K : f[k].revenue = SumOver(AgreedPriceOf, part[k])
    <3> TAKE k \in K
    <3>1. part[k] \in SUBSET Contracts
      BY <1>7
    <3> QED BY <1>4, <3>1, RevenueIs
  <2> QED BY <1>3, <2>1
<1>12. Revenue(S) = SumOver(AgreedPriceOf, S)
  BY RevenueIs
<1> QED BY <1>8, <1>9, <1>10, <1>11, <1>12 DEF Adding

(* The list has every contract found, once.                                *)
LEMMA ListByEnd ==
  ASSUME ReportsTypeOK, NEW q
  PROVE  SubscriptionList(q, FALSE) \in
           Bijection(1..Cardinality(FetchFiltered(q)), FetchFiltered(q))
<1> DEFINE S == FetchFiltered(q)
           n == Cardinality(S)
           f == [s \in S |-> store[s].end]
           later == {p \in S \X S : store[p[1]].end > store[p[2]].end}
           l == SubscriptionList(q, FALSE)
<1>1. IsFiniteSet(S) /\ S \in SUBSET Contracts
  BY ContractsFinite
<1>2. \A s \in S : store[s].end \in Int
  BY <1>1, ContractRow
<1>3. f \in [S -> Int]
  BY <1>2
<1>4. \A T \in SUBSET S : T # {} => \E m \in T : \A x \in T : <<x, m>> \notin later
  <2> SUFFICES ASSUME NEW T \in SUBSET S, T # {} PROVE \E m \in T : \A x \in T : <<x, m>> \notin later
    OBVIOUS
  <2>1. PICK m \in T : \A x \in T : f[x] <= f[m]
    <3> HIDE DEF f, S
    <3> QED BY <1>1, <1>3, GreatestExists
  <2>2. \A x \in T : f[x] = store[x].end /\ store[x].end \in Int
    BY <1>2
  <2>3. \A x \in T : ~ (store[x].end > store[m].end)
    <3> HIDE DEF f, S
    <3> QED BY <2>1, <2>2
  <2> QED BY <2>3
<1>5. \E k \in [1..n -> S] : \A i, j \in 1..n : i < j => k[i] # k[j] /\ <<k[j], k[i]>> \notin later
  <2> HIDE DEF S, later
  <2> QED BY <1>1, <1>4, ListExists
<1>6. \E k \in [1..n -> S] : \A i, j \in 1..n : i < j => k[i] # k[j] /\ ~ (store[k[j]].end > store[k[i]].end)
  <2>1. PICK k \in [1..n -> S] : \A i, j \in 1..n : i < j => k[i] # k[j] /\ <<k[j], k[i]>> \notin later
    BY <1>5
  <2>2. \A i \in 1..n : k[i] \in S
    OBVIOUS
  <2>3. \A i, j \in 1..n : <<k[j], k[i]>> \notin later => ~ (store[k[j]].end > store[k[i]].end)
    BY <2>2
  <2> QED BY <2>1, <2>3
<1>7. l = CHOOSE k \in [1..n -> S] :
            \A i, j \in 1..n : i < j => k[i] # k[j] /\ ~ (store[k[j]].end > store[k[i]].end)
  BY DEF SubscriptionList, Sorted
<1>8. l \in [1..n -> S] /\ \A i, j \in 1..n : i < j => l[i] # l[j]
  <2> HIDE DEF l, n, S
  <2> QED BY <1>6, <1>7
<1> QED BY <1>1, <1>8, ListIsBijection

(* And its pages put together are the list.                                *)
LEMMA PagesOfTheList ==
  ASSUME ReportsTypeOK, NEW q
  PROVE  LET page(i) == SubscriptionPage(q, FALSE, i, 1)
         IN /\ page(1).total = Cardinality(FetchFiltered(q))
            /\ {page(i).items[1].store : i \in 1..page(1).total} = FetchFiltered(q)
<1> DEFINE S == FetchFiltered(q)
           n == Cardinality(S)
           l == SubscriptionList(q, FALSE)
           page(i) == SubscriptionPage(q, FALSE, i, 1)
<1>1. \A i : page(i).total = n
  BY DEF SubscriptionPage
<1>2. n \in Nat
  BY ContractsFinite, FS_CardinalityType
<1>3. ASSUME NEW i \in 1..n PROVE page(i).items[1].store = l[i]
  <2> DEFINE last == IF i * 1 < n THEN i * 1 ELSE n
  <2>1. last - (i - 1) * 1 = 1 /\ (i - 1) * 1 + 1 = i
    BY <1>2
  <2>2. page(i).items = [k \in 1..last - (i - 1) * 1 |-> Serialize(l[(i - 1) * 1 + k])]
    BY DEF SubscriptionPage
  <2>3. 1 \in 1..1
    OBVIOUS
  <2> HIDE DEF last, page, l
  <2>4. page(i).items[1] = Serialize(l[i])
    BY <2>1, <2>2, <2>3
  <2> QED BY <2>4 DEF Serialize
<1>4. l \in Bijection(1..n, S)
  BY ListByEnd
<1>5. {l[i] : i \in 1..n} = S
  <2> HIDE DEF l, n, S
  <2> QED BY <1>4 DEF Bijection, Surjection
<1>6. {page(i).items[1].store : i \in 1..n} = {l[i] : i \in 1..n}
  <2> HIDE DEF page, l, n
  <2> QED BY <1>3
<1> QED BY <1>1, <1>5, <1>6

(* The contracts by their effective status, that of the row or EXPIRED.    *)
LEMMA TilesWhole ==
  ASSUME ReportsTypeOK, NEW q
  PROVE  LET m == Summary(q)
         IN /\ m.active + m.trial + m.expired + m.cancelled + m.suspended + m.pendingPayment = m.total
            /\ m.expiringSoon <= m.active + m.trial
<1> DEFINE S == FetchFiltered(q)
           of(st) == {s \in S : EffectiveStatus(s) = st}
           A == of("ACTIVE")
           T == of("TRIAL")
           E == of("EXPIRED")
           C == of("CANCELLED")
           U == of("SUSPENDED")
           P == of("PENDING_PAYMENT")
           N == {s \in S : ExpiringSoon(s)}
<1>1. IsFiniteSet(S) /\ \A s \in S : EffectiveStatus(s) \in ContractStatuses \cup {"EXPIRED"}
  BY ContractsFinite, ContractRow
<1>2. /\ A \in SUBSET S /\ T \in SUBSET S /\ E \in SUBSET S /\ C \in SUBSET S /\ U \in SUBSET S
      /\ P \in SUBSET S /\ N \in SUBSET (A \cup T)
  BY DEF ExpiringSoon, Running
<1>3. /\ A \cap T = {} /\ (A \cup T) \cap E = {} /\ (A \cup T \cup E) \cap C = {}
      /\ (A \cup T \cup E \cup C) \cap U = {} /\ (A \cup T \cup E \cup C \cup U) \cap P = {}
  OBVIOUS
<1>4. S = A \cup T \cup E \cup C \cup U \cup P
  BY <1>1 DEF ContractStatuses
<1>5. /\ Summary(q).total = Cardinality(S) /\ Summary(q).active = Cardinality(A)
      /\ Summary(q).trial = Cardinality(T) /\ Summary(q).expired = Cardinality(E)
      /\ Summary(q).cancelled = Cardinality(C) /\ Summary(q).suspended = Cardinality(U)
      /\ Summary(q).pendingPayment = Cardinality(P) /\ Summary(q).expiringSoon = Cardinality(N)
  BY DEF Summary
<1> HIDE DEF S, A, T, E, C, U, P, N
<1>6. Cardinality(A \cup T) = Cardinality(A) + Cardinality(T)
  BY <1>1, <1>2, <1>3, CardUnion
<1>7. Cardinality(A \cup T \cup E) = Cardinality(A \cup T) + Cardinality(E)
  BY <1>1, <1>2, <1>3, CardUnion
<1>8. Cardinality(A \cup T \cup E \cup C) = Cardinality(A \cup T \cup E) + Cardinality(C)
  BY <1>1, <1>2, <1>3, CardUnion
<1>9. Cardinality(A \cup T \cup E \cup C \cup U) = Cardinality(A \cup T \cup E \cup C) + Cardinality(U)
  BY <1>1, <1>2, <1>3, CardUnion
<1>10. Cardinality(A \cup T \cup E \cup C \cup U \cup P)
         = Cardinality(A \cup T \cup E \cup C \cup U) + Cardinality(P)
  BY <1>1, <1>2, <1>3, CardUnion
<1>11. Cardinality(N) <= Cardinality(A \cup T)
  <2>1. IsFiniteSet(A \cup T)
    BY <1>1, <1>2, FS_Subset
  <2> QED BY <1>2, <2>1, FS_Subset
<1>12. Cardinality(S) = Cardinality(A) + Cardinality(T) + Cardinality(E) + Cardinality(C)
                        + Cardinality(U) + Cardinality(P)
  BY <1>4, <1>6, <1>7, <1>8, <1>9, <1>10
<1> QED BY <1>5, <1>6, <1>11, <1>12

(* The groupings of the analytics and its series of growth. *)
LEMMA AnalyticsWhole ==
  ASSUME ReportsTypeOK, NEW q
  PROVE  LET a == SubscriptionAnalytics(q)
             items == FetchFiltered(q)
         IN \A f \in {a.byPackage, a.byStatus, a.byCycle} :
              /\ Adding(f, LAMBDA v : v.stores) = Cardinality(items)
              /\ Adding(f, LAMBDA v : v.revenue) = Revenue(items)
<1> DEFINE S == FetchFiltered(q)
           a == SubscriptionAnalytics(q)
           plan == [s \in S |-> store[s].plan]
           status == [s \in S |-> EffectiveStatus(s)]
           cycle == [s \in S |-> IF store[s].yearly THEN "YEARLY" ELSE "MONTHLY"]
           grouped(f, key) ==
             /\ DOMAIN f = {key[s] : s \in S}
             /\ \A k \in DOMAIN f : /\ f[k].stores = Cardinality({s \in S : key[s] = k})
                                    /\ f[k].revenue = Revenue({s \in S : key[s] = k})
<1>1. grouped(a.byPackage, plan)
  <2>1. {plan[s] : s \in S} = {store[s].plan : s \in S}
    OBVIOUS
  <2>2. \A k : {s \in S : plan[s] = k} = {s \in S : store[s].plan = k}
    OBVIOUS
  <2> HIDE DEF plan
  <2> QED BY <2>1, <2>2 DEF SubscriptionAnalytics, GroupBy
<1>2. grouped(a.byStatus, status)
  <2>1. {status[s] : s \in S} = {EffectiveStatus(s) : s \in S}
    OBVIOUS
  <2>2. \A k : {s \in S : status[s] = k} = {s \in S : EffectiveStatus(s) = k}
    OBVIOUS
  <2> HIDE DEF status
  <2> QED BY <2>1, <2>2 DEF SubscriptionAnalytics, GroupBy
<1>3. grouped(a.byCycle, cycle)
  <2>1. {cycle[s] : s \in S} = {IF store[s].yearly THEN "YEARLY" ELSE "MONTHLY" : s \in S}
    OBVIOUS
  <2>2. \A k : {s \in S : cycle[s] = k} = {s \in S : (IF store[s].yearly THEN "YEARLY" ELSE "MONTHLY") = k}
    OBVIOUS
  <2> HIDE DEF cycle
  <2> QED BY <2>1, <2>2 DEF SubscriptionAnalytics, GroupBy
<1>4. S \in SUBSET Contracts
  BY ContractsFinite
<1> HIDE DEF S, a, plan, status, cycle
<1>5. ASSUME NEW f, NEW key, grouped(f, key)
      PROVE  /\ Adding(f, LAMBDA v : v.stores) = Cardinality(S)
             /\ Adding(f, LAMBDA v : v.revenue) = Revenue(S)
  BY <1>4, <1>5, ContractGroups
<1> HIDE DEF grouped
<1>6. \A f \in {a.byPackage, a.byStatus, a.byCycle} :
        /\ Adding(f, LAMBDA v : v.stores) = Cardinality(S)
        /\ Adding(f, LAMBDA v : v.revenue) = Revenue(S)
  BY <1>1, <1>2, <1>3, <1>5
<1> QED BY <1>6 DEF S, a

(* What the series of growth counts is new.                                *)
LEMMA GrowthAmongNew ==
  ASSUME ReportsTypeOK, NEW q
  PROVE  Adding(SubscriptionAnalytics(q).growth, LAMBDA v : v.stores) <= SubscriptionAnalytics(q).new
<1> DEFINE S == FetchFiltered(q)
           P == PeriodDays
           K == 0..P - 1
           day(i) == StartOfDay(now - 2 * i)
           born(i) == {s \in S : day(i) <= store[s].since /\ store[s].since < day(i) + 2}
           part == [i \in K |-> born(i)]
           W == UNION {part[i] : i \in K}
           N == {s \in S : store[s].since >= now - 2 * P}
           f == SubscriptionAnalytics(q).growth
<1>1. now \in Nat /\ Offset \in 0..1 /\ P \in 1..90
  BY TimeNow, ReportAssumption, SubscriptionReportsAssumption
<1>2. ASSUME NEW i \in K
      PROVE  /\ day(i) \in Int /\ day(i) >= now - 2 * i - 1 /\ day(i) = day(0) - 2 * i
             /\ day(0) \in Int
  <2>1. i \in Int /\ now \in Int /\ Offset \in Int
    BY <1>1
  <2>2. \A t, n, z, x : t \in Int /\ n \in Int /\ z \in Int /\ x = 2 * ((t - 2 * n + z) \div 2) - z =>
          /\ x \in Int
          /\ (z \in 0..1 => x >= t - 2 * n - 1)
          /\ x = (2 * ((t - 2 * 0 + z) \div 2) - z) - 2 * n
    OBVIOUS
  <2>3. day(i) = 2 * ((now - 2 * i + Offset) \div 2) - Offset
    BY DEF StartOfDay, DayOf
  <2>4. day(0) = 2 * ((now - 2 * 0 + Offset) \div 2) - Offset
    BY DEF StartOfDay, DayOf
  <2>5. day(i) \in Int /\ (Offset \in 0..1 => day(i) >= now - 2 * i - 1) /\ day(i) = day(0) - 2 * i
    <3> DEFINE d == day(i)
               e == day(0)
    <3>1. d = 2 * ((now - 2 * i + Offset) \div 2) - Offset /\ e = 2 * ((now - 2 * 0 + Offset) \div 2) - Offset
      BY <2>3, <2>4
    <3> HIDE DEF d, e, day
    <3>2. d \in Int /\ (Offset \in 0..1 => d >= now - 2 * i - 1) /\ d = e - 2 * i
      BY <2>1, <2>2, <3>1
    <3> QED BY <3>2 DEF d, e
  <2>6. day(0) \in Int
    BY <2>1, <2>4
  <2> QED BY <1>1, <2>5, <2>6
<1>3. \A s \in S : store[s].since \in Int
  BY <1>1, ContractsFinite, ContractRow
<1>4. part \in [K -> SUBSET S] /\ IsFiniteSet(S) /\ W \in SUBSET S
  BY ContractsFinite
<1>5. \A i, k \in K : i # k => part[i] \cap part[k] = {}
  <2> SUFFICES ASSUME NEW i \in K, NEW k \in K, i # k, NEW s \in S, s \in born(i), s \in born(k)
               PROVE  FALSE
    OBVIOUS
  <2>1. /\ day(i) <= store[s].since /\ store[s].since < day(i) + 2
        /\ day(k) <= store[s].since /\ store[s].since < day(k) + 2 /\ store[s].since \in Int
    BY <1>3
  <2>2. day(i) = day(0) - 2 * i /\ day(k) = day(0) - 2 * k /\ day(0) \in Int /\ i \in Int /\ k \in Int
    BY <1>2
  <2>3. \A d, x, m, n \in Int : /\ d - 2 * m <= x /\ x < d - 2 * m + 2
                               /\ d - 2 * n <= x /\ x < d - 2 * n + 2 => m = n
    OBVIOUS
  <2> HIDE DEF day, K
  <2>4. i = k
    BY <2>1, <2>2, <2>3
  <2> QED BY <2>4
<1>6. W \subseteq N
  <2> SUFFICES ASSUME NEW i \in K, NEW s \in S, s \in born(i) PROVE s \in N
    OBVIOUS
  <2>1. day(i) <= store[s].since /\ store[s].since \in Int
    BY <1>3
  <2>2. day(i) \in Int /\ day(i) >= now - 2 * i - 1 /\ i \in Int /\ i <= P - 1
    BY <1>1, <1>2
  <2> HIDE DEF day
  <2> QED BY <1>1, <2>1, <2>2
<1>7. IsFiniteSet(K)
  BY <1>1, FS_Interval
<1>8. Adding(f, LAMBDA v : v.stores) = SumFunction([i \in K |-> Cardinality(part[i])])
  <2>1. f = [i \in K |-> [stores |-> Cardinality(born(i)), revenue |-> Revenue(born(i))]]
    BY DEF SubscriptionAnalytics
  <2>2. \A i \in K : f[i].stores = Cardinality(part[i])
    BY <2>1
  <2>3. DOMAIN f = K
    BY <2>1
  <2> HIDE DEF f, part, K
  <2>4. [i \in DOMAIN f |-> f[i].stores] = [i \in K |-> Cardinality(part[i])]
    BY <2>2, <2>3
  <2> QED BY <2>4 DEF Adding
<1>9. SumFunction([i \in K |-> Cardinality(part[i])]) = Cardinality(W)
  <2>1. W = UNION {part[i] : i \in K}
    OBVIOUS
  <2> HIDE DEF W, part, K, S
  <2> QED BY <1>4, <1>5, <1>7, <2>1, PartCounts
<1>10. Cardinality(W) <= Cardinality(N)
  <2>1. IsFiniteSet(N)
    BY <1>4, FS_Subset
  <2> HIDE DEF W, N
  <2> QED BY <1>6, <2>1, FS_Subset
<1>11. SubscriptionAnalytics(q).new = Cardinality(N)
  BY DEF SubscriptionAnalytics
<1> HIDE DEF f, part, K, W, N
<1> QED BY <1>8, <1>9, <1>10, <1>11 DEF f

(* The subscriptions page adds up.                                         *)
LEMMA SubscriptionsWhole == ASSUME ReportsTypeOK PROVE SubscriptionsAddUp
<1> SUFFICES ASSUME NEW q \in Asked
      PROVE LET m == Summary(q)
                a == SubscriptionAnalytics(q)
                stores(f)  == Adding(f, LAMBDA v : v.stores)
                shared(f)  == stores(f) = m.total /\ Adding(f, LAMBDA v : v.revenue) = m.revenue
                page(i)    == SubscriptionPage(q, FALSE, i, 1)
            IN /\ m.active + m.trial + m.expired + m.cancelled + m.suspended + m.pendingPayment = m.total
               /\ shared(a.byPackage) /\ shared(a.byStatus) /\ shared(a.byCycle)
               /\ {page(i).items[1].store : i \in 1..page(1).total} = FetchFiltered(q)
               /\ page(1).total = m.total
               /\ a.expired = m.expired /\ stores(a.growth) <= a.new
               /\ m.expiringSoon <= m.active + m.trial
  BY DEF SubscriptionsAddUp
<1>1. Summary(q).total = Cardinality(FetchFiltered(q)) /\ Summary(q).revenue = Revenue(FetchFiltered(q))
  BY DEF Summary
<1>2. SubscriptionAnalytics(q).expired = Summary(q).expired
  BY DEF Summary, SubscriptionAnalytics
<1> QED BY <1>1, <1>2, TilesWhole, AnalyticsWhole, GrowthAmongNew, PagesOfTheList

(* The filters find what the summary counts.                               *)
LEMMA FiltersWhole == ASSUME ReportsTypeOK PROVE FiltersTell
<1> DEFINE rows(st) == FetchFiltered([Every EXCEPT !.status = st])
           X == rows("EXPIRED")
           A == rows("ACTIVE")
           T == rows("TRIAL")
           S == FetchFiltered(Every)
           eff(st) == {s \in S : EffectiveStatus(s) = st}
           a == eff("ACTIVE")
           t == eff("TRIAL")
           x == eff("EXPIRED")
<1>1. Every.status = "any" /\ Every.plan = "any" /\ Every.within = "any"
  BY DEF Every
<1>2. \A st : LET q == [Every EXCEPT !.status = st] IN q.status = st /\ q.plan = "any" /\ q.within = "any"
  BY DEF Every
<1>3. S = Contracts
  BY <1>1 DEF FetchFiltered
<1>4. X = {s \in Contracts : EffectiveStatus(s) = "EXPIRED"}
  BY <1>2 DEF FetchFiltered
<1>5. A = {s \in Contracts : store[s].contract = "ACTIVE"} /\ T = {s \in Contracts : store[s].contract = "TRIAL"}
  BY <1>2 DEF FetchFiltered
<1>6. X = x
  BY <1>3, <1>4
<1>7. A \cup T = (a \cup t) \cup x /\ A \cap T = {} /\ a \cap t = {} /\ (a \cup t) \cap x = {}
  BY <1>3, <1>5, ContractRow DEF EffectiveStatus, Running, ContractStatuses
<1>8. A \in SUBSET Contracts /\ T \in SUBSET Contracts /\ a \in SUBSET Contracts /\ t \in SUBSET Contracts
      /\ x \in SUBSET Contracts /\ a \cup t \in SUBSET Contracts /\ IsFiniteSet(Contracts)
  BY <1>3, <1>5, ContractsFinite
<1>9. Summary(Every).active = Cardinality(a) /\ Summary(Every).trial = Cardinality(t)
      /\ Summary(Every).expired = Cardinality(x)
  BY DEF Summary
<1>10. FiltersTell <=> /\ Cardinality(X) = Summary(Every).expired
                       /\ Cardinality(A) + Cardinality(T) =
                            Summary(Every).active + Summary(Every).trial + Summary(Every).expired
  BY DEF FiltersTell
<1> HIDE DEF A, T, a, t, x, X
<1>11. Cardinality(A \cup T) = Cardinality(A) + Cardinality(T)
  BY <1>7, <1>8, CardUnion
<1>12. Cardinality(a \cup t) = Cardinality(a) + Cardinality(t)
  BY <1>7, <1>8, CardUnion
<1>13. Cardinality((a \cup t) \cup x) = Cardinality(a \cup t) + Cardinality(x)
  BY <1>7, <1>8, CardUnion
<1>14. Cardinality(A) + Cardinality(T) = Cardinality(a) + Cardinality(t) + Cardinality(x)
  BY <1>7, <1>11, <1>12, <1>13
<1> QED BY <1>6, <1>9, <1>10, <1>14

(* The dashboard and the page differ by the day a period ends.             *)
LEMMA ContractsWhole == ASSUME ReportsTypeOK PROVE ContractsAgree
<1> DEFINE running == {s \in Contracts : store[s].contract \in Running}
           endedToday == {s \in running : EndedToday(s)}
           expired == {s \in Contracts : EffectiveStatus(s) = "EXPIRED"}
<1>1. now \in Int /\ SoonDays \in Nat
  BY TimeNow, SubscriptionReportsAssumption
<1>2. ASSUME NEW s \in Contracts
      PROVE  /\ store[s].end \in Nat /\ store[s].end # NoEnd
             /\ (DaysLeft(s) < 0) = (store[s].end < now /\ ~ EndedToday(s))
             /\ (DaysLeft(s) >= 0 /\ DaysLeft(s) <= SoonDays) =
                  (EndedToday(s) \/ (now <= store[s].end /\ store[s].end <= now + 2 * SoonDays))
             /\ EndedToday(s) => store[s].end < now
             /\ DaysLeft(s) \in Int
  <2>1. store[s].end \in Nat
    BY ContractRow
  <2> QED BY <1>1, <2>1 DEF DaysLeft, EndedToday, NoEnd
<1>3. expired \cap Active = (Expired \cap running) \ endedToday
  <2>1. ASSUME NEW s PROVE s \in expired \cap Active <=> s \in (Expired \cap running) \ endedToday
    <3>1. CASE s \in Contracts
      <4>1. EffectiveStatus(s) = "EXPIRED" <=> store[s].contract \in Running /\ DaysLeft(s) < 0
        BY <3>1, ContractRow DEF EffectiveStatus, ContractStatuses
      <4> HIDE DEF EndedToday
      <4> QED BY <1>2, <3>1, <4>1 DEF Expired
    <3>2. CASE s \notin Contracts
      BY <3>2
    <3> QED BY <3>1, <3>2
  <2> QED BY <2>1
<1>4. {s \in Contracts : ExpiringSoon(s)} = DueSoon \cup endedToday
  <2>1. ASSUME NEW s \in Contracts PROVE ExpiringSoon(s) <=> s \in DueSoon \/ s \in endedToday
    <3>1. EffectiveStatus(s) \in Running <=> store[s].contract \in Running /\ ~ (DaysLeft(s) < 0)
      BY ContractRow DEF EffectiveStatus, ContractStatuses, Running
    <3>2. ExpiringSoon(s) <=> store[s].contract \in Running /\ DaysLeft(s) >= 0 /\ DaysLeft(s) <= SoonDays
      BY <1>2, <3>1 DEF ExpiringSoon
    <3> QED BY <1>2, <3>2 DEF DueSoon, Running
  <2>2. DueSoon \subseteq Contracts /\ endedToday \subseteq Contracts
    BY DEF DueSoon
  <2> QED BY <2>1, <2>2
<1> QED BY <1>3, <1>4 DEF ContractsAgree

-----------------------------------------------------------------------------
(* The trends by the month, and the dashboard's window.                    *)

(* The first half day of a month is of that month. *)
LEMMA MonthStart ==
  ASSUME NEW m \in 0..14
  PROVE  /\ FirstOfMonth(m) \in 0..848 /\ MonthOf(FirstOfMonth(m)) = m
         /\ DayOf(FirstOfMonth(m)) = DaysBefore[m]
<1>1. DaysBefore[m] \in Nat /\ DaysBefore[m + 1] = DaysBefore[m] + LengthOf(m) /\ LengthOf(m) \in 28..31
  BY MonthLength
<1>2. DaysBefore[m] <= 424
  <2>1. CASE m = 14
    BY <2>1, CalendarEnds
  <2>2. CASE m < 14
    <3>1. DaysBefore[m] + 28 <= DaysBefore[14]
      BY <2>2, MonthsFollow
    <3> QED BY <1>1, <3>1, CalendarEnds
  <2> QED BY <2>1, <2>2
<1>3. FirstOfMonth(m) \in 0..848 /\ DayOf(FirstOfMonth(m)) = DaysBefore[m]
  BY <1>1, <1>2 DEF FirstOfMonth, DayOf
<1>4. DaysBefore[m] < DaysBefore[m + 1]
  BY <1>1
<1>5. m \in 0..35 /\ FirstOfMonth(m) \in 0..849
  BY <1>3
<1>6. MonthOf(FirstOfMonth(m)) = m
  <2>1. \A k \in 0..35 :
          DaysBefore[k] <= DayOf(FirstOfMonth(m)) /\ DayOf(FirstOfMonth(m)) < DaysBefore[k + 1]
            => MonthOf(FirstOfMonth(m)) = k
    BY <1>5, MonthOfTime
  <2>2. DaysBefore[m] <= DayOf(FirstOfMonth(m)) /\ DayOf(FirstOfMonth(m)) < DaysBefore[m + 1]
    BY <1>1, <1>3, <1>4
  <2> QED BY <1>5, <2>1, <2>2
<1> QED BY <1>3, <1>6

(* Months keep the order of their days. *)
LEMMA NotBeforeMonth ==
  ASSUME NEW m \in 0..14, NEW t \in 0..849, MonthOf(t) >= m
  PROVE  t >= FirstOfMonth(m)
<1>1. MonthOf(t) \in 0..14 /\ DayOf(t) \in Nat /\ DaysBefore[MonthOf(t)] <= DayOf(t)
  <2>1. MonthOf(t) \in 0..14 /\ DayOf(t) \in 0..424 /\ DaysBefore[MonthOf(t)] <= DayOf(t)
    BY MonthOfTime
  <2> QED BY <2>1
<1>2. DaysBefore[m] \in Nat /\ DaysBefore[MonthOf(t)] \in Nat
  BY <1>1, MonthLength
<1>3. DaysBefore[m] <= DaysBefore[MonthOf(t)]
  <2>1. CASE m < MonthOf(t)
    <3>1. DaysBefore[m] + 28 <= DaysBefore[MonthOf(t)]
      BY <1>1, <2>1, MonthsFollow
    <3> QED BY <1>2, <3>1
  <2>2. CASE m = MonthOf(t)
    BY <1>2, <2>2
  <2> QED BY <1>1, <2>1, <2>2
<1>4. 2 * DayOf(t) <= t
  BY DEF DayOf
<1> QED BY <1>1, <1>2, <1>3, <1>4 DEF FirstOfMonth

(* On such a day the trend is of the last six months.                      *)
LEMMA TrendWindow ==
  ASSUME ReportsTypeOK, Offset = 0,
         DayOfMonth(now) <= 28 \/ DayOfMonth(now) <= LengthOf(MonthOf(now) - 5)
  PROVE  /\ MonthOf(now) - 5 \in 0..9 /\ FirstOfTrend(now) = MonthOf(now) - 5
         /\ TrendStart = FirstOfMonth(MonthOf(now) - 5)
         /\ TrendMonths = SixMonths
<1> DEFINE m == MonthOf(now) - 5
<1>1. now \in 302..848 /\ now + Offset = now
  BY TimeNow
<1>2. MonthOf(now) \in 5..14 /\ m \in 0..9
  BY <1>1, LaterMonths
<1>3. DayOfMonth(now) \in Int
  <2>1. DayOf(now) \in Int
    BY <1>1 DEF DayOf
  <2>2. MonthOf(now) \in 0..35
    BY <1>2
  <2>3. DaysBefore[MonthOf(now)] \in Nat
    BY <2>2, MonthLength
  <2> QED BY <2>1, <2>3 DEF DayOfMonth
<1>4. LengthOf(m) \in 28..31
  BY <1>2, MonthLength
<1>5. DayOfMonth(now) <= LengthOf(m)
  BY <1>3, <1>4
<1>6. FirstOfTrend(now) = m
  BY <1>1, <1>5 DEF FirstOfTrend
<1>7. TrendStart = FirstOfMonth(m)
  <2>1. m \in 0..14
    BY <1>2
  <2> HIDE DEF m
  <2>2. FirstOfMonth(m) \in 0..848
    BY <2>1, MonthStart
  <2> QED BY <1>6, <2>2 DEF TrendStart
<1>8. \A i \in 0..5 : MonthKey(FirstOfMonth(FirstOfTrend(now) + i) - Offset) = m + i
  <2> SUFFICES ASSUME NEW i \in 0..5
               PROVE  MonthKey(FirstOfMonth(FirstOfTrend(now) + i) - Offset) = m + i
    OBVIOUS
  <2>1. m + i \in 0..14
    BY <1>2
  <2> HIDE DEF m
  <2>2. FirstOfMonth(m + i) \in 0..848 /\ MonthOf(FirstOfMonth(m + i)) = m + i
    BY <2>1, MonthStart
  <2>3. FirstOfMonth(m + i) - Offset = FirstOfMonth(m + i)
    BY <2>2
  <2> QED BY <1>6, <2>2, <2>3 DEF MonthKey
<1>9. TrendMonths = {m + i : i \in 0..5}
  BY <1>8 DEF TrendMonths
<1>10. SixMonths = {m + i : i \in 0..5}
  <2>1. ASSUME NEW x \in SixMonths PROVE x \in {m + i : i \in 0..5}
    <3>1. PICK i \in 0..5 : x = MonthOf(now) - i
      BY <2>1 DEF SixMonths
    <3>2. 5 - i \in 0..5 /\ x = m + (5 - i)
      BY <1>2, <3>1
    <3> QED BY <3>2
  <2>2. ASSUME NEW i \in 0..5 PROVE m + i \in SixMonths
    <3>1. 5 - i \in 0..5 /\ m + i = MonthOf(now) - (5 - i)
      BY <1>2
    <3> QED BY <3>1 DEF SixMonths
  <2> QED BY <2>1, <2>2
<1> QED BY <1>2, <1>6, <1>7, <1>9, <1>10

(* And misses no order of them.                                            *)
LEMMA TrendWholeByMonth ==
  ASSUME ReportsTypeOK, Offset = 0
  PROVE  TrendByTheDay
<1> SUFFICES ASSUME DayOfMonth(now) <= 28 \/ DayOfMonth(now) <= LengthOf(MonthOf(now) - 5)
             PROVE  TrendIsLastSixMonths
  BY DEF TrendByTheDay
<1> DEFINE m == MonthOf(now) - 5
           K == SixMonths
           S == Since(Placed, TrendStart)
           part == [k \in K |-> {o \in S : PlacedIn(o) = k}]
           W == UNION {part[k] : k \in K}
           G == PlatformReport.gmvTrend
<1>1. m \in 0..9 /\ TrendStart = FirstOfMonth(m) /\ TrendMonths = K
  BY TrendWindow
<1>2. G = [k \in K |-> Sales({o \in S : PlacedIn(o) = k})]
  <2>1. G = Trend(TrendMonths, Since(Placed, TrendStart), PlacedIn)
    BY DEF PlatformReport
  <2> QED BY <1>1, <2>1 DEF Trend
<1>3. DOMAIN G = K /\ \A k \in K : G[k].orders = Cardinality(part[k]) /\ G[k].gross = Gross(part[k])
  BY <1>2 DEF Sales
<1>4. S \in SUBSET Placed /\ S \in SUBSET Orders
  BY RowsFinite DEF Since
<1>5. part \in [K -> SUBSET Orders] /\ \A k, l \in K : k # l => part[k] \cap part[l] = {}
  BY <1>4
<1>6. IsFiniteSet(K)
  <2> DEFINE f == [i \in 0..5 |-> MonthOf(now) - i]
  <2>1. f \in Surjection(0..5, K)
    BY DEF Surjection, SixMonths
  <2>2. IsFiniteSet(0..5)
    BY MonthsFinite, FS_Subset
  <2> HIDE DEF f, K
  <2> QED BY <2>1, <2>2, FS_Surjection
<1>7. \A o \in Placed : PlacedIn(o) \in K => o \in S
  <2> SUFFICES ASSUME NEW o \in Placed, PlacedIn(o) \in K PROVE o \in S
    OBVIOUS
  <2>1. order[o].at \in 0..849
    <3>1. order[o].at \in 0..now /\ now \in 302..848
      BY OrderRow, TimeNow
    <3>2. \A t, n : n \in 302..848 /\ t \in 0..n => t \in 0..849
      OBVIOUS
    <3> QED BY <3>1, <3>2
  <2>2. PICK i \in 0..5 : MonthOf(order[o].at) = MonthOf(now) - i
    BY DEF PlacedIn, MonthKey, SixMonths
  <2>3. m \in 0..14 /\ MonthOf(order[o].at) >= m
    <3>1. MonthOf(now) \in Int
      BY TimeNow, LaterMonths
    <3> QED BY <1>1, <2>2, <3>1
  <2>4. order[o].at >= TrendStart
    <3> HIDE DEF m
    <3> QED BY <1>1, <2>1, <2>3, NotBeforeMonth
  <2> QED BY <2>4 DEF Since
<1>8. W = {o \in Placed : PlacedIn(o) \in SixMonths}
  <2> HIDE DEF K
  <2>1. W = {o \in S : PlacedIn(o) \in K}
    OBVIOUS
  <2> HIDE DEF S, W, part
  <2> QED BY <1>4, <1>7, <2>1 DEF K
<1>9. OrdersIn(G) = Cardinality(W)
  <2>1. W = UNION {part[k] : k \in K}
    OBVIOUS
  <2> HIDE DEF K, part, W, G, S
  <2> QED BY <1>3, <1>5, <1>6, <2>1, PartSales
<1> QED BY <1>1, <1>8, <1>9 DEF TrendIsLastSixMonths

(* A list by two numbers exists: the greater first, of equals by the other. *)
RankedBy(S, f, g, before) ==
  \A a, b \in S : <<a, b>> \in before => f[a] > f[b] \/ (f[a] = f[b] /\ g[a] > g[b])
ListedBy(S, before, l) ==
  /\ l \in [1..Cardinality(S) -> S]
  /\ \A i, j \in 1..Cardinality(S) : i < j => l[i] # l[j] /\ <<l[j], l[i]>> \notin before

LEMMA ListByTwo ==
  ASSUME NEW S, IsFiniteSet(S), NEW f \in [S -> Int], NEW g \in [S -> Int], NEW before,
         RankedBy(S, f, g, before)
  PROVE  \E l : ListedBy(S, before, l)
<1>0. \A a, b \in S : <<a, b>> \in before => f[a] > f[b] \/ (f[a] = f[b] /\ g[a] > g[b])
  BY DEF RankedBy
<1>1. ASSUME NEW T \in SUBSET S, T # {}
      PROVE  \E m \in T : \A x \in T : <<x, m>> \notin before
  <2>1. PICK k \in T : \A x \in T : f[x] <= f[k]
    BY <1>1, GreatestExists
  <2> DEFINE R == {x \in T : f[x] = f[k]}
  <2>2. R \in SUBSET S /\ R # {}
    BY <2>1
  <2>3. PICK m \in R : \A x \in R : g[x] <= g[m]
    <3> HIDE DEF R
    <3> QED BY <2>2, GreatestExists
  <2>4. ASSUME NEW x \in T PROVE <<x, m>> \notin before
    <3>1. x \in S /\ m \in S /\ f[x] \in Int /\ g[x] \in Int /\ f[m] \in Int /\ g[m] \in Int
          /\ f[x] <= f[m]
      BY <2>1, <2>3
    <3>2. f[x] = f[m] => g[x] <= g[m]
      BY <2>3
    <3>3. ~ (f[x] > f[m]) /\ ~ (f[x] = f[m] /\ g[x] > g[m])
      BY <3>1, <3>2
    <3> QED BY <1>0, <3>1, <3>3
  <2> QED BY <2>3, <2>4
<1>2. \E l \in [1..Cardinality(S) -> S] :
        \A i, j \in 1..Cardinality(S) : i < j => l[i] # l[j] /\ <<l[j], l[i]>> \notin before
  BY <1>1, ListExists
<1> QED BY <1>2 DEF ListedBy

(* Where the window of the dashboard starts.                               *)
LEMMA FromIs ==
  ASSUME ReportsTypeOK, Offset = 0
  PROVE  /\ From = 2 * DayOf(now) - 2 * (Window - 1)
         /\ From \in Int /\ PrevFrom \in Int /\ PrevFrom <= From /\ From <= now
<1>1. now \in Nat /\ Window \in Nat \ {0}
  BY TimeNow, PlatformAssumption
<1>2. DaysBack(Window - 1) = 2 * ((now - 2 * (Window - 1) + Offset) \div 2) - Offset
  BY DEF DaysBack, StartOfDay, DayOf
<1>3. \A n, w : n \in Nat /\ w \in Nat \ {0} =>
        /\ 2 * ((n - 2 * (w - 1) + 0) \div 2) - 0 = 2 * (n \div 2) - 2 * (w - 1)
        /\ 2 * (n \div 2) - 2 * (w - 1) \in Int
        /\ 2 * (n \div 2) - 2 * (w - 1) - 2 * w \in Int
        /\ 2 * (n \div 2) - 2 * (w - 1) - 2 * w <= 2 * (n \div 2) - 2 * (w - 1)
        /\ 2 * (n \div 2) - 2 * (w - 1) <= n
  OBVIOUS
<1>4. From = 2 * (now \div 2) - 2 * (Window - 1)
  BY <1>1, <1>2, <1>3 DEF From
<1> QED BY <1>1, <1>3, <1>4 DEF PrevFrom, DayOf

(* The orders of the two windows.                                          *)
LEMMA WindowsAre ==
  /\ Current \in SUBSET Placed /\ Previous \in SUBSET Placed
  /\ Current \in SUBSET Orders /\ Previous \in SUBSET Orders
  /\ Since(Placed, PrevFrom) \in SUBSET Orders
  /\ Current = {o \in Placed : order[o].at >= From}
BY RowsFinite DEF Current, Previous, Since

(* The parts of the dashboard that are compared.                           *)
LEMMA DashboardParts ==
  /\ Dashboard.series = DailySeries /\ Dashboard.perStore = PerStore
  /\ Dashboard.orders.value = Cardinality(Current) /\ Dashboard.orders.previous = Cardinality(Previous)
  /\ Dashboard.gmv.value = Gross(Current)
  /\ Dashboard.newStores.value = Cardinality(SignedUp(From))
  /\ Dashboard.deliveredOrders.value = Cardinality(Realized(Current))
  /\ Dashboard.topStores = Leaderboard(DOMAIN PerStore, MoreSales)
  /\ Dashboard.mrr = Mrr(Active \cap WithPlan) /\ Dashboard.planMix = PlanMix(Active \cap WithPlan)
  /\ Dashboard.queue = ActionQueue /\ Dashboard.activeStores = CountIn(StoresByStatus, "ACTIVE")
BY DEF Dashboard

(* A time is of the window when its day is.                                *)
LEMMA WindowKeys ==
  ASSUME ReportsTypeOK, Offset = 0, NEW K, K = DayKeys(From, Window)
  PROVE  IsFiniteSet(K) /\ \A t \in 0..now : t >= From <=> DayKey(t) \in K
<1>1. now \in Nat /\ Window \in Nat \ {0}
  BY TimeNow, PlatformAssumption
<1>2. K = {DayOf(From + 2 * i) : i \in 0..Window - 1}
  BY DEF DayKeys, DayKey
<1>3. IsFiniteSet(K) /\ \A t \in 0..now : t >= From <=> DayOf(t) \in K
  <2>1. PICK from, n : from = From /\ n = Window
    OBVIOUS
  <2>2. now \in Nat /\ n \in Nat \ {0} /\ from = 2 * DayOf(now) - 2 * (n - 1)
    BY <1>1, <2>1, FromIs
  <2>3. \A d : d \in K <=> \E i \in 0..n - 1 : d = DayOf(from + 2 * i)
    BY <1>2, <2>1
  <2>4. IsFiniteSet(K) /\ \A t \in 0..now : t >= from <=> DayOf(t) \in K
    BY <2>2, <2>3, WindowDays
  <2> QED BY <2>1, <2>4
<1> QED BY <1>3 DEF DayKey

(* The daily series shares out the orders of the window.                   *)
LEMMA SeriesWhole ==
  ASSUME ReportsTypeOK, Offset = 0
  PROVE  OrdersIn(DailySeries) = Cardinality(Current) /\ GrossIn(DailySeries) = Gross(Current)
<1> DEFINE K == DayKeys(From, Window)
           part == [k \in K |-> {o \in Current : PlacedOn(o) = k}]
<1>1. IsFiniteSet(K) /\ \A t \in 0..now : t >= From <=> DayKey(t) \in K
  BY WindowKeys
<1>2. DOMAIN DailySeries = K
  BY DEF DailySeries
<1>3. \A k \in K : /\ DailySeries[k].orders = Cardinality(part[k])
                   /\ DailySeries[k].gross = Gross(part[k])
  BY DEF DailySeries
<1>4. \A o \in Current : PlacedOn(o) \in K
  <2> SUFFICES ASSUME NEW o \in Current PROVE PlacedOn(o) \in K
    OBVIOUS
  <2>1. order[o].at \in 0..now /\ order[o].at >= From
    BY WindowsAre, OrderRow
  <2> HIDE DEF K
  <2> QED BY <1>1, <2>1 DEF PlacedOn
<1> HIDE DEF K
<1>5. part \in [K -> SUBSET Orders] /\ \A k, l \in K : k # l => part[k] \cap part[l] = {}
  BY WindowsAre
<1>6. Current = UNION {part[k] : k \in K}
  BY <1>4
<1> HIDE DEF part
<1> QED BY <1>1, <1>2, <1>3, <1>5, <1>6, PartSales

(* And the stores that are new.                                            *)
LEMMA SignupsWhole ==
  ASSUME ReportsTypeOK, Offset = 0
  PROVE  Adding(DailySeries, LAMBDA v : v.stores) = Cardinality(SignedUp(From))
<1> DEFINE K == DayKeys(From, Window)
           part == [k \in K |-> {s \in SignedUp(PrevFrom) : DayKey(store[s].at) = k}]
<1>1. IsFiniteSet(K) /\ \A t \in 0..now : t >= From <=> DayKey(t) \in K
  BY WindowKeys
<1>2. DOMAIN DailySeries = K /\ \A k \in K : DailySeries[k].stores = Cardinality(part[k])
  BY DEF DailySeries
<1>3. \A t : /\ SignedUp(t) \in SUBSET Stores /\ SignedUp(t) \in SUBSET Registered
             /\ SignedUp(t) = {s \in Registered : store[s].at >= t}
  BY RowsFinite DEF SignedUp
<1>4. \A s \in Registered : store[s].at \in 0..now /\ store[s].at \in Int
  BY StoreRow
<1>5. PrevFrom \in Int /\ From \in Int /\ PrevFrom <= From
  BY FromIs
<1>6. \A s \in Registered : s \in SignedUp(From) <=> s \in SignedUp(PrevFrom) /\ DayKey(store[s].at) \in K
  <2> SUFFICES ASSUME NEW s \in Registered
               PROVE  s \in SignedUp(From) <=> s \in SignedUp(PrevFrom) /\ DayKey(store[s].at) \in K
    OBVIOUS
  <2>1. store[s].at >= From <=> DayKey(store[s].at) \in K
    <3> HIDE DEF K
    <3> QED BY <1>1, <1>4
  <2>2. store[s].at >= From => store[s].at >= PrevFrom
    <3>1. \A x, a, b \in Int : b <= a /\ x >= a => x >= b
      OBVIOUS
    <3> QED BY <1>4, <1>5, <3>1
  <2> HIDE DEF K
  <2> QED BY <1>3, <2>1, <2>2
<1> HIDE DEF K
<1>7. part \in [K -> SUBSET Stores] /\ \A k, l \in K : k # l => part[k] \cap part[l] = {}
  BY <1>3
<1>8. SignedUp(From) = UNION {part[k] : k \in K}
  <2>1. UNION {part[k] : k \in K} = {s \in SignedUp(PrevFrom) : DayKey(store[s].at) \in K}
    OBVIOUS
  <2> HIDE DEF part
  <2> QED BY <1>3, <1>6, <2>1
<1> HIDE DEF part
<1>9. SumFunction([k \in K |-> Cardinality(part[k])]) = Cardinality(SignedUp(From))
  BY <1>1, <1>7, <1>8, RowsFinite, PartCounts
<1>10. [k \in DOMAIN DailySeries |-> DailySeries[k].stores] = [k \in K |-> Cardinality(part[k])]
  BY <1>2
<1> QED BY <1>9, <1>10 DEF Adding

(* The sales of the window by store.                                       *)
LEMMA PerStoreIs ==
  /\ DOMAIN PerStore = {Facts[o].store : o \in Current}
  /\ \A s \in DOMAIN PerStore : PerStore[s] = Sales({o \in Current : Facts[o].store = s})
  /\ DOMAIN PerStore \in SUBSET Stores
<1>1. /\ DOMAIN PerStore = {Facts[o].store : o \in Current}
      /\ \A s \in DOMAIN PerStore : PerStore[s] = Sales({o \in Current : Facts[o].store = s})
  BY DEF PerStore, GroupBy
<1>2. \A o \in Current : Facts[o].store \in Stores
  BY WindowsAre, FactsOf
<1> QED BY <1>1, <1>2

(* They share out the orders of the window.                                *)
LEMMA PerStoreWhole ==
  OrdersIn(PerStore) = Cardinality(Current) /\ GrossIn(PerStore) = Gross(Current)
<1> DEFINE key == [o \in Current |-> Facts[o].store]
<1>1. {key[o] : o \in Current} = {Facts[o].store : o \in Current}
  OBVIOUS
<1>2. \A k : {o \in Current : key[o] = k} = {o \in Current : Facts[o].store = k}
  OBVIOUS
<1> HIDE DEF key
<1>3. DOMAIN PerStore = {key[o] : o \in Current}
      /\ \A k \in DOMAIN PerStore : PerStore[k] = Sales({o \in Current : key[o] = k})
  BY <1>1, <1>2, PerStoreIs
<1>4. Current \in SUBSET Orders
  BY WindowsAre
<1> QED BY <1>3, <1>4, SalesByWhole

(* And are integers, so the leaderboard can compare them.                  *)
LEMMA PerStoreNumbers ==
  ASSUME NEW s \in DOMAIN PerStore
  PROVE  PerStore[s].gross \in Int /\ PerStore[s].orders \in Int
<1>1. {o \in Current : Facts[o].store = s} \in SUBSET Orders
  BY WindowsAre
<1>2. \A S \in SUBSET Orders : Sales(S).gross \in Int /\ Sales(S).orders \in Int
  BY GrossIs, RowsFinite DEF Sales
<1> QED BY <1>1, <1>2, PerStoreIs

(* Of the stores of the leaderboard none sold less than one left out. *)
LEMMA LeadersLead ==
  LET top == Leaderboard(DOMAIN PerStore, MoreSales)
  IN  \A s \in DOMAIN PerStore \ Range(top), u \in Range(top) : PerStore[u].gross >= PerStore[s].gross
<1> DEFINE S == DOMAIN PerStore
           n == Cardinality(S)
           f == [s \in S |-> PerStore[s].gross]
           g == [s \in S |-> PerStore[s].orders]
           more == {p \in S \X S : MoreSales(p[1], p[2])}
           l == Sorted(S, MoreSales)
           top == Leaderboard(S, MoreSales)
<1>1. IsFiniteSet(S) /\ n \in Nat
  BY PerStoreIs, RowsFinite
<1>2. f \in [S -> Int] /\ g \in [S -> Int]
  BY PerStoreNumbers
<1>3. RankedBy(S, f, g, more)
  BY DEF MoreSales, RankedBy
<1>4. PICK k : ListedBy(S, more, k)
  <2> HIDE DEF S, f, g, more
  <2> QED BY <1>1, <1>2, <1>3, ListByTwo
<1>5. k \in [1..n -> S] /\ \A i, j \in 1..n : i < j => k[i] # k[j] /\ ~ MoreSales(k[j], k[i])
  <2>1. k \in [1..n -> S] /\ \A i, j \in 1..n : i < j => k[i] # k[j] /\ <<k[j], k[i]>> \notin more
    BY <1>4 DEF ListedBy
  <2>2. \A i \in 1..n : k[i] \in S
    BY <2>1
  <2>3. \A i, j \in 1..n : <<k[j], k[i]>> \notin more => ~ MoreSales(k[j], k[i])
    BY <2>2
  <2> HIDE DEF more, S, n
  <2> QED BY <2>1, <2>3
<1>6. l = CHOOSE h \in [1..n -> S] : \A i, j \in 1..n : i < j => h[i] # h[j] /\ ~ MoreSales(h[j], h[i])
  BY DEF Sorted
<1>7. l \in [1..n -> S] /\ \A i, j \in 1..n : i < j => l[i] # l[j] /\ ~ MoreSales(l[j], l[i])
  <2> HIDE DEF l, n, S
  <2> QED BY <1>5, <1>6
<1>8. l \in Bijection(1..n, S)
  <2> HIDE DEF l, S
  <2> QED BY <1>1, <1>7, ListIsBijection
<1>9. top = [i \in {j \in DOMAIN l : j <= Top} |-> l[i]]
  BY DEF Leaderboard
<1>10. DOMAIN l = 1..n /\ Top \in Nat
  BY <1>7, PlatformAssumption
<1> HIDE DEF l, S, n, top
<1>11. ASSUME NEW s \in S \ Range(top), NEW u \in Range(top) PROVE ~ MoreSales(s, u) /\ u \in S
  <2>1. PICK i \in 1..n : i <= Top /\ u = l[i]
    BY <1>9, <1>10 DEF Range
  <2>2. PICK j \in 1..n : s = l[j]
    BY <1>8 DEF Bijection, Surjection
  <2>3. ~ (j <= Top)
    BY <1>9, <1>10, <2>2 DEF Range
  <2>4. i < j
    BY <1>1, <1>10, <2>1, <2>3
  <2> QED BY <1>7, <2>1, <2>2, <2>4
<1>12. \A s \in S \ Range(top), u \in Range(top) : PerStore[u].gross >= PerStore[s].gross
  <2> SUFFICES ASSUME NEW s \in S \ Range(top), NEW u \in Range(top)
               PROVE  PerStore[u].gross >= PerStore[s].gross
    OBVIOUS
  <2>1. ~ (PerStore[s].gross > PerStore[u].gross) /\ u \in S
    BY <1>11 DEF MoreSales
  <2>2. PerStore[s].gross \in Int /\ PerStore[u].gross \in Int
    BY <2>1, PerStoreNumbers DEF S
  <2> QED BY <2>1, <2>2
<1> QED BY <1>12 DEF S, top

(* The two windows share no order and miss none between them.              *)
LEMMA WindowsShare ==
  ASSUME ReportsTypeOK, Offset = 0
  PROVE  Cardinality(Current) + Cardinality(Previous) = Cardinality(Since(Placed, PrevFrom))
<1>1. Current \subseteq Since(Placed, PrevFrom)
  <2>1. ASSUME NEW o \in Current PROVE o \in Since(Placed, PrevFrom)
    <3>1. o \in Placed /\ order[o].at >= From
      BY <2>1, WindowsAre
    <3>2. order[o].at \in Int /\ From \in Int /\ PrevFrom \in Int /\ PrevFrom <= From
      BY <3>1, OrderRow, FromIs
    <3>3. \A x, a, b \in Int : b <= a /\ x >= a => x >= b
      OBVIOUS
    <3>4. order[o].at >= PrevFrom
      BY <3>1, <3>2, <3>3
    <3> QED BY <3>1, <3>4 DEF Since
  <2> QED BY <2>1
<1>2. Since(Placed, PrevFrom) = Current \cup Previous /\ Current \cap Previous = {}
  BY <1>1 DEF Previous
<1> QED BY <1>2, RowsFinite, WindowsAre, CardUnion

(* The dashboard adds up.                                                  *)
LEMMA DashboardWhole ==
  ASSUME ReportsTypeOK, Offset = 0
  PROVE  DashboardAddsUp
<1>1. Dashboard.orders.value + Dashboard.orders.previous = Cardinality(Since(Placed, PrevFrom))
  BY DashboardParts, WindowsShare
<1>2. Cardinality(Realized(Current)) <= Cardinality(Current)
  <2>1. Realized(Current) \subseteq Current /\ IsFiniteSet(Current)
    BY WindowsAre, RowsFinite DEF Realized, Having
  <2> QED BY <2>1, FS_Subset
<1>3. /\ OrdersIn(Dashboard.series) = Dashboard.orders.value
      /\ OrdersIn(Dashboard.perStore) = Dashboard.orders.value
      /\ GrossIn(Dashboard.series) = Dashboard.gmv.value
      /\ GrossIn(Dashboard.perStore) = Dashboard.gmv.value
  BY DashboardParts, SeriesWhole, PerStoreWhole
<1>4. Adding(Dashboard.series, LAMBDA v : v.stores) = Dashboard.newStores.value
  <2>1. Dashboard.series = DailySeries /\ Dashboard.newStores.value = Cardinality(SignedUp(From))
    BY DashboardParts
  <2>2. Adding(Dashboard.series, LAMBDA v : v.stores) = Adding(DailySeries, LAMBDA v : v.stores)
    BY <2>1
  <2> QED BY <2>1, <2>2, SignupsWhole
<1>5. \A s \in DOMAIN Dashboard.perStore \ Range(Dashboard.topStores), u \in Range(Dashboard.topStores) :
        Dashboard.perStore[u].gross >= Dashboard.perStore[s].gross
  BY DashboardParts, LeadersLead
<1>6. Dashboard.deliveredOrders.value <= Dashboard.orders.value
  BY <1>2, DashboardParts
<1> QED BY <1>1, <1>3, <1>4, <1>5, <1>6 DEF DashboardAddsUp

-----------------------------------------------------------------------------
(* Reports of each other: sales by store and by customer, lists, plans.    *)

(* The orders of a store.                                                  *)
LEMMA StoreOrders ==
  /\ \A s : OrdersOfStore(s) = {o \in Placed : Facts[o].store = s}
  /\ \A s : OrdersOfStore(s) \in SUBSET Placed /\ OrdersOfStore(s) \in SUBSET Orders
BY RowsFinite DEF OrdersOfStore

(* The parts of the analytics that are compared.                           *)
LEMMA AnalyticsParts ==
  /\ Analytics.grossSales = SumFunction([s \in {Facts[o].store : o \in Realized(Placed)} |-> StoreGross(s)])
  /\ Analytics.orders = Cardinality(Placed)
  /\ Analytics.pendingStores = CountIn(StoresByStatus, "PENDING")
BY DEF Analytics

(* Gross sales, store by store: of those that sold, and of all of them. *)
LEMMA GrossByStore ==
  ASSUME ReportsTypeOK
  PROVE  Analytics.grossSales = Gross(Placed) /\ GrossAllTime = Gross(Placed)
<1>1. /\ Placed \in SUBSET Orders /\ IsFiniteSet(Orders) /\ IsFiniteSet(Registered)
      /\ Realized(Placed) \in SUBSET Placed /\ IsFiniteSet(Realized(Placed))
  BY RowsFinite, FS_Subset DEF Realized, Having
<1> DEFINE K == {Facts[o].store : o \in Realized(Placed)}
           part == [k \in K |-> OrdersOfStore(k)]
           W == UNION {part[k] : k \in K}
           col == [o \in Realized(Placed) |-> Facts[o].store]
           all == [k \in Registered |-> OrdersOfStore(k)]
<1>2. IsFiniteSet(K)
  <2>1. K = {col[o] : o \in Realized(Placed)}
    OBVIOUS
  <2> HIDE DEF K, col
  <2> QED BY <1>1, <2>1, KeysFinite
<1>3. \A o \in Realized(Placed) : Facts[o].store \in K
  OBVIOUS
<1> HIDE DEF K
<1>4. part \in [K -> SUBSET Orders] /\ \A k, l \in K : k # l => part[k] \cap part[l] = {}
  BY StoreOrders
<1>5. W \in SUBSET Placed
  BY StoreOrders
<1>6. Realized(W) = Realized(Placed)
  <2>1. \A o \in Realized(Placed) : o \in W
    BY <1>1, <1>3, StoreOrders
  <2> HIDE DEF W
  <2> QED BY <1>1, <1>5, <2>1 DEF Realized, Having
<1>7. SumFunction([k \in K |-> Gross(part[k])]) = Gross(W)
  <2>1. W = UNION {part[k] : k \in K}
    OBVIOUS
  <2> HIDE DEF W, part
  <2> QED BY <1>2, <1>4, <2>1, PartGross
<1>8. Gross(W) = Gross(Placed)
  <2> HIDE DEF W
  <2>1. W \in SUBSET Orders
    BY <1>1, <1>5
  <2> QED BY <1>1, <1>6, <2>1, GrossIs
<1>9. Analytics.grossSales = SumFunction([k \in K |-> Gross(part[k])])
  <2>1. [k \in K |-> Gross(part[k])] = [k \in K |-> StoreGross(k)]
    BY DEF StoreGross
  <2> HIDE DEF part
  <2> QED BY <2>1, AnalyticsParts DEF K
<1>10. Placed = UNION {all[k] : k \in Registered}
  <2>1. \A o \in Placed : Facts[o].store \in Registered
    BY DEF ReportsTypeOK
  <2> QED BY <2>1, StoreOrders
<1>11. all \in [Registered -> SUBSET Orders] /\ \A k, l \in Registered : k # l => all[k] \cap all[l] = {}
  BY StoreOrders
<1>12. GrossAllTime = SumFunction([k \in Registered |-> Gross(all[k])])
  <2>1. [k \in Registered |-> Gross(all[k])] = [k \in Registered |-> StoreGross(k)]
    BY DEF StoreGross
  <2> HIDE DEF all
  <2> QED BY <2>1 DEF GrossAllTime
<1>13. SumFunction([k \in Registered |-> Gross(all[k])]) = Gross(Placed)
  <2> HIDE DEF all
  <2> QED BY <1>1, <1>10, <1>11, PartGross
<1> QED BY <1>7, <1>8, <1>9, <1>12, <1>13

(* A customer's figures are of his orders.                                 *)
LEMMA StatsAre ==
  ASSUME NEW S \in SUBSET Placed, NEW x \in Customers
  PROVE  LET mine == {o \in S : Facts[o].customer = x}
         IN  /\ DOMAIN StatsOf(S) = Customers
             /\ StatsOf(S)[x].orders = Cardinality(mine) /\ StatsOf(S)[x].gross = Gross(mine)
             /\ mine # {} => StatsOf(S)[x].lastOrderAt = Max({order[o].at : o \in mine})
<1> DEFINE mine == {o \in S : Facts[o].customer = x}
           T == {o \in S : Facts[o].customer # Nobody}
           g == GroupBy(T, LAMBDA o : Facts[o].customer)
<1>1. x # Nobody
  BY ReportAssumption
<1>2. DOMAIN g = {Facts[o].customer : o \in T}
      /\ \A c \in DOMAIN g : g[c] = {o \in T : Facts[o].customer = c}
  BY DEF GroupBy
<1>3. x \in DOMAIN g <=> mine # {}
  <2> HIDE DEF g
  <2> QED BY <1>1, <1>2
<1>4. x \in DOMAIN g => g[x] = mine
  <2> HIDE DEF g
  <2> QED BY <1>1, <1>2
<1>5. DOMAIN StatsOf(S) = Customers
      /\ StatsOf(S)[x] = IF x \in DOMAIN g
        THEN [orders |-> Cardinality(g[x]), gross |-> Gross(g[x]),
              lastOrderAt |-> Max({order[o].at : o \in g[x]})]
        ELSE [orders |-> 0, gross |-> 0, lastOrderAt |-> -1]
  BY DEF StatsOf
<1>6. CASE x \in DOMAIN g
  <2>1. StatsOf(S)[x] = [orders |-> Cardinality(mine), gross |-> Gross(mine),
                         lastOrderAt |-> Max({order[o].at : o \in mine})]
    <3> HIDE DEF g, mine
    <3> QED BY <1>4, <1>5, <1>6
  <2> QED BY <1>5, <2>1
<1>7. CASE x \notin DOMAIN g
  <2>1. mine = {}
    BY <1>3, <1>7
  <2> HIDE DEF g, mine
  <2>2. Cardinality(mine) = 0 /\ Gross(mine) = 0
    BY <2>1, FS_EmptySet, GrossOfNone
  <2>3. StatsOf(S)[x] = [orders |-> 0, gross |-> 0, lastOrderAt |-> -1]
    BY <1>5, <1>7
  <2>4. DOMAIN StatsOf(S) = Customers /\ StatsOf(S)[x].orders = Cardinality(mine) /\ StatsOf(S)[x].gross = Gross(mine)
        /\ (mine # {} => StatsOf(S)[x].lastOrderAt = Max({order[o].at : o \in mine}))
    BY <1>5, <2>1, <2>2, <2>3
  <2> QED BY <2>4 DEF mine
<1> QED BY <1>6, <1>7

(* The customers' figures and the guests' orders are all there is. *)
LEMMA StatsWhole ==
  ASSUME ReportsTypeOK
  PROVE  LET guests == {o \in Placed : Facts[o].customer = Nobody}
         IN  /\ GrossIn(CustomerStats) + Gross(guests) = Gross(Placed)
             /\ OrdersIn(CustomerStats) + Cardinality(guests) = Cardinality(Placed)
<1> DEFINE guests == {o \in Placed : Facts[o].customer = Nobody}
           known == {o \in Placed : Facts[o].customer # Nobody}
           part == [x \in Customers |-> {o \in Placed : Facts[o].customer = x}]
           C == CustomerStats
<1>1. Placed \in SUBSET Orders /\ guests \in SUBSET Orders /\ known \in SUBSET Orders
      /\ known \cap guests = {} /\ known \cup guests = Placed
  BY RowsFinite
<1>2. C = StatsOf(Placed) /\ Placed \in SUBSET Placed
  BY DEF CustomerStats
<1>3. DOMAIN StatsOf(Placed) = Customers
  BY DEF StatsOf
<1>4. \A x \in Customers : C[x].orders = Cardinality(part[x]) /\ C[x].gross = Gross(part[x])
  <2> TAKE x \in Customers
  <2>1. /\ StatsOf(Placed)[x].orders = Cardinality({o \in Placed : Facts[o].customer = x})
        /\ StatsOf(Placed)[x].gross = Gross({o \in Placed : Facts[o].customer = x})
    BY <1>2, StatsAre
  <2>2. part[x] = {o \in Placed : Facts[o].customer = x}
    OBVIOUS
  <2> HIDE DEF part, C
  <2> QED BY <1>2, <2>1, <2>2
<1>5. part \in [Customers -> SUBSET Orders] /\ \A k, l \in Customers : k # l => part[k] \cap part[l] = {}
  BY <1>1
<1>6. known = UNION {part[x] : x \in Customers}
  <2>1. \A o \in Placed : Facts[o].customer \in Customers \cup {Nobody}
    BY <1>1, FactsOf
  <2>2. Nobody \notin Customers
    BY ReportAssumption
  <2> QED BY <2>1, <2>2
<1> HIDE DEF part, C, known, guests
<1>7. OrdersIn(C) = Cardinality(known) /\ GrossIn(C) = Gross(known)
  <2>1. DOMAIN C = Customers
    BY <1>2, <1>3
  <2> QED BY <1>4, <1>5, <1>6, <2>1, RowsFinite, PartSales
<1>8. Gross(known \cup guests) = Gross(known) + Gross(guests)
  BY <1>1, GrossUnion
<1>9. Cardinality(known \cup guests) = Cardinality(known) + Cardinality(guests)
  BY <1>1, RowsFinite, CardUnion
<1> QED BY <1>1, <1>7, <1>8, <1>9 DEF C, guests

(* The stores share out any orders.                                        *)
LEMMA OrdersByStore ==
  ASSUME ReportsTypeOK, NEW S \in SUBSET Placed,
         NEW G, DOMAIN G = Registered,
         \A s \in Registered : G[s] = Cardinality({o \in S : Facts[o].store = s})
  PROVE  SumFunction([s \in Registered |-> G[s]]) = Cardinality(S)
<1> DEFINE part == [s \in Registered |-> {o \in S : Facts[o].store = s}]
<1>1. S \in SUBSET Orders /\ IsFiniteSet(Orders) /\ IsFiniteSet(Registered)
  BY RowsFinite, FS_Subset
<1>2. part \in [Registered -> SUBSET Orders] /\ \A k, l \in Registered : k # l => part[k] \cap part[l] = {}
  BY <1>1
<1>3. S = UNION {part[s] : s \in Registered}
  <2>1. \A o \in S : Facts[o].store \in Registered
    BY DEF ReportsTypeOK
  <2> QED BY <2>1
<1>4. [s \in Registered |-> G[s]] = [s \in Registered |-> Cardinality(part[s])]
  OBVIOUS
<1> HIDE DEF part
<1> QED BY <1>1, <1>2, <1>3, <1>4, PartCounts

(* The list of orders, newest first. *)
LEMMA NewestIs ==
  ASSUME ReportsTypeOK, NEW S \in SUBSET Placed
  PROVE  LET n == Cardinality(S)
             l == Newest(S)
         IN  /\ n \in Nat /\ l \in Bijection(1..n, S)
             /\ \A i, j \in 1..n : i < j => ~ (order[l[j]].at > order[l[i]].at)
<1> DEFINE n == Cardinality(S)
           f == [o \in S |-> order[o].at]
           g == [o \in S |-> 0]
           newer == {p \in S \X S : order[p[1]].at > order[p[2]].at}
           l == Newest(S)
           ok(k) == \A i, j \in 1..n : i < j => k[i] # k[j] /\ ~ (order[k[j]].at > order[k[i]].at)
<1>1. S \in SUBSET Orders /\ IsFiniteSet(S) /\ n \in Nat
  BY RowsFinite
<1>2. f \in [S -> Int] /\ g \in [S -> Int]
  BY OrderRow
<1>3. RankedBy(S, f, g, newer)
  BY DEF RankedBy
<1>4. PICK k : ListedBy(S, newer, k)
  <2> HIDE DEF f, g, newer
  <2> QED BY <1>1, <1>2, <1>3, ListByTwo
<1>5. k \in [1..n -> S] /\ ok(k)
  <2>1. k \in [1..n -> S] /\ \A i, j \in 1..n : i < j => k[i] # k[j] /\ <<k[j], k[i]>> \notin newer
    BY <1>4 DEF ListedBy
  <2>2. \A i \in 1..n : k[i] \in S
    BY <2>1
  <2>3. \A i, j \in 1..n : <<k[j], k[i]>> \notin newer => ~ (order[k[j]].at > order[k[i]].at)
    BY <2>2
  <2> HIDE DEF newer, n
  <2> QED BY <2>1, <2>3
<1>6. l = CHOOSE h \in [1..n -> S] : ok(h)
  BY DEF Newest, Sorted
<1>7. l \in [1..n -> S] /\ ok(l)
  <2> HIDE DEF l, n, ok
  <2> QED BY <1>5, <1>6
<1>8. l \in Bijection(1..n, S)
  <2> HIDE DEF l
  <2> QED BY <1>1, <1>7, ListIsBijection
<1> HIDE DEF l, n
<1> QED BY <1>1, <1>7, <1>8 DEF l, n

(* As many rows as orders; and the first is of the latest time. *)
LEMMA NewestFirst ==
  ASSUME ReportsTypeOK, NEW S \in SUBSET Placed
  PROVE  /\ Cardinality(DOMAIN Newest(S)) = Cardinality(S)
         /\ S # {} => order[Newest(S)[1]].at = Max({order[o].at : o \in S})
<1> DEFINE n == Cardinality(S)
           l == Newest(S)
           T == {order[o].at : o \in S}
<1>1. /\ n \in Nat /\ l \in Bijection(1..n, S)
      /\ \A i, j \in 1..n : i < j => ~ (order[l[j]].at > order[l[i]].at)
  BY NewestIs
<1>2. DOMAIN l = 1..n /\ l \in [1..n -> S] /\ \A o \in S : \E i \in 1..n : l[i] = o
  <2> HIDE DEF l, n
  <2> QED BY <1>1 DEF Bijection, Injection, Surjection
<1> HIDE DEF l, n
<1>3. Cardinality(1..n) = n
  <2>1. Cardinality(1..n) = IF 1 > n THEN 0 ELSE n - 1 + 1
    BY <1>1, FS_Interval
  <2> QED BY <1>1, <2>1
<1>4. \A o \in S : order[o].at \in Int
  BY OrderRow
<1>5. ASSUME S # {} PROVE order[l[1]].at = Max(T)
  <2>1. PICK o \in S : TRUE
    BY <1>5
  <2>2. 1 \in 1..n
    BY <1>1, <1>2, <2>1
  <2>3. l[1] \in S
    BY <1>2, <2>2
  <2>4. ASSUME NEW t \in T PROVE t <= order[l[1]].at
    <3>1. PICK p \in S : t = order[p].at
      BY <2>4
    <3>2. PICK i \in 1..n : l[i] = p
      BY <1>2
    <3>3. ~ (order[p].at > order[l[1]].at)
      <4>1. CASE i = 1
        BY <1>4, <2>3, <3>2, <4>1
      <4>2. CASE i # 1
        <5>1. 1 < i
          BY <1>1, <4>2
        <5> QED BY <1>1, <2>2, <3>2, <5>1
      <4> QED BY <4>1, <4>2
    <3> QED BY <1>4, <2>3, <3>1, <3>3
  <2> PICK m : m = order[l[1]].at
    OBVIOUS
  <2>5. m \in T /\ m \in Int /\ (\A t \in T : t <= m) /\ \A t \in T : t \in Int
    BY <1>4, <2>3, <2>4
  <2> HIDE DEF T
  <2>6. Max(T) \in T /\ \A t \in T : Max(T) >= t
    <3>1. \E x \in T : \A y \in T : x >= y
      BY <2>5
    <3> QED BY <3>1 DEF Max
  <2>7. Max(T) = m
    <3> PICK a : a = Max(T)
      OBVIOUS
    <3>1. a \in Int /\ m \in Int /\ a >= m /\ a <= m
      BY <2>5, <2>6
    <3> QED BY <3>1
  <2> QED BY <2>7
<1> QED BY <1>2, <1>3, <1>5 DEF l, n

(* A customer's list has the orders his figures count.                     *)
LEMMA CustomerPages ==
  ASSUME ReportsTypeOK, NEW x \in Customers
  PROVE  /\ Cardinality(DOMAIN CustomerPage(x).orders) = CustomerStats[x].orders
         /\ CustomerStats[x].orders > 0 => order[CustomerPage(x).orders[1]].at = CustomerStats[x].lastOrderAt
         /\ SumFunction([s \in Registered |-> Cardinality(DOMAIN StoreCustomerPage(s, x).orders)])
              = CustomerStats[x].orders
<1> DEFINE mine == {o \in Placed : Facts[o].customer = x}
           l == CustomerPage(x).orders
<1>1. l = Newest(mine)
  BY DEF CustomerPage, HistoryOf
<1>2. mine \in SUBSET Placed /\ Placed \in SUBSET Placed
  OBVIOUS
<1>3. /\ CustomerStats[x].orders = Cardinality(mine)
      /\ mine # {} => CustomerStats[x].lastOrderAt = Max({order[o].at : o \in mine})
  <2>1. /\ StatsOf(Placed)[x].orders = Cardinality(mine)
        /\ mine # {} => StatsOf(Placed)[x].lastOrderAt = Max({order[o].at : o \in mine})
    BY <1>2, StatsAre
  <2> HIDE DEF mine
  <2> QED BY <2>1 DEF CustomerStats
<1>4. /\ Cardinality(DOMAIN Newest(mine)) = Cardinality(mine)
      /\ mine # {} => order[Newest(mine)[1]].at = Max({order[o].at : o \in mine})
  <2> HIDE DEF mine
  <2> QED BY <1>2, NewestFirst
<1>5. CustomerStats[x].orders > 0 => mine # {}
  <2>1. Cardinality({}) = 0
    BY FS_EmptySet
  <2> HIDE DEF mine
  <2> QED BY <1>3, <2>1
<1> DEFINE G == [s \in Registered |-> Cardinality(DOMAIN StoreCustomerPage(s, x).orders)]
<1>6. \A s \in Registered : G[s] = Cardinality({o \in mine : Facts[o].store = s})
  <2> TAKE s \in Registered
  <2>1. StoreCustomerPage(s, x).orders = Newest({o \in OrdersOfStore(s) : Facts[o].customer = x})
    BY DEF StoreCustomerPage, HistoryOf
  <2>2. {o \in OrdersOfStore(s) : Facts[o].customer = x} = {o \in mine : Facts[o].store = s}
    BY StoreOrders
  <2>3. {o \in mine : Facts[o].store = s} \in SUBSET Placed
    OBVIOUS
  <2>4. Cardinality(DOMAIN Newest({o \in mine : Facts[o].store = s})) = Cardinality({o \in mine : Facts[o].store = s})
    <3> PICK T : T = {o \in mine : Facts[o].store = s}
      OBVIOUS
    <3>1. Cardinality(DOMAIN Newest(T)) = Cardinality(T)
      BY <2>3, NewestFirst
    <3> QED BY <3>1
  <2> HIDE DEF mine
  <2> QED BY <2>1, <2>2, <2>4
<1>7. DOMAIN G = Registered /\ G = [s \in Registered |-> G[s]]
  OBVIOUS
<1>8. SumFunction(G) = Cardinality(mine)
  <2> HIDE DEF G, mine
  <2>1. SumFunction([s \in Registered |-> G[s]]) = Cardinality(mine)
    BY <1>2, <1>6, <1>7, OrdersByStore
  <2> QED BY <1>7, <2>1
<1> HIDE DEF mine
<1> QED BY <1>1, <1>3, <1>4, <1>5, <1>8 DEF G, l

StoreRank(s) == StatusRank[store[s].status]
ListedBefore(s, u) == StoreRank(s) < StoreRank(u) \/ (StoreRank(s) = StoreRank(u) /\ store[s].at > store[u].at)
StoresInOrder ==
  CHOOSE k \in [1..Cardinality(Registered) -> Registered] :
    \A i, j \in 1..Cardinality(Registered) : i < j => k[i] # k[j] /\ ~ ListedBefore(k[j], k[i])

(* The list of stores, its order by name.                                  *)
LEMMA StoreListIs ==
  StoreList = [i \in DOMAIN StoresInOrder |->
                 [store |-> StoresInOrder[i], orders |-> Cardinality(OrdersOfStore(StoresInOrder[i]))]]
BY DEF StoreList, Sorted, StoresInOrder, ListedBefore, StoreRank

(* The list of stores counts every order once. *)
LEMMA StoreListWhole ==
  ASSUME ReportsTypeOK
  PROVE  OrdersIn(StoreList) = Cardinality(Placed)
<1> DEFINE S == Registered
           n == Cardinality(S)
           f == [s \in S |-> 0 - StoreRank(s)]
           g == [s \in S |-> store[s].at]
           earlier == {p \in S \X S : ListedBefore(p[1], p[2])}
           l == StoresInOrder
           ok(k) == \A i, j \in 1..n : i < j => k[i] # k[j] /\ ~ ListedBefore(k[j], k[i])
           count == [s \in S |-> Cardinality({o \in Placed : Facts[o].store = s})]
<1>1. IsFiniteSet(S) /\ n \in Nat
  BY RowsFinite
<1>2. \A s \in S : StoreRank(s) \in Int /\ store[s].at \in Int
  BY StoreRow DEF StoreRank, StatusRank, LifeStatuses
<1>3. f \in [S -> Int] /\ g \in [S -> Int]
  BY <1>2
<1>4. RankedBy(S, f, g, earlier)
  <2> SUFFICES ASSUME NEW a \in S, NEW b \in S, ListedBefore(a, b)
               PROVE  f[a] > f[b] \/ (f[a] = f[b] /\ g[a] > g[b])
    BY DEF RankedBy
  <2> QED BY <1>2 DEF ListedBefore
<1>5. PICK k : ListedBy(S, earlier, k)
  <2> HIDE DEF S, f, g, earlier
  <2> QED BY <1>1, <1>3, <1>4, ListByTwo
<1>6. k \in [1..n -> S] /\ ok(k)
  <2>1. k \in [1..n -> S] /\ \A i, j \in 1..n : i < j => k[i] # k[j] /\ <<k[j], k[i]>> \notin earlier
    BY <1>5 DEF ListedBy
  <2>2. \A i \in 1..n : k[i] \in S
    BY <2>1
  <2>3. \A i, j \in 1..n : <<k[j], k[i]>> \notin earlier => ~ ListedBefore(k[j], k[i])
    BY <2>2
  <2> HIDE DEF earlier, n, S
  <2> QED BY <2>1, <2>3
<1>7. l = CHOOSE h \in [1..n -> S] : ok(h)
  BY DEF StoresInOrder
<1>8. l \in [1..n -> S] /\ ok(l)
  <2> HIDE DEF l, n, ok, S
  <2> QED BY <1>6, <1>7
<1>9. l \in Bijection(1..n, S)
  <2> HIDE DEF l, S
  <2> QED BY <1>1, <1>8, ListIsBijection
<1>10. count \in [S -> Int]
  <2>1. \A s \in S : {o \in Placed : Facts[o].store = s} \in SUBSET Orders
    BY RowsFinite
  <2> QED BY <2>1, RowsFinite
<1>11. SumOver(count, S) = Cardinality(Placed)
  <2>1. Placed \in SUBSET Placed /\ DOMAIN count = Registered
        /\ \A s \in Registered : count[s] = Cardinality({o \in Placed : Facts[o].store = s})
    OBVIOUS
  <2> HIDE DEF count
  <2>2. SumFunction([s \in Registered |-> count[s]]) = Cardinality(Placed)
    BY <2>1, OrdersByStore
  <2> QED BY <2>2 DEF SumOver
<1>12. SumOver([i \in 1..n |-> count[l[i]]], 1..n) = SumOver(count, S)
  <2>1. IsFiniteSet(1..n)
    BY <1>1, FS_Interval
  <2> HIDE DEF count, l, n, S
  <2> QED BY <1>1, <1>9, <1>10, <2>1, SumAlong
<1>13. OrdersIn(StoreList) = SumOver([i \in 1..n |-> count[l[i]]], 1..n)
  <2>1. \A i \in 1..n : Cardinality(OrdersOfStore(l[i])) = count[l[i]]
    <3>1. \A i \in 1..n : l[i] \in S
      <4> HIDE DEF l, n, S
      <4> QED BY <1>8
    <3> HIDE DEF l, n
    <3> QED BY <3>1 DEF OrdersOfStore
  <2> HIDE DEF count, l, n
  <2>2. DOMAIN StoreList = 1..n /\ \A i \in 1..n : StoreList[i].orders = count[l[i]]
    <3>1. DOMAIN l = 1..n
      BY <1>8
    <3>2. StoreList = [i \in DOMAIN l |-> [store |-> l[i], orders |-> Cardinality(OrdersOfStore(l[i]))]]
      BY StoreListIs DEF l
    <3> QED BY <2>1, <3>1, <3>2
  <2>3. [i \in DOMAIN StoreList |-> StoreList[i].orders] = [i \in 1..n |-> count[l[i]]]
    BY <2>2
  <2>4. [i \in 1..n |-> count[l[i]]] = [i \in 1..n |-> [j \in 1..n |-> count[l[j]]][i]]
    OBVIOUS
  <2> QED BY <2>3, <2>4 DEF OrdersIn, Adding, SumOver
<1> QED BY <1>11, <1>12, <1>13

(* The merchant's range is the dashboard's window, of one store. *)
LEMMA RangeIsWindow ==
  ASSUME ReportsTypeOK, Offset = 0, RangeDays = Window
  PROVE  \A s : InRange(s) = {o \in Current : Facts[o].store = s}
<1>1. now \in Nat /\ now + Offset = now
  BY TimeNow
<1>2. StartOfDay(now) = 2 * DayOf(now)
  <2>1. DayOf(now) \in Int
    BY <1>1 DEF DayOf
  <2> QED BY <1>1, <2>1 DEF StartOfDay
<1>3. RangeStart = From
  BY <1>2, FromIs DEF RangeStart
<1> QED BY <1>3, InRangeIs, WindowsAre

(* The merchants' summaries make up the dashboard.                         *)
LEMMA MerchantsTogether ==
  ASSUME ReportsTypeOK, Offset = 0, RangeDays = Window
  PROVE  /\ SumFunction([s \in Registered |-> SalesSummary(s).revenue]) = Gross(Current)
         /\ \A s \in DOMAIN PerStore :
              PerStore[s] = [orders |-> SalesSummary(s).orders, gross |-> SalesSummary(s).revenue]
<1> DEFINE part == [s \in Registered |-> InRange(s)]
<1>1. \A s : SalesSummary(s).revenue = Gross(InRange(s)) /\ SalesSummary(s).orders = Cardinality(InRange(s))
  BY DEF SalesSummary
<1>2. \A s \in DOMAIN PerStore :
        PerStore[s] = [orders |-> SalesSummary(s).orders, gross |-> SalesSummary(s).revenue]
  <2> SUFFICES ASSUME NEW s \in DOMAIN PerStore
               PROVE  PerStore[s] = [orders |-> SalesSummary(s).orders, gross |-> SalesSummary(s).revenue]
    OBVIOUS
  <2>1. PerStore[s] = Sales(InRange(s))
    BY PerStoreIs, RangeIsWindow
  <2> QED BY <1>1, <2>1 DEF Sales
<1>3. part \in [Registered -> SUBSET Orders] /\ \A k, l \in Registered : k # l => part[k] \cap part[l] = {}
  <2>1. \A k, l \in Registered : k # l => InRange(k) \cap InRange(l) = {}
    BY RangeIsWindow
  <2> QED BY <2>1, InRangeIs
<1>4. Current = UNION {part[s] : s \in Registered}
  <2>1. \A o \in Current : Facts[o].store \in Registered
    BY WindowsAre DEF ReportsTypeOK
  <2> QED BY <2>1, RangeIsWindow
<1>5. [s \in Registered |-> SalesSummary(s).revenue] = [s \in Registered |-> Gross(part[s])]
  BY <1>1
<1>6. IsFiniteSet(Registered)
  BY RowsFinite
<1> HIDE DEF part
<1>7. SumFunction([s \in Registered |-> Gross(part[s])]) = Gross(Current)
  BY <1>3, <1>4, <1>6, PartGross
<1> QED BY <1>2, <1>5, <1>7

(* What a billed store pays by the month, as a column. *)
Billed == Active \cap WithPlan
MonthlyOf == [s \in Billed |-> Monthly(s)]

(* What the billed stores pay is the sum of a column.                      *)
LEMMA BilledIs ==
  ASSUME ReportsTypeOK
  PROVE  /\ Billed \in SUBSET Registered /\ IsFiniteSet(Billed)
         /\ MonthlyOf \in [Billed -> Int]
         /\ \A S \in SUBSET Billed : Mrr(S) = SumOver(MonthlyOf, S)
<1>1. Billed \in SUBSET Registered /\ IsFiniteSet(Billed)
  <2>1. Billed \in SUBSET Registered
    BY DEF Billed, Active
  <2> QED BY <2>1, RowsFinite
<1>2. MonthlyOf \in [Billed -> Int]
  <2>1. ASSUME NEW s \in Billed PROVE Monthly(s) \in Int
    <3>1. store[s].plan \in Plans
      BY <1>1, StoreRow DEF Billed, WithPlan
    <3>2. PriceOf[store[s].plan].yearly \in Nat /\ PriceOf[store[s].plan].monthly \in Nat
      BY <3>1, ReportAssumption
    <3> QED BY <3>2 DEF Monthly
  <2> QED BY <2>1 DEF MonthlyOf
<1>3. ASSUME NEW S \in SUBSET Billed PROVE Mrr(S) = SumOver(MonthlyOf, S)
  <2>1. [s \in S |-> Monthly(s)] = [s \in S |-> MonthlyOf[s]]
    BY DEF MonthlyOf
  <2> QED BY <2>1 DEF Mrr, SumOver
<1> QED BY <1>1, <1>2, <1>3

(* The plans share out the billed stores and what they pay. *)
LEMMA PlansWhole ==
  ASSUME ReportsTypeOK
  PROVE  /\ Adding(PlanMix(Billed), LAMBDA m : m.mrr) = Mrr(Billed)
         /\ Adding(PlanMix(Billed), LAMBDA m : m.stores) = Cardinality(Billed)
<1> DEFINE f == PlanMix(Billed)
           K == {store[s].plan : s \in Billed}
           part == [k \in K |-> {s \in Billed : store[s].plan = k}]
           col == [s \in Billed |-> store[s].plan]
<1>1. IsFiniteSet(Billed) /\ MonthlyOf \in [Billed -> Int]
  BY BilledIs
<1>2. IsFiniteSet(K)
  <2>1. K = {col[s] : s \in Billed}
    OBVIOUS
  <2> HIDE DEF K, col
  <2> QED BY <1>1, <2>1, KeysFinite
<1>3. DOMAIN f = K /\ \A k \in K : f[k].stores = Cardinality(part[k]) /\ f[k].mrr = Mrr(part[k])
  BY DEF PlanMix, GroupBy
<1>4. \A s \in Billed : store[s].plan \in K
  OBVIOUS
<1> HIDE DEF K
<1>5. part \in [K -> SUBSET Billed] /\ \A k, l \in K : k # l => part[k] \cap part[l] = {}
  OBVIOUS
<1>6. Billed = UNION {part[k] : k \in K}
  BY <1>4
<1> HIDE DEF part
<1>7. SumFunction([k \in K |-> Cardinality(part[k])]) = Cardinality(Billed)
  BY <1>1, <1>2, <1>5, <1>6, PartCounts
<1>8. SumFunction([k \in K |-> SumOver(MonthlyOf, part[k])]) = SumOver(MonthlyOf, Billed)
  BY <1>1, <1>2, <1>5, <1>6, PartSums
<1> HIDE DEF f
<1>9. [k \in DOMAIN f |-> f[k].stores] = [k \in K |-> Cardinality(part[k])]
  BY <1>3
<1>10. [k \in DOMAIN f |-> f[k].mrr] = [k \in K |-> SumOver(MonthlyOf, part[k])]
  <2>1. \A k \in K : f[k].mrr = SumOver(MonthlyOf, part[k])
    <3> TAKE k \in K
    <3>1. part[k] \in SUBSET Billed
      BY <1>5
    <3> QED BY <1>3, <3>1, BilledIs
  <2> QED BY <1>3, <2>1
<1>11. Mrr(Billed) = SumOver(MonthlyOf, Billed)
  BY BilledIs
<1> QED BY <1>7, <1>8, <1>9, <1>10, <1>11 DEF Adding, f

(* A billed store pays by the year or by the month.                        *)
LEMMA CycleWhole ==
  ASSUME ReportsTypeOK
  PROVE  PlatformReport.yearly + PlatformReport.monthly = Cardinality(Billed)
<1> DEFINE y == {s \in Billed : store[s].yearly}
           m == {s \in Billed : ~ store[s].yearly}
<1>1. PlatformReport.yearly = Cardinality(y) /\ PlatformReport.monthly = Cardinality(m)
  BY DEF PlatformReport, Billed
<1>2. y \in SUBSET Billed /\ m \in SUBSET Billed /\ y \cap m = {} /\ y \cup m = Billed
  OBVIOUS
<1> HIDE DEF y, m
<1>3. Cardinality(y \cup m) = Cardinality(y) + Cardinality(m)
  BY <1>2, BilledIs, CardUnion
<1> QED BY <1>1, <1>2, <1>3

(* The stores of a status. *)
LEMMA CountOfStatus ==
  ASSUME NEW st
  PROVE  CountIn(StoresByStatus, st) = Cardinality({s \in Registered : store[s].status = st})
<1> DEFINE T == {s \in Registered : store[s].status = st}
<1>1. /\ DOMAIN StoresByStatus = {store[s].status : s \in Registered}
      /\ \A k \in DOMAIN StoresByStatus :
           StoresByStatus[k] = Cardinality({s \in Registered : store[s].status = k})
  BY DEF StoresByStatus, CountBy, GroupBy
<1>2. CASE st \in DOMAIN StoresByStatus
  BY <1>1, <1>2 DEF CountIn
<1>3. CASE st \notin DOMAIN StoresByStatus
  <2>1. T = {}
    BY <1>1, <1>3
  <2>2. Cardinality(T) = 0
    BY <2>1, FS_EmptySet
  <2> QED BY <1>3, <2>2 DEF CountIn
<1> QED BY <1>2, <1>3

(* What is pending is in the queue.                                        *)
LEMMA PendingTold ==
  (Analytics.pendingStores > 0) = ("stores-pending" \in ActionQueue)
<1>1. "stores-pending" \in QueueRows
  BY DEF QueueRows
<1>2. QueueCounts["stores-pending"] = CountIn(StoresByStatus, "PENDING")
  BY <1>1 DEF QueueCounts
<1>3. ActionQueue = {k \in QueueRows : QueueCounts[k] > 0}
  BY DEF ActionQueue
<1> QED BY <1>1, <1>2, <1>3, AnalyticsParts

(* Stores without orders are among the active ones.                        *)
LEMMA DormantActive ==
  Cardinality(PlatformReport.dormant) <= Dashboard.activeStores
<1>1. PlatformReport.dormant = Dormant
  BY DEF PlatformReport
<1>2. Dormant \subseteq Active /\ Active \in SUBSET Stores
  BY RowsFinite DEF Dormant, Active
<1>3. Cardinality(Dormant) <= Cardinality(Active)
  BY <1>2, RowsFinite, FS_Subset
<1>4. Dashboard.activeStores = Cardinality(Active)
  BY DashboardParts, CountOfStatus DEF Active
<1> QED BY <1>1, <1>3, <1>4

(* The figures of different reports, of one state of the database. *)
LEMMA ReportsWhole ==
  ASSUME ReportsTypeOK, Offset = 0, RangeDays = Window
  PROVE  ReportsAgree
<1> DEFINE a == Analytics
           p == PlatformReport
           d == Dashboard
           c == CustomerStats
           guests == {o \in Placed : Facts[o].customer = Nobody}
<1>1. p.gross = GrossAllTime /\ p.mrr = Mrr(Billed)
  BY DEF PlatformReport, Billed
<1>2. a.grossSales = Gross(Placed) /\ p.gross = Gross(Placed) /\ a.orders = Cardinality(Placed)
  BY <1>1, GrossByStore, AnalyticsParts
<1>3. GrossIn(c) + Gross(guests) = Gross(Placed) /\ OrdersIn(c) + Cardinality(guests) = Cardinality(Placed)
  BY StatsWhole
<1>4. OrdersIn(StoreList) = Cardinality(Placed)
  BY StoreListWhole
<1>5. \A x \in Customers :
        /\ Cardinality(DOMAIN CustomerPage(x).orders) = c[x].orders
        /\ c[x].orders > 0 => order[CustomerPage(x).orders[1]].at = c[x].lastOrderAt
        /\ SumFunction([s \in Registered |->
             Cardinality(DOMAIN StoreCustomerPage(s, x).orders)]) = c[x].orders
  BY CustomerPages
<1>6. SumFunction([s \in Registered |-> SalesSummary(s).revenue]) = d.gmv.value
  BY MerchantsTogether, DashboardParts
<1>7. \A s \in DOMAIN d.perStore :
        d.perStore[s] = [orders |-> SalesSummary(s).orders, gross |-> SalesSummary(s).revenue]
  BY MerchantsTogether, DashboardParts
<1>8. d.mrr = Mrr(Billed) /\ d.planMix = PlanMix(Billed)
  BY DashboardParts DEF Billed
<1>9. d.mrr = p.mrr /\ Adding(d.planMix, LAMBDA m : m.mrr) = d.mrr
  <2>1. Adding(d.planMix, LAMBDA m : m.mrr) = Adding(PlanMix(Billed), LAMBDA m : m.mrr)
    BY <1>8
  <2> QED BY <1>1, <1>8, <2>1, PlansWhole
<1>10. p.yearly + p.monthly = Adding(d.planMix, LAMBDA m : m.stores)
  <2>1. Adding(d.planMix, LAMBDA m : m.stores) = Adding(PlanMix(Billed), LAMBDA m : m.stores)
    BY <1>8
  <2> QED BY <2>1, PlansWhole, CycleWhole
<1>11. (a.pendingStores > 0) = ("stores-pending" \in d.queue)
  BY PendingTold, DashboardParts
<1>12. Cardinality(p.dormant) <= d.activeStores
  BY DormantActive
<1>13. a.grossSales = p.gross /\ GrossIn(c) + Gross(guests) = a.grossSales
       /\ OrdersIn(c) + Cardinality(guests) = a.orders /\ OrdersIn(StoreList) = a.orders
  BY <1>2, <1>3, <1>4
<1> HIDE DEF a, p, d, c, guests
<1>14. ReportsAgree <=>
         /\ a.grossSales = p.gross
         /\ GrossIn(c) + Gross(guests) = a.grossSales
         /\ OrdersIn(c) + Cardinality(guests) = a.orders
         /\ OrdersIn(StoreList) = a.orders
         /\ \A x \in Customers :
              /\ Cardinality(DOMAIN CustomerPage(x).orders) = c[x].orders
              /\ c[x].orders > 0 => order[CustomerPage(x).orders[1]].at = c[x].lastOrderAt
              /\ SumFunction([s \in Registered |->
                   Cardinality(DOMAIN StoreCustomerPage(s, x).orders)]) = c[x].orders
         /\ SumFunction([s \in Registered |-> SalesSummary(s).revenue]) = d.gmv.value
         /\ \A s \in DOMAIN d.perStore :
              d.perStore[s] = [orders |-> SalesSummary(s).orders, gross |-> SalesSummary(s).revenue]
         /\ d.mrr = p.mrr /\ Adding(d.planMix, LAMBDA m : m.mrr) = d.mrr
         /\ p.yearly + p.monthly = Adding(d.planMix, LAMBDA m : m.stores)
         /\ (a.pendingStores > 0) = ("stores-pending" \in d.queue)
         /\ Cardinality(p.dormant) <= d.activeStores
  BY DEF ReportsAgree, a, p, d, c, guests
<1> QED BY <1>5, <1>6, <1>7, <1>9, <1>10, <1>11, <1>12, <1>13, <1>14

(* What the reports say of any state of the tables is consistent. *)
LEMMA ReportsAreSound ==
  ASSUME ReportsTypeOK, Offset = 0, RangeDays = Window
  PROVE  ReportsSound
<1>1. PagesTypeOK
  BY DEF ReportsTypeOK
<1>2. ReportsAddUp
  BY <1>1, DashboardWhole, MerchantWhole, StockWhole, SubscriptionsWhole, FiltersWhole DEF ReportsAddUp
<1> QED BY <1>2, TrendWholeByMonth, ReportsWhole, ContractsWhole DEF ReportsSound

-----------------------------------------------------------------------------
(* The stock list, read page by page (StockPages).  What is inductive says *)
(* where a row that the reader still has to see is: behind the pages that  *)
(* he was shown, and within those that the last count told him of.         *)
AnyReader == [filter : Filters, page : Nat \ {0}, read : BOOLEAN, counted : BOOLEAN, total : Nat,
              shown : SUBSET Items, first : SUBSET Items, touched : SUBSET Items,
              left : BOOLEAN, late : BOOLEAN, closed : BOOLEAN]

Ahead(i)  == Cardinality(Before(reader.filter, i))
Missing   == (reader.first \ reader.touched) \ reader.shown
PagesRead == IF reader.read THEN reader.page ELSE reader.page - 1

NothingSkipped ==
  /\ Missing \subseteq Listed(reader.filter)
  /\ reader.closed => Missing = {}
  /\ ~ reader.closed =>
       /\ \A i \in Missing : Ahead(i) >= PagesRead * PageSize
       /\ reader.counted /\ ~ reader.read => reader.total = Cardinality(Listed(reader.filter))
       /\ reader.counted /\ reader.read /\ Missing # {} => reader.total > reader.page * PageSize

ReaderInv ==
  reader # NoReader => reader \in AnyReader /\ (~ reader.left /\ ~ reader.late => NothingSkipped)

NewestAt == \A i \in Items : updatedAt[i] <= changes

ListInv == PagesTypeOK /\ NewestAt /\ ReaderInv

-----------------------------------------------------------------------------
(* The list and what is ahead of a row are finite.                         *)
LEMMA ListsAreFinite ==
  ASSUME NEW f, NEW i
  PROVE  /\ Listed(f) \subseteq Items /\ IsFiniteSet(Listed(f)) /\ Cardinality(Listed(f)) \in Nat
         /\ Before(f, i) \subseteq Listed(f) /\ IsFiniteSet(Before(f, i)) /\ Cardinality(Before(f, i)) \in Nat
<1>1. Listed(f) \subseteq Items /\ Before(f, i) \subseteq Listed(f)
  BY DEF Listed, ListOf, Before
<1>2. IsFiniteSet(Listed(f)) /\ IsFiniteSet(Before(f, i))
  BY <1>1, PageAssumption, FS_Subset
<1> QED
  BY <1>1, <1>2, FS_CardinalityType

(* A row of the list has fewer rows ahead of it than the list has.         *)
LEMMA AheadIsShort ==
  ASSUME PagesTypeOK, NEW f, NEW i \in Listed(f)
  PROVE  Cardinality(Before(f, i)) < Cardinality(Listed(f))
<1>1. i \notin Before(f, i)
  <2>1. i \in Items /\ updatedAt[i] \in Int
    BY ListsAreFinite DEF PagesTypeOK
  <2> QED
    BY <2>1 DEF Before
<1>2. Before(f, i) \subseteq Listed(f) \ {i} /\ IsFiniteSet(Listed(f) \ {i})
  BY <1>1, ListsAreFinite, FS_RemoveElement
<1>3. Cardinality(Listed(f) \ {i}) = Cardinality(Listed(f)) - 1
  BY ListsAreFinite, FS_RemoveElement
<1>4. Cardinality(Before(f, i)) <= Cardinality(Listed(f) \ {i})
  BY <1>2, FS_Subset
<1> QED
  BY <1>3, <1>4, ListsAreFinite

(* At the start nobody reads.                                              *)
LEMMA PagesStart == PagesInit => ListInv
BY PageAssumption DEF PagesInit, ListInv, PagesTypeOK, NewestAt, ReaderInv, NoReader, Gone

(* Every change of rows is the newest.                                     *)
LEMMA TypesKept == PagesTypeOK /\ NewestAt /\ [PagesNext]_pageVars => PagesTypeOK' /\ NewestAt'
<1> SUFFICES ASSUME PagesTypeOK, NewestAt, [PagesNext]_pageVars
             PROVE  PagesTypeOK' /\ NewestAt'
  OBVIOUS
<1> USE DEF PagesTypeOK, NewestAt
<1>1. ASSUME NEW i \in Items, NEW n \in Levels, SetStock(i, n) \/ AddRow(i, n)
      PROVE  PagesTypeOK' /\ NewestAt'
  BY <1>1, PageAssumption DEF SetStock, AddRow, Change
<1>2. ASSUME NEW i \in Items, DropRow(i)
      PROVE  PagesTypeOK' /\ NewestAt'
  BY <1>2, PageAssumption DEF DropRow, Change
<1>3. ASSUME NEW f \in Filters, OpenList(f)
      PROVE  PagesTypeOK' /\ NewestAt'
  BY <1>3, PageAssumption DEF OpenList, Change
<1>4. CASE ReadRows \/ CountRows \/ TurnPage \/ UNCHANGED pageVars
  BY <1>4 DEF ReadRows, CountRows, TurnPage, pageVars
<1> QED
  BY <1>1, <1>2, <1>3, <1>4 DEF PagesNext

(* A change of a row, as the reader sees it: every other row keeps the rows*)
(* ahead of it as long as none leaves the list.                            *)
LEMMA ChangesAreAhead ==
  ASSUME ListInv, NEW i \in Items, NEW f,
         item' \in [Items -> Levels \cup {Gone}],
         \A j \in Items \ {i} : updatedAt'[j] = updatedAt[j],
         updatedAt'[i] >= updatedAt[i], updatedAt'[i] \in Int,
         Listed(f) \subseteq ListOf(item', f), NEW j \in Items, j # i
  PROVE  Before(f, j) \subseteq Before(f, j)' /\ Cardinality(Before(f, j)) <= Cardinality(Before(f, j)')
<1>1. \A k \in Items : updatedAt[k] \in Int
  BY DEF ListInv, PagesTypeOK
<1>2. Before(f, j) \subseteq Before(f, j)'
  BY <1>1 DEF Before, Listed, ListOf
<1>3. IsFiniteSet(Before(f, j)')
  <2>1. Before(f, j)' \subseteq Items
    BY DEF Before, Listed, ListOf
  <2> QED
    BY <2>1, PageAssumption, FS_Subset
<1> QED
  BY <1>2, <1>3, FS_Subset

(* A change of a row moves none that is still missing forward.             *)
LEMMA RowChanges ==
  ASSUME ListInv, NEW i \in Items, Witness(i),
         item' \in [Items -> Levels \cup {Gone}],
         \A j \in Items \ {i} : updatedAt'[j] = updatedAt[j],
         updatedAt'[i] >= updatedAt[i], updatedAt'[i] \in Int
  PROVE  ReaderInv'
<1> DEFINE old == Listed(reader.filter)
           new == ListOf(item', reader.filter)
<1>1. CASE reader = NoReader
  BY <1>1 DEF Witness, ReaderInv
<1>2. CASE reader # NoReader
  <2>1. /\ reader' = [reader EXCEPT !.touched = @ \cup {i}, !.left = @ \/ ~ old \subseteq new,
                        !.late = @ \/ (reader.counted /\ ~ reader.read /\ ~ new \subseteq old)]
        /\ reader \in AnyReader
    BY <1>2 DEF Witness, ListInv, ReaderInv
  <2>2. /\ reader' \in AnyReader
        /\ reader'.touched = reader.touched \cup {i}
        /\ reader'.left = (reader.left \/ ~ old \subseteq new)
        /\ reader'.late = (reader.late \/ (reader.counted /\ ~ reader.read /\ ~ new \subseteq old))
        /\ \A c \in {"filter", "page", "read", "counted", "total", "shown", "first", "closed"} :
             reader'[c] = reader[c]
    <3> HIDE DEF old, new
    <3> QED
      BY <2>1 DEF AnyReader
  <2>3. /\ Missing' \subseteq Missing \ {i} /\ PagesRead' = PagesRead
        /\ Listed(reader.filter)' = ListOf(item', reader'.filter)
        /\ reader'.filter = reader.filter /\ reader'.page = reader.page
    BY <2>2 DEF Missing, PagesRead, Listed
  <2>4. ASSUME ~ reader'.left, ~ reader'.late
        PROVE  NothingSkipped'
    <3>1. /\ NothingSkipped /\ old \subseteq new
          /\ reader.counted /\ ~ reader.read => new = old
      BY <1>2, <2>2, <2>4 DEF ListInv, ReaderInv
    <3>2. Missing \subseteq Items
      BY <2>1 DEF Missing, AnyReader
    <3>3. PICK f \in Filters : f = reader.filter /\ f = reader'.filter
      BY <2>1, <2>3 DEF AnyReader
    <3>4. ASSUME NEW j \in Missing'
          PROVE  j \in Missing /\ Ahead(j)' >= Ahead(j) /\ Ahead(j) \in Nat /\ Ahead(j)' \in Int
      <4>1. j \in Missing /\ j \in Items /\ j # i
        BY <2>3, <3>2
      <4>2. Listed(f) \subseteq ListOf(item', f)
        BY <3>1, <3>3
      <4>3. Cardinality(Before(f, j)) <= Cardinality(Before(f, j)')
        BY <4>1, <4>2, ChangesAreAhead
      <4>4. Before(f, j)' = Before(reader.filter, j)'
        BY <3>3 DEF Before, Listed
      <4>5. Before(f, j) = Before(reader.filter, j)
        BY <3>3
      <4>6. Cardinality(Before(f, j)) \in Nat
        BY ListsAreFinite
      <4>7. Cardinality(Before(f, j)') \in Int
        <5>1. Before(f, j)' \subseteq Items
          BY DEF Before, Listed, ListOf
        <5> QED
          BY <5>1, PageAssumption, FS_Subset, FS_CardinalityType
      <4> QED
        BY <4>1, <4>3, <4>4, <4>5, <4>6, <4>7 DEF Ahead
    <3>5. Listed(reader.filter)' = new
      BY <2>3
    <3>6. Missing' \subseteq Listed(reader.filter)'
      BY <2>3, <3>1, <3>5 DEF NothingSkipped
    <3>7. ASSUME ~ reader'.closed, NEW j \in Missing'
          PROVE  Ahead(j)' >= PagesRead' * PageSize
      <4>1. Ahead(j) >= PagesRead * PageSize
        BY <2>2, <3>1, <3>4, <3>7 DEF NothingSkipped
      <4>2. PagesRead \in Int
        BY <2>1 DEF AnyReader, PagesRead
      <4>3. PagesRead * PageSize \in Int
        BY <4>2, PageAssumption
      <4> QED
        BY <2>3, <3>4, <4>1, <4>3
    <3>8. /\ reader'.closed => Missing' = {}
          /\ ~ reader'.closed =>
               /\ reader'.counted /\ ~ reader'.read => reader'.total = Cardinality(Listed(reader.filter)')
               /\ reader'.counted /\ reader'.read /\ Missing' # {} => reader'.total > reader'.page * PageSize
      BY <2>2, <2>3, <3>1, <3>5 DEF NothingSkipped
    <3> QED
      BY <3>6, <3>7, <3>8 DEF NothingSkipped
  <2> QED
    BY <2>2, <2>4 DEF ReaderInv
<1> QED
  BY <1>1, <1>2

(* The list is opened: everything is still to be read.                     *)
LEMMA ListOpens ==
  ASSUME ListInv, NEW f \in Filters, OpenList(f)
  PROVE  ReaderInv'
<1>1. reader' = [filter |-> f, page |-> 1, read |-> FALSE, counted |-> FALSE, total |-> 0,
                 shown |-> {}, first |-> Listed(f), touched |-> {}, left |-> FALSE,
                 late |-> FALSE, closed |-> FALSE]
      /\ UNCHANGED <<item, updatedAt>>
  BY DEF OpenList
<1>2. reader' \in AnyReader
  BY <1>1, ListsAreFinite DEF AnyReader
<1>3. Missing' = Listed(f) /\ PagesRead' = 0 /\ Listed(reader.filter)' = Listed(f)
  BY <1>1 DEF Missing, PagesRead, Listed, ListOf
<1>4. ASSUME NEW j PROVE Ahead(j)' >= 0
  <2>1. Before(reader.filter, j)' = Before(f, j)
    BY <1>1 DEF Before, Listed, ListOf
  <2> QED
    BY <2>1, ListsAreFinite DEF Ahead
<1>5. PagesRead' * PageSize = 0
  BY <1>3, PageAssumption
<1> QED
  BY <1>1, <1>2, <1>3, <1>4, <1>5 DEF ReaderInv, NothingSkipped

(* What a row still missing knows when the reader takes his next step.     *)
LEMMA MissingAhead ==
  ASSUME ListInv, Reading, NothingSkipped, NEW j \in Missing
  PROVE  /\ j \in Listed(reader.filter) /\ Ahead(j) \in Nat
         /\ PagesRead * PageSize \in Nat /\ Ahead(j) >= PagesRead * PageSize
         /\ Cardinality(Listed(reader.filter)) \in Nat /\ Ahead(j) < Cardinality(Listed(reader.filter))
<1>1. j \in Listed(reader.filter) /\ Ahead(j) >= PagesRead * PageSize
  BY DEF NothingSkipped, Reading
<1>2. Ahead(j) \in Nat /\ Cardinality(Listed(reader.filter)) \in Nat
  BY ListsAreFinite DEF Ahead
<1>3. Ahead(j) < Cardinality(Listed(reader.filter))
  BY <1>1, AheadIsShort DEF Ahead, ListInv
<1>4. PagesRead * PageSize \in Nat
  <2>1. PagesRead \in Nat
    BY DEF PagesRead, Reading, ListInv, ReaderInv, AnyReader
  <2> QED
    BY <2>1, PageAssumption
<1> QED
  BY <1>1, <1>2, <1>3, <1>4

(* The rows of a page are read.                                            *)
LEMMA RowsRead ==
  ASSUME ListInv, ReadRows
  PROVE  ReaderInv'
<1> DEFINE more == Page(reader.filter, reader.page)
<1>1. /\ reader # NoReader /\ reader \in AnyReader /\ ~ reader.closed /\ ~ reader.read /\ Reading
      /\ reader' = [reader EXCEPT !.read = TRUE, !.shown = @ \cup more]
      /\ more \subseteq Items /\ UNCHANGED <<item, updatedAt>>
  BY DEF ReadRows, Reading, ListInv, ReaderInv, Page, Listed, ListOf
<1>2. /\ reader' \in AnyReader /\ reader'.read /\ reader'.shown = reader.shown \cup more
      /\ \A c \in {"filter", "page", "counted", "total", "first", "touched", "left", "late", "closed"} :
           reader'[c] = reader[c]
  <2> HIDE DEF more
  <2> QED
    BY <1>1 DEF AnyReader
<1>3. /\ Missing' = Missing \ more /\ Listed(reader.filter)' = Listed(reader.filter)
      /\ PagesRead' = reader.page /\ PagesRead = reader.page - 1
  BY <1>1, <1>2 DEF Missing, PagesRead, Listed, ListOf
<1>4. ASSUME NothingSkipped, NEW j \in Missing'
      PROVE  /\ Ahead(j)' >= PagesRead' * PageSize
             /\ reader.counted => reader.total > reader.page * PageSize
  <2>1. j \in Missing /\ j \notin more
    BY <1>3, <1>4
  <2>2. /\ j \in Listed(reader.filter) /\ Ahead(j) \in Nat
        /\ Ahead(j) >= (reader.page - 1) * PageSize
        /\ Cardinality(Listed(reader.filter)) \in Nat /\ Ahead(j) < Cardinality(Listed(reader.filter))
    BY <1>1, <1>3, <1>4, <2>1, MissingAhead
  <2>3. (reader.page - 1) * PageSize \in Int /\ reader.page * PageSize \in Int
    BY <1>1, PageAssumption DEF AnyReader
  <2>4. Ahead(j) >= reader.page * PageSize
    BY <2>1, <2>2, <2>3 DEF Page, Ahead
  <2>5. Ahead(j)' = Ahead(j)
    BY <1>1, <1>2 DEF Ahead, Before, Listed, ListOf
  <2> QED
    BY <1>1, <1>3, <1>4, <2>2, <2>3, <2>4, <2>5 DEF NothingSkipped
<1>5. ASSUME NothingSkipped PROVE NothingSkipped'
  <2> HIDE DEF more
  <2> QED
    BY <1>1, <1>2, <1>3, <1>4, <1>5 DEF NothingSkipped
<1> QED
  BY <1>1, <1>2, <1>5 DEF ListInv, ReaderInv

(* The total of a page is read.                                            *)
LEMMA RowsCounted ==
  ASSUME ListInv, CountRows
  PROVE  ReaderInv'
<1> DEFINE n == Cardinality(Listed(reader.filter))
<1>1. /\ reader # NoReader /\ reader \in AnyReader /\ ~ reader.closed /\ ~ reader.counted /\ Reading
      /\ reader' = [reader EXCEPT !.counted = TRUE, !.total = n]
      /\ UNCHANGED <<item, updatedAt>> /\ n \in Nat
  BY ListsAreFinite DEF CountRows, Reading, ListInv, ReaderInv
<1>2. /\ reader' \in AnyReader /\ reader'.counted /\ reader'.total = n
      /\ \A c \in {"filter", "page", "read", "shown", "first", "touched", "left", "late", "closed"} :
           reader'[c] = reader[c]
  <2> HIDE DEF n
  <2> QED
    BY <1>1 DEF AnyReader
<1>3. /\ Missing' = Missing /\ Listed(reader.filter)' = Listed(reader.filter) /\ PagesRead' = PagesRead
  BY <1>1, <1>2 DEF Missing, PagesRead, Listed, ListOf
<1>4. ASSUME NEW j PROVE Ahead(j)' = Ahead(j)
  BY <1>1, <1>2 DEF Ahead, Before, Listed, ListOf
<1>5. ASSUME NothingSkipped PROVE NothingSkipped'
  <2>1. ASSUME reader.read, NEW j \in Missing PROVE n > reader.page * PageSize
    <3>1. PagesRead = reader.page
      BY <2>1 DEF PagesRead
    <3> QED
      BY <1>1, <1>5, <2>1, <3>1, MissingAhead
  <2> QED
    BY <1>1, <1>2, <1>3, <1>4, <1>5, <2>1 DEF NothingSkipped
<1> QED
  BY <1>1, <1>2, <1>5 DEF ListInv, ReaderInv

(* The last page that the count tells of is the last one with rows.        *)
LEMMA LastPage ==
  ASSUME NEW total \in Nat, NEW page \in Nat, total > page * PageSize
  PROVE  page < Pages(total)
<1> DEFINE q == (total + PageSize - 1) \div PageSize
<1>1. PageSize \in Nat /\ PageSize > 0 /\ page * PageSize \in Nat
  BY PageAssumption
<1>2. q \in Int /\ total + PageSize - 1 < q * PageSize + PageSize
  BY <1>1
<1>3. ASSUME q <= page PROVE FALSE
  <2> HIDE DEF q
  <2>1. q * PageSize <= page * PageSize
    BY <1>1, <1>2, <1>3
  <2> QED
    BY <1>1, <1>2, <2>1
<1> QED
  BY <1>1, <1>2, <1>3 DEF Pages

(* The page is turned, or the list is closed.                              *)
LEMMA PageTurned ==
  ASSUME ListInv, TurnPage
  PROVE  ReaderInv'
<1>1. /\ reader # NoReader /\ reader \in AnyReader /\ ~ reader.closed /\ reader.counted /\ reader.read
      /\ Reading /\ UNCHANGED <<item, updatedAt>>
  BY DEF TurnPage, Reading, ListInv, ReaderInv
<1>2. /\ reader'.filter = reader.filter
      /\ Missing' = Missing /\ Listed(reader.filter)' = Listed(reader.filter)
      /\ reader'.left = reader.left /\ reader'.late = reader.late /\ reader' \in AnyReader
  <2>1. /\ reader' \in AnyReader
        /\ \A c \in {"filter", "shown", "first", "touched", "left", "late"} : reader'[c] = reader[c]
    <3>1. \/ reader' = [reader EXCEPT !.page = @ + 1, !.read = FALSE, !.counted = FALSE]
          \/ reader' = [reader EXCEPT !.closed = TRUE]
      BY DEF TurnPage
    <3>2. CASE reader' = [reader EXCEPT !.page = @ + 1, !.read = FALSE, !.counted = FALSE]
      <4>1. reader.page + 1 \in Nat \ {0}
        BY <1>1 DEF AnyReader
      <4>2. /\ reader'.page = reader.page + 1 /\ reader'.read = FALSE /\ reader'.counted = FALSE
            /\ reader' = [reader EXCEPT !.page = reader'.page, !.read = FALSE, !.counted = FALSE]
        BY <1>1, <3>2 DEF AnyReader
      <4> QED
        BY <1>1, <4>1, <4>2 DEF AnyReader
    <3>3. CASE reader' = [reader EXCEPT !.closed = TRUE]
      BY <1>1, <3>3 DEF AnyReader
    <3> QED
      BY <3>1, <3>2, <3>3
  <2> QED
    BY <1>1, <2>1 DEF Missing, Listed, ListOf
<1>3. ASSUME NEW j PROVE Ahead(j)' = Ahead(j)
  BY <1>1, <1>2 DEF Ahead, Before, Listed, ListOf
<1>4. ASSUME NothingSkipped PROVE NothingSkipped'
  <2>1. CASE reader.page < Pages(reader.total)
    <3>1. reader'.page = reader.page + 1 /\ ~ reader'.read /\ ~ reader'.counted /\ ~ reader'.closed
      BY <1>1, <2>1 DEF TurnPage, AnyReader
    <3>2. PagesRead' = reader.page /\ PagesRead = reader.page
      BY <1>1, <3>1 DEF PagesRead, AnyReader
    <3> QED
      BY <1>1, <1>2, <1>3, <1>4, <3>1, <3>2 DEF NothingSkipped
  <2>2. CASE ~ reader.page < Pages(reader.total)
    <3>1. reader'.closed
      BY <1>1, <2>2 DEF TurnPage, AnyReader
    <3>2. reader.page \in Nat /\ reader.total \in Nat
      BY <1>1 DEF AnyReader
    <3>3. Missing = {}
      BY <1>1, <1>4, <2>2, <3>2, LastPage DEF NothingSkipped
    <3> QED
      BY <1>2, <1>4, <3>1, <3>3 DEF NothingSkipped
  <2> QED
    BY <2>1, <2>2
<1> QED
  BY <1>1, <1>2, <1>4 DEF ListInv, ReaderInv

(* So the invariant of the list is inductive.                              *)
LEMMA ListStep == ListInv /\ [PagesNext]_pageVars => ListInv'
<1> SUFFICES ASSUME ListInv, [PagesNext]_pageVars PROVE ListInv'
  OBVIOUS
<1>1. PagesTypeOK' /\ NewestAt'
  BY TypesKept DEF ListInv
<1>2. ReaderInv'
  <2>1. ASSUME NEW i \in Items,
               DropRow(i) \/ \E n \in Levels : SetStock(i, n) \/ AddRow(i, n)
        PROVE  ReaderInv'
    <3>1. /\ Witness(i) /\ \A j \in Items \ {i} : updatedAt'[j] = updatedAt[j]
          /\ updatedAt'[i] >= updatedAt[i] /\ updatedAt'[i] \in Int
      BY <2>1 DEF DropRow, SetStock, AddRow, ListInv, PagesTypeOK, NewestAt
    <3> QED
      BY <1>1, <3>1, RowChanges DEF PagesTypeOK
  <2>2. CASE UNCHANGED pageVars
    BY <2>2 DEF pageVars, ListInv, ReaderInv, NothingSkipped, Missing, Ahead, PagesRead, Before, Listed, ListOf
  <2> QED
    BY <2>1, <2>2, ListOpens, RowsRead, RowsCounted, PageTurned DEF PagesNext
<1> QED
  BY <1>1, <1>2 DEF ListInv

(* A merchant who reads the stock list to its end has seen every row that  *)
(* was there and did not change, for any rows, pages and changes, provided *)
(* no row left the list and none came between the two queries of a page    *)
(* (InventoryReportsService.products).                                     *)
THEOREM PagesAlwaysCover == PagesSpec => []PagesCover
<1>1. ListInv => PagesCover
  BY DEF ListInv, ReaderInv, NothingSkipped, PagesCover, Missing
<1> QED
  BY <1>1, PagesStart, ListStep, PTL DEF PagesSpec

-----------------------------------------------------------------------------
(* The rows are kept of their kinds by every write, and so the reports     *)
(* are always sound.                                                       *)

(* The rows alone: what the writes have to keep. *)
TimesOK  == now \in Start..Start + MaxTicks /\ writes \in 0..MaxWrites
OrdersOK == order \in [Orders -> {Absent} \cup Placing(now)]
StoresOK == /\ store \in [Stores -> {Absent} \cup Opening(now)]
            /\ \A s \in Registered : Consistent(store[s])
OfStores == \A o \in Placed : Facts[o].store \in Registered
RowsOK   == TimesOK /\ OrdersOK /\ StoresOK /\ OfStores

(* The rows are the type invariant without the lists.                      *)
LEMMA TypesAre == ReportsTypeOK <=> RowsOK /\ PagesTypeOK
BY DEF ReportsTypeOK, RowsOK, TimesOK, OrdersOK, StoresOK, OfStores

(* A row is told from none by its time.                                    *)
LEMMA RowsAreTimed ==
  ASSUME NEW t \in Nat
  PROVE  Absent \notin Placing(t) /\ Absent \notin Opening(t)
BY DEF Absent, Placing, Opening

(* A period ends at a time of the calendar, some months from now. *)
LEMMA PeriodEnds ==
  ASSUME TimesOK, NEW n \in 1..12
  PROVE  now \in Nat /\ AddMonths(now, n) \in Nat
<1>1. Start \in 302..789 /\ MaxTicks \in 0..59 /\ Offset \in 0..1
  BY ReportAssumption, CalendarEnds
<1>2. now \in 302..848 /\ now + Offset \in 302..849
  BY <1>1 DEF TimesOK
<1> DEFINE m == MonthOf(now + Offset)
<1>3. m \in 5..14
  BY <1>2, LaterMonths
<1> HIDE DEF m
<1>4. m \in 0..36 /\ m + n \in 0..36 /\ m < m + n /\ m \in 0..35
  BY <1>3
<1>5. DaysBefore[m] + 28 <= DaysBefore[m + n]
  BY <1>4, MonthsFollow
<1>6. DaysBefore[m] \in Nat /\ DaysBefore[m + n] \in Int
  <2>1. DaysBefore[m] \in Nat
    BY <1>4, MonthLength
  <2>2. m + n \in 0..35
    BY <1>3
  <2>3. DaysBefore[m + n] \in Nat
    BY <2>2, MonthLength
  <2> QED BY <2>1, <2>3
<1>7. AddMonths(now, n) = now + 2 * (DaysBefore[m + n] - DaysBefore[m])
  BY DEF AddMonths, m
<1> QED BY <1>2, <1>5, <1>6, <1>7

(* A write of an order keeps the rows of their kinds.                      *)
LEMMA OrderWritten ==
  ASSUME RowsOK, NEW o \in Orders, NEW row \in Placing(now), Facts[o].store \in Registered,
         order' = [order EXCEPT ![o] = row], Write, UNCHANGED store
  PROVE  RowsOK'
<1>1. now \in Nat /\ now' = now
  <2>1. Start \in 302..789 /\ MaxTicks \in 0..59
    BY ReportAssumption, CalendarEnds
  <2> QED BY <2>1 DEF RowsOK, TimesOK, Write
<1>2. TimesOK'
  BY ReportAssumption DEF RowsOK, TimesOK, Write
<1>3. OrdersOK' /\ StoresOK'
  BY <1>1 DEF RowsOK, OrdersOK, StoresOK, Registered
<1>4. Registered' = Registered
  BY DEF Registered
<1>5. Placed' \subseteq Placed \cup {o}
  BY DEF RowsOK, OrdersOK, Placed
<1> QED BY <1>2, <1>3, <1>4, <1>5 DEF RowsOK, OfStores

(* And so does one of a store.                                             *)
LEMMA StoreWritten ==
  ASSUME RowsOK, NEW s \in Stores, NEW row \in Opening(now), Consistent(row),
         store' = [store EXCEPT ![s] = row], Write, UNCHANGED order
  PROVE  RowsOK'
<1>1. now \in Nat /\ now' = now
  <2>1. Start \in 302..789 /\ MaxTicks \in 0..59
    BY ReportAssumption, CalendarEnds
  <2> QED BY <2>1 DEF RowsOK, TimesOK, Write
<1>2. TimesOK'
  BY ReportAssumption DEF RowsOK, TimesOK, Write
<1>3. row # Absent
  BY <1>1, RowsAreTimed
<1>4. /\ store' \in [Stores -> {Absent} \cup Opening(now)] /\ store'[s] = row
      /\ \A u \in Stores \ {s} : store'[u] = store[u]
  BY DEF RowsOK, StoresOK
<1>5. Registered \subseteq Registered' /\ \A u \in Registered' : u = s \/ u \in Registered
  BY <1>3, <1>4 DEF Registered
<1>6. \A u \in Registered' : Consistent(store'[u])
  <2> SUFFICES ASSUME NEW u \in Registered' PROVE Consistent(store'[u])
    OBVIOUS
  <2>1. CASE u = s
    BY <1>4, <2>1
  <2>2. CASE u # s
    <3>1. u \in Registered /\ store'[u] = store[u]
      BY <1>4, <1>5, <2>2 DEF Registered
    <3>2. Consistent(store[u])
      BY <3>1 DEF RowsOK, StoresOK
    <3> QED BY <3>1, <3>2
  <2> QED BY <2>1, <2>2
<1>7. StoresOK'
  BY <1>1, <1>4, <1>6 DEF StoresOK
<1>8. OrdersOK' /\ Placed' = Placed
  BY <1>1 DEF RowsOK, OrdersOK, Placed
<1> QED BY <1>2, <1>5, <1>7, <1>8 DEF RowsOK, OfStores

(* And the clock.                                                          *)
LEMMA TimePasses == RowsOK /\ Tick => RowsOK'
<1> SUFFICES ASSUME RowsOK, Tick PROVE RowsOK'
  OBVIOUS
<1>1. now \in Nat /\ now' = now + 1 /\ now' \in Start..Start + MaxTicks
  <2>1. Start \in 302..789 /\ MaxTicks \in 0..59
    BY ReportAssumption, CalendarEnds
  <2> QED BY <2>1 DEF RowsOK, TimesOK, Tick
<1>2. Placing(now) \subseteq Placing(now') /\ Opening(now) \subseteq Opening(now')
  <2>1. 0..now \subseteq 0..now'
    BY <1>1
  <2> QED BY <2>1 DEF Placing, Opening
<1>3. UNCHANGED <<order, store, writes>>
  BY DEF Tick
<1>4. Placed' = Placed /\ Registered' = Registered
  BY <1>3 DEF Placed, Registered
<1>5. OrdersOK' /\ store' \in [Stores -> {Absent} \cup Opening(now')]
  BY <1>2, <1>3 DEF RowsOK, OrdersOK, StoresOK
<1>6. StoresOK'
  BY <1>3, <1>4, <1>5 DEF RowsOK, StoresOK
<1> QED BY <1>1, <1>3, <1>4, <1>5, <1>6 DEF RowsOK, TimesOK, OfStores

(* So every write does.                                                    *)
LEMMA WritesKeepRows == RowsOK /\ DataNext => RowsOK'
<1> SUFFICES ASSUME RowsOK, DataNext PROVE RowsOK'
  OBVIOUS
<1>1. now \in Nat /\ AddMonths(now, 1) \in Nat /\ AddMonths(now, 12) \in Nat
  <2>1. TimesOK
    BY DEF RowsOK
  <2>2. 1 \in 1..12 /\ 12 \in 1..12
    OBVIOUS
  <2> QED BY <2>1, <2>2, PeriodEnds
<1>2. now \in 0..now
  BY <1>1
<1>3. \A o \in Placed : o \in Orders /\ order[o] \in Placing(now) /\ Facts[o].store \in Registered
  BY DEF RowsOK, OrdersOK, OfStores, Placed
<1>4. \A s \in Registered : s \in Stores /\ store[s] \in Opening(now) /\ Consistent(store[s])
  BY DEF RowsOK, StoresOK, Registered
<1>5. \A y : PeriodFrom(now, y) \in Nat
  BY <1>1 DEF PeriodFrom
<1>6. ASSUME NEW o \in Orders, PlaceOrder(o) PROVE RowsOK'
  <2> DEFINE row == [status |-> "PENDING", at |-> now]
  <2>1. row \in Placing(now)
    BY <1>2 DEF Placing, ActiveStatuses
  <2>2. Facts[o].store \in Registered /\ order' = [order EXCEPT ![o] = row] /\ Write /\ UNCHANGED store
    BY <1>6 DEF PlaceOrder
  <2> HIDE DEF row
  <2> QED BY <2>1, <2>2, OrderWritten
<1>7. ASSUME NEW o \in Orders, NEW st \in OrderStatuses, MoveOrder(o, st) PROVE RowsOK'
  <2> DEFINE row == [order[o] EXCEPT !.status = st]
  <2>1. o \in Placed /\ st \in ActiveStatuses \cup SettledStatuses
    BY <1>7, ReportAssumption DEF MoveOrder
  <2>2. order[o] \in Placing(now) /\ Facts[o].store \in Registered
    BY <1>3, <2>1
  <2>3. row \in Placing(now)
    BY <2>1, <2>2 DEF Placing
  <2>4. order' = [order EXCEPT ![o] = row] /\ Write /\ UNCHANGED store
    BY <1>7 DEF MoveOrder
  <2> HIDE DEF row
  <2> QED BY <2>2, <2>3, <2>4, OrderWritten
<1>8. ASSUME NEW s \in Stores, OpenStore(s) PROVE RowsOK'
  <2>1. PICK p \in Plans, y \in BOOLEAN :
          store' = [store EXCEPT ![s] = [status |-> "PENDING", plan |-> p, yearly |-> y, at |-> now,
                      contract |-> "TRIAL", since |-> now, end |-> AddMonths(now, 1)]]
    BY <1>8 DEF OpenStore
  <2> DEFINE row == [status |-> "PENDING", plan |-> p, yearly |-> y, at |-> now,
                     contract |-> "TRIAL", since |-> now, end |-> AddMonths(now, 1)]
  <2>2. row \in Opening(now)
    BY <1>1, <1>2 DEF Opening, LifeStatuses, ContractStatuses
  <2>3. Consistent(row)
    BY <1>1, ReportAssumption DEF Consistent, NoEnd
  <2>4. store' = [store EXCEPT ![s] = row] /\ Write /\ UNCHANGED order
    BY <1>8, <2>1 DEF OpenStore
  <2> HIDE DEF row
  <2> QED BY <2>2, <2>3, <2>4, StoreWritten
<1>9. ASSUME NEW s \in Stores, NEW st \in LifeStatuses, SetStatus(s, st) PROVE RowsOK'
  <2> DEFINE row == [store[s] EXCEPT !.status = st]
  <2>1. store[s] \in Opening(now) /\ Consistent(store[s])
    BY <1>4, <1>9 DEF SetStatus
  <2>2. row \in Opening(now) /\ Consistent(row)
    BY <2>1 DEF Opening, Consistent
  <2>3. store' = [store EXCEPT ![s] = row] /\ Write /\ UNCHANGED order
    BY <1>9 DEF SetStatus
  <2> HIDE DEF row
  <2> QED BY <2>2, <2>3, StoreWritten
<1>10. ASSUME NEW s \in Stores, NEW p \in Plans, NEW y \in BOOLEAN, SetPlan(s, p, y) PROVE RowsOK'
  <2> DEFINE old == store[s]
             row == [old EXCEPT !.plan = p, !.yearly = y, !.end = PeriodFrom(now, y),
                       !.contract = IF NoContract(s) THEN "ACTIVE" ELSE @,
                       !.since = IF NoContract(s) THEN now ELSE @]
  <2>1. old \in Opening(now) /\ Consistent(old)
    BY <1>4, <1>10 DEF SetPlan
  <2>2. row \in Opening(now)
    <3>1. (IF NoContract(s) THEN now ELSE old.since) \in 0..now
      BY <1>2, <2>1 DEF Opening
    <3>2. (IF NoContract(s) THEN "ACTIVE" ELSE old.contract) \in ContractStatuses \cup {"NONE"}
      BY <2>1 DEF Opening, ContractStatuses
    <3>3. PeriodFrom(now, y) \in Nat \cup {NoEnd} /\ p \in Plans \cup {"none"}
      BY <1>5
    <3> HIDE DEF old
    <3> QED BY <2>1, <3>1, <3>2, <3>3 DEF Opening
  <2>3. Consistent(row)
    <3>1. row.contract # "NONE" /\ row.plan = p /\ row.end = PeriodFrom(now, y)
      BY <2>1 DEF Opening, NoContract
    <3>2. p # "none" /\ PeriodFrom(now, y) # NoEnd
      BY <1>5, ReportAssumption DEF NoEnd
    <3> HIDE DEF row
    <3> QED BY <3>1, <3>2 DEF Consistent
  <2>4. store' = [store EXCEPT ![s] = row] /\ Write /\ UNCHANGED order
    BY <1>10 DEF SetPlan
  <2> HIDE DEF row
  <2> QED BY <2>2, <2>3, <2>4, StoreWritten
<1>11. ASSUME NEW s \in Stores, Renew(s) PROVE RowsOK'
  <2> DEFINE old == store[s]
             row == [old EXCEPT !.contract = "ACTIVE", !.end = PeriodFrom(now, old.yearly)]
  <2>1. old \in Opening(now) /\ Consistent(old) /\ old.contract # "NONE"
    BY <1>4, <1>11 DEF Renew
  <2>2. row \in Opening(now)
    <3>1. PeriodFrom(now, old.yearly) \in Nat \cup {NoEnd} /\ "ACTIVE" \in ContractStatuses \cup {"NONE"}
      BY <1>5 DEF ContractStatuses
    <3> HIDE DEF old
    <3> QED BY <2>1, <3>1 DEF Opening
  <2>3. Consistent(row)
    <3>1. row.contract = "ACTIVE" /\ row.plan = old.plan /\ row.end = PeriodFrom(now, old.yearly)
      BY <2>1 DEF Opening
    <3>2. old.plan # "none"
      BY <2>1 DEF Consistent
    <3>3. row.end # NoEnd
      BY <1>5, <3>1 DEF NoEnd
    <3> HIDE DEF row, old
    <3> QED BY <3>1, <3>2, <3>3 DEF Consistent
  <2>4. store' = [store EXCEPT ![s] = row] /\ Write /\ UNCHANGED order
    BY <1>11 DEF Renew
  <2> HIDE DEF row
  <2> QED BY <2>2, <2>3, <2>4, StoreWritten
<1>12. ASSUME NEW s \in Stores, NEW st \in {"ACTIVE", "SUSPENDED", "CANCELLED"}, MoveContract(s, st)
       PROVE  RowsOK'
  <2> DEFINE row == [store[s] EXCEPT !.contract = st]
  <2>1. store[s] \in Opening(now) /\ Consistent(store[s]) /\ store[s].contract # "NONE"
    BY <1>4, <1>12 DEF MoveContract, NoContract
  <2>2. row \in Opening(now)
    BY <2>1 DEF Opening, ContractStatuses
  <2>3. Consistent(row)
    <3>1. row.contract = st /\ row.plan = store[s].plan /\ row.end = store[s].end
      BY <2>1 DEF Opening
    <3> HIDE DEF row
    <3> QED BY <2>1, <3>1 DEF Consistent
  <2>4. store' = [store EXCEPT ![s] = row] /\ Write /\ UNCHANGED order
    BY <1>12 DEF MoveContract
  <2> HIDE DEF row
  <2> QED BY <2>2, <2>3, <2>4, StoreWritten
<1> QED BY <1>6, <1>7, <1>8, <1>9, <1>10, <1>11, <1>12, TimePasses DEF DataNext

ReportsIInv == RowsOK /\ ListInv

(* The invariant holds at the start.                                       *)
LEMMA ReportsStart == ReportsInit => ReportsIInv
<1> SUFFICES ASSUME ReportsInit PROVE ReportsIInv
  OBVIOUS
<1>1. DataInit /\ PagesInit
  BY DEF ReportsInit
<1>2. TimesOK
  <2>1. Start \in 302..789 /\ MaxTicks \in 0..59 /\ MaxWrites \in Nat
    BY ReportAssumption, CalendarEnds
  <2> QED BY <1>1, <2>1 DEF DataInit, TimesOK
<1>3. order \in [Orders -> {Absent} \cup Placing(Start)]
      /\ store \in [Stores -> {Absent} \cup {s \in Opening(Start) : Consistent(s)}]
  BY <1>1, ReportAssumption DEF DataInit
<1>4. OrdersOK /\ StoresOK /\ OfStores
  BY <1>1, <1>3 DEF DataInit, OrdersOK, StoresOK, OfStores, Registered
<1> QED BY <1>1, <1>2, <1>4, PagesStart DEF ReportsIInv, RowsOK

(* A step is one of the rows or one of the lists. *)
LEMMA ReportsStepIs ==
  [ReportsNext]_reportVars =>
    /\ [PagesNext]_pageVars
    /\ DataNext \/ UNCHANGED dataVars
BY DEF ReportsNext, reportVars

(* And is kept by every step.                                              *)
LEMMA ReportsStep == ReportsIInv /\ [ReportsNext]_reportVars => ReportsIInv'
<1> SUFFICES ASSUME ReportsIInv, [ReportsNext]_reportVars PROVE ReportsIInv'
  OBVIOUS
<1>1. ListInv'
  BY ReportsStepIs, ListStep DEF ReportsIInv
<1>2. RowsOK'
  <2>1. CASE DataNext
    BY <2>1, WritesKeepRows DEF ReportsIInv
  <2>2. CASE UNCHANGED dataVars
    <3>1. RowsOK
      BY DEF ReportsIInv
    <3>2. now' = now /\ order' = order /\ store' = store /\ writes' = writes
      BY <2>2 DEF dataVars
    <3>3. Placed' = Placed /\ Registered' = Registered
      BY <3>2 DEF Placed, Registered
    <3> QED BY <3>1, <3>2, <3>3 DEF RowsOK, TimesOK, OrdersOK, StoresOK, OfStores
  <2> QED BY <2>1, <2>2, ReportsStepIs
<1> QED BY <1>1, <1>2 DEF ReportsIInv

(* So it always holds.                                                     *)
LEMMA ReportsInvariance == ReportsSpec => []ReportsIInv
BY ReportsStart, ReportsStep, PTL DEF ReportsSpec

(* The rows a report reads are of the kinds the code writes, whatever is   *)
(* written: none is of a time to come, every order is of a store, and a    *)
(* contract, a plan and the end of a period come together.                 *)
THEOREM ReportsTypeCorrect == ReportsSpec => []ReportsTypeOK
<1>1. ReportsIInv => ReportsTypeOK
  BY TypesAre DEF ReportsIInv, ListInv
<1> QED BY <1>1, ReportsInvariance, PTL

(* The reports add up, each within itself, and tell the same story of any  *)
(* orders, stores, prices, plans and windows, at every time and after any  *)
(* writes: on a server that keeps UTC, for a merchant's range of as many   *)
(* days as the dashboard's window (AdminService, MerchantReportsService,   *)
(* SubscriptionsService, InventoryReportsService).                         *)
THEOREM ReportsAlwaysSound ==
  ASSUME Offset = 0, RangeDays = Window
  PROVE  ReportsSpec => []ReportsSound
<1>1. ReportsTypeOK => ReportsSound
  BY ReportsAreSound
<1> QED BY <1>1, ReportsTypeCorrect, PTL

(* The pages, next to the other reports. *)
THEOREM PagesCoverBesideReports == ReportsSpec => []PagesCover
<1>1. ReportsInit => PagesInit
  BY DEF ReportsInit
<1>2. ReportsSpec => PagesSpec
  BY <1>1, ReportsStepIs, PTL DEF ReportsSpec, PagesSpec
<1> QED BY <1>2, PagesAlwaysCover
=============================================================================
