------------------------- MODULE StoreApplications -------------------------
(* The review of one store's application (store-applications.service.ts):  *)
(* the merchant fills in and submits it, administrators review it, and     *)
(* every decision is recorded in a history and told by mail.               *)
(*                                                                         *)
(* A handler reads the application and checks its status, writes in a      *)
(* transaction, and then reads the row again to compose the mail and       *)
(* queues it.  These are actions of a request slot; other requests go on   *)
(* between them, each statement after the transaction may fail, and a      *)
(* process that dies leaves its slot where it is.  The patch's completion  *)
(* percentage, which only the wizard shows, is left out.                   *)
EXTENDS Integers, Sequences, FiniteSets

CONSTANTS Requests,       \* slots of requests served at the same time
          Documents,      \* ids of identity documents that can be uploaded
          MaxHistory      \* bound: the decisions of a behaviour

VARIABLES app,            \* the StoreApplication row: exists, status, submissionVersion
          complete,       \* whether its sections hold every required field
          documents,      \* the ApplicationDocument rows
          storeStatus,    \* Store.status
          overridden,     \* history: an admin has set Store.status by hand
          hist,           \* ApplicationStatusHistory, in the order of the commits
          mails,          \* EmailLog rows queued for the application, and their text
          untold,         \* history: decisions whose mail an error kept from being queued
          request         \* what each slot has read, or the mail it owes

vars == <<app, complete, documents, storeStatus, overridden, hist, mails, untold, request>>

Statuses == {"DRAFT", "SUBMITTED", "UNDER_REVIEW", "CHANGES_REQUESTED",
             "APPROVED", "REJECTED", "SUSPENDED"}
StoreStatuses == {"PENDING", "ACTIVE", "SUSPENDED", "REJECTED"}
EDITABLE_STATUSES == {"DRAFT", "CHANGES_REQUESTED"}

(* Mutant: a patch no longer looks at the status. *)
AcceptedAnyPatch ==
  LET open == {"SUBMITTED", "UNDER_REVIEW"} IN
  [patch          |-> Statuses,
   addDocument    |-> EDITABLE_STATUSES,
   removeDocument |-> EDITABLE_STATUSES,
   submit         |-> {"DRAFT"},
   resubmit       |-> {"CHANGES_REQUESTED"},
   cancel         |-> Statuses \ {"APPROVED"},
   startReview    |-> {"SUBMITTED"},
   approve        |-> open,
   requestChanges |-> open,
   reject         |-> open,
   suspend        |-> Statuses \ {"SUSPENDED"}]

(* The statuses each handler accepts.                                      *)
Accepted ==
  LET open == {"SUBMITTED", "UNDER_REVIEW"} IN
  [patch          |-> EDITABLE_STATUSES,
   addDocument    |-> EDITABLE_STATUSES,
   removeDocument |-> EDITABLE_STATUSES,
   submit         |-> {"DRAFT"},
   resubmit       |-> {"CHANGES_REQUESTED"},
   cancel         |-> Statuses \ {"APPROVED"},
   startReview    |-> {"SUBMITTED"},
   approve        |-> open,
   requestChanges |-> open,
   reject         |-> open,
   suspend        |-> Statuses \ {"SUSPENDED"}]

Handlers == DOMAIN Accepted
Editors == {"patch", "addDocument", "removeDocument"}
Submitters == {"submit", "resubmit"}
Deciders == {"startReview", "approve", "requestChanges", "reject", "suspend"} \cup Submitters

(* The status a decision leads to, and the type of the mail that tells it. *)
Target ==
  [submit         |-> "SUBMITTED",
   resubmit       |-> "SUBMITTED",
   startReview    |-> "UNDER_REVIEW",
   approve        |-> "APPROVED",
   requestChanges |-> "CHANGES_REQUESTED",
   reject         |-> "REJECTED",
   suspend        |-> "SUSPENDED"]

MailType ==
  [SUBMITTED         |-> "store-application-received",
   UNDER_REVIEW      |-> "review_started",
   APPROVED          |-> "application_approved",
   CHANGES_REQUESTED |-> "changes_requested",
   REJECTED          |-> "application_rejected",
   SUSPENDED         |-> "application_suspended"]

(* ensureCompleteForSubmission: every field, and the identity document.    *)
ensureCompleteForSubmission == complete /\ documents # {}

Idle == [phase |-> "idle"]

Init ==
  /\ app = [exists |-> TRUE, status |-> "DRAFT", version |-> 0]
  /\ complete \in BOOLEAN
  /\ documents \in SUBSET Documents
  /\ storeStatus = "PENDING" /\ overridden = FALSE
  /\ hist = <<>> /\ mails = {} /\ untold = {}
  /\ request = [r \in Requests |-> Idle]

-----------------------------------------------------------------------------
(* findByUser or ensureApplicationExists, and the checks on what they read.*)
Read(r) ==
  /\ request[r].phase = "idle" /\ app.exists
  /\ \E k \in Handlers :
       /\ app.status \in Accepted[k]
       /\ k \in Submitters => ensureCompleteForSubmission
       /\ request' = [request EXCEPT ![r] =
            [phase |-> "read", kind |-> k, status |-> app.status, version |-> app.version]]
  /\ UNCHANGED <<app, complete, documents, storeStatus, overridden, hist, mails, untold>>

(* The row is gone, the transaction fails and is rolled back, or the       *)
(* process dies.                                                           *)
Abort(r) ==
  /\ request[r].phase \in {"read", "clearing"}
  /\ request' = [request EXCEPT ![r] = Idle]
  /\ UNCHANGED <<app, complete, documents, storeStatus, overridden, hist, mails, untold>>

Writing(r, k) == app.exists /\ request[r].phase = "read" /\ request[r].kind = k

Finished(r) == request' = [request EXCEPT ![r] = Idle]

(* The merchant's edits, each a write of its own without a transaction.    *)
patchOwnApplication(r) ==
  /\ Writing(r, "patch") /\ Finished(r)
  /\ complete' \in BOOLEAN
  /\ UNCHANGED <<app, documents, storeStatus, overridden, hist, mails, untold>>

addDocument(r) ==
  /\ Writing(r, "addDocument") /\ Finished(r)
  /\ \E d \in Documents \ documents : documents' = documents \cup {d}
  /\ UNCHANGED <<app, complete, storeStatus, overridden, hist, mails, untold>>

removeDocument(r) ==
  /\ Writing(r, "removeDocument") /\ Finished(r)
  /\ \E d \in documents : documents' = documents \ {d}
  /\ UNCHANGED <<app, complete, storeStatus, overridden, hist, mails, untold>>

(* The cancellation deletes the mails of the application, all there are    *)
(* when its first statement runs; others see that when it commits.         *)
DeleteMails(r) ==
  /\ Writing(r, "cancel")
  /\ request' = [request EXCEPT ![r] = [phase |-> "clearing", cleared |-> mails]]
  /\ UNCHANGED <<app, complete, documents, storeStatus, overridden, hist, mails, untold>>

(* Then the application, the store and the user go.  Documents and history *)
(* go by cascade; a mail queued since the first statement stays, its       *)
(* applicationId set to NULL.                                              *)
cancelOwnApplication(r) ==
  /\ app.exists /\ request[r].phase = "clearing"
  /\ app' = [app EXCEPT !.exists = FALSE]
  /\ documents' = {} /\ hist' = <<>>
  /\ mails' = mails \ request[r].cleared
  /\ request' = [request EXCEPT ![r] = [phase |-> "cancelled", left |-> mails']]
  /\ UNCHANGED <<complete, storeStatus, overridden, untold>>

-----------------------------------------------------------------------------
(* What every decision's transaction does: the row takes the new status,   *)
(* the history records the status read and the new one, and a mail is due. *)
(* A submission also numbers itself, from the version it read.             *)
Record(r) ==
  /\ Len(hist) < MaxHistory
  /\ LET to == Target[request[r].kind] IN
     /\ app' = [app EXCEPT !.status = to,
                  !.version = IF to = "SUBMITTED" THEN request[r].version + 1 ELSE @]
     /\ hist' = Append(hist, [from |-> request[r].status, to |-> to])
  /\ request' = [request EXCEPT ![r] =
       [phase |-> "owes", to |-> Target[request[r].kind], at |-> Len(hist) + 1]]
  /\ UNCHANGED <<complete, documents, overridden, mails, untold>>

doSubmit(r) ==
  /\ Writing(r, "submit") \/ Writing(r, "resubmit")
  /\ Record(r) /\ storeStatus' = storeStatus

startReview(r) == Writing(r, "startReview") /\ Record(r) /\ storeStatus' = storeStatus

requestChanges(r) == Writing(r, "requestChanges") /\ Record(r) /\ storeStatus' = storeStatus

reject(r) == Writing(r, "reject") /\ Record(r) /\ storeStatus' = storeStatus

(* The store is opened.                                                    *)
approve(r) == Writing(r, "approve") /\ Record(r) /\ storeStatus' = "ACTIVE"

(* Mutant: whatever the application was, its store is closed. *)
SuspendAlwaysCloses(r) == Writing(r, "suspend") /\ Record(r) /\ storeStatus' = "SUSPENDED"

(* The store is closed if the application had been approved when read.     *)
suspend(r) ==
  /\ Writing(r, "suspend") /\ Record(r)
  /\ storeStatus' = IF request[r].status = "APPROVED" THEN "SUSPENDED" ELSE storeStatus

(* The row is read again, and the mail composed: its key is the type of    *)
(* the decision and the version the row now has; a receipt tells of the    *)
(* submission, every other mail tells the status the row now has.          *)
Compose(r) ==
  /\ request[r].phase = "owes" /\ app.exists
  /\ LET to   == request[r].to
         mail == [type    |-> MailType[to],
                  version |-> app.version,
                  text    |-> IF to = "SUBMITTED" THEN to ELSE app.status]
     IN  request' = [request EXCEPT ![r] =
           [phase |-> "composed", to |-> to, at |-> request[r].at, mail |-> mail]]
  /\ UNCHANGED <<app, complete, documents, storeStatus, overridden, hist, mails, untold>>

(* Mutant: one mail per submission, whatever its type. *)
EnqueueOncePerVersion(r) ==
  /\ request[r].phase = "composed" /\ app.exists
  /\ Finished(r)
  /\ LET mail == request[r].mail IN
     mails' = IF \E m \in mails : m.version = mail.version THEN mails ELSE mails \cup {mail}
  /\ UNCHANGED <<app, complete, documents, storeStatus, overridden, hist, untold>>

(* The mail is queued unless one with its key exists.  Its row refers to   *)
(* the application, which must still be there.                             *)
Enqueue(r) ==
  /\ request[r].phase = "composed" /\ app.exists
  /\ Finished(r)
  /\ LET mail == request[r].mail
         queued == \E m \in mails : m.type = mail.type /\ m.version = mail.version
     IN  mails' = IF queued THEN mails ELSE mails \cup {mail}
  /\ UNCHANGED <<app, complete, documents, storeStatus, overridden, hist, untold>>

(* The bell notice, the read or the mail's row fails after the commit: the *)
(* handler throws, the decision stands and nobody sends the mail.          *)
TellingFails(r) ==
  /\ request[r].phase \in {"owes", "composed"}
  /\ Finished(r)
  /\ untold' = untold \cup {request[r].at}
  /\ UNCHANGED <<app, complete, documents, storeStatus, overridden, hist, mails>>

(* Mutant: the endpoint takes every status of the column. *)
UpdateStatusAny ==
  /\ app.exists
  /\ storeStatus' \in StoreStatuses \cup {"MAINTENANCE"}
  /\ overridden' = TRUE
  /\ UNCHANGED <<app, complete, documents, hist, mails, untold, request>>

(* admin.updateStatus: Store.status is also a switch of its own.           *)
updateStatus ==
  /\ app.exists
  /\ storeStatus' \in StoreStatuses
  /\ overridden' = TRUE
  /\ UNCHANGED <<app, complete, documents, hist, mails, untold, request>>

Next ==
  \/ \E r \in Requests :
       \/ Read(r) \/ Abort(r)
       \/ patchOwnApplication(r) \/ addDocument(r) \/ removeDocument(r)
       \/ DeleteMails(r) \/ cancelOwnApplication(r)
       \/ doSubmit(r) \/ startReview(r) \/ approve(r)
       \/ requestChanges(r) \/ reject(r) \/ suspend(r)
       \/ Compose(r) \/ Enqueue(r) \/ TellingFails(r)
  \/ updateStatus

Spec == Init /\ [][Next]_vars

-----------------------------------------------------------------------------
Mail == [type : {MailType[s] : s \in DOMAIN MailType}, version : Nat, text : Statuses]

(* The variables keep their shapes.                                        *)
TypeOK ==
  /\ app \in [exists : BOOLEAN, status : Statuses, version : Nat]
  /\ complete \in BOOLEAN
  /\ documents \subseteq Documents
  /\ storeStatus \in StoreStatuses /\ overridden \in BOOLEAN
  /\ hist \in Seq([from : Statuses, to : Statuses])
  /\ mails \subseteq Mail
  /\ untold \subseteq Nat
  /\ request \in [Requests ->
       {Idle}
       \cup [phase : {"read"}, kind : Handlers, status : Statuses, version : Nat]
       \cup [phase : {"clearing"}, cleared : SUBSET Mail]
       \cup [phase : {"cancelled"}, left : SUBSET Mail]
       \cup [phase : {"owes"}, to : DOMAIN MailType, at : Nat]
       \cup [phase : {"composed"}, to : DOMAIN MailType, at : Nat, mail : Mail]]

Been(s, n) == s = "DRAFT" \/ \E j \in 1 .. n : hist[j].to = s

(* The history ends in the present status, and every decision in it was    *)
(* taken from a status the application had had, and may be taken from it:  *)
(* overlapping reviewers repeat or reverse decisions, they do not invent a *)
(* past.                                                                   *)
HistoryIsPath ==
  app.exists =>
    /\ app.status = IF hist = <<>> THEN "DRAFT" ELSE hist[Len(hist)].to
    /\ \A i \in 1 .. Len(hist) :
         /\ Been(hist[i].from, i - 1)
         /\ \E k \in Deciders : Target[k] = hist[i].to /\ hist[i].from \in Accepted[k]

(* Opens and closes are the decisions that touch the store.                *)
Opens(i) == hist[i].to = "APPROVED"
Closes(i) == hist[i].to = "SUSPENDED" /\ hist[i].from = "APPROVED"

(* Unless an admin set it by hand, the store's status is what the last     *)
(* decision that touches stores made it: none opens or closes unrecorded.  *)
StoreFollowsHistory ==
  app.exists /\ ~overridden =>
    \/ storeStatus = "PENDING" /\ \A i \in 1 .. Len(hist) : ~Opens(i) /\ ~Closes(i)
    \/ \E i \in 1 .. Len(hist) :
         /\ storeStatus = IF Opens(i) THEN "ACTIVE" ELSE "SUSPENDED"
         /\ Opens(i) \/ Closes(i)
         /\ \A j \in i + 1 .. Len(hist) : ~Opens(j) /\ ~Closes(j)

Owed(i) ==
  \E r \in Requests : request[r].phase \in {"owes", "composed"} /\ request[r].at = i

(* What a mail says was decided: the decision it is the mail of, or a      *)
(* later one that overtook it before it was composed.                      *)
Tells(m, i) ==
  /\ m.type = MailType[hist[i].to]
  /\ \E j \in i .. Len(hist) : hist[j].to = m.text

(* Every decision has a mail of its type, or the request that took it      *)
(* still owes the mail, or failed with an error after the decision; and no *)
(* mail tells of a decision that was not taken, or tells less than the     *)
(* decision it is the mail of.                                             *)
DecisionsTold ==
  app.exists =>
    /\ \A i \in 1 .. Len(hist) :
         (\E m \in mails : m.type = MailType[hist[i].to]) \/ Owed(i) \/ i \in untold
    /\ \A m \in mails : \E i \in 1 .. Len(hist) : Tells(m, i)

(* Once a registration is cancelled nothing comes back, no late review,    *)
(* upload or mail of a request that had read it.  All that is left are     *)
(* mails that were queued while the cancellation was between its two       *)
(* statements.                                                             *)
NothingAfterCancel ==
  ~app.exists =>
    /\ hist = <<>> /\ documents = {}
    /\ \E r \in Requests : request[r].phase = "cancelled" /\ mails = request[r].left

(* The version never runs ahead of the submissions: it counts them, less   *)
(* those that overlapped.                                                  *)
VersionCountsSubmissions ==
  app.exists =>
    app.version <= Cardinality({i \in 1 .. Len(hist) : hist[i].to = "SUBMITTED"})

(* What is on record of a registration can be relied on: the past that     *)
(* explains the status, the store that the decisions opened or closed, the *)
(* number of the submission, and nothing that comes back once it is        *)
(* cancelled.                                                              *)
RecordKept ==
  HistoryIsPath /\ StoreFollowsHistory /\ NothingAfterCancel /\ VersionCountsSubmissions

(* What lies with the reviewers changes only by requests that read the     *)
(* application while it was the merchant's.                                *)
EditedOnlyByStaleRead ==
  [][app.status \notin EDITABLE_STATUSES /\ app'.exists
       /\ (complete' # complete \/ documents' # documents) =>
     \E r \in Requests : /\ request[r].phase = "read" /\ request[r].kind \in Editors
                         /\ request[r].status \in EDITABLE_STATUSES
                         /\ request'[r].phase = "idle"]_vars
=============================================================================
