---------------------------- MODULE Mails_proofs ----------------------------
(***************************************************************************)
(* The mails, from the event that calls for one to the provider.           *)
(*                                                                         *)
(* The queue (EmailQueue) keeps its promise for any set of keys, any       *)
(* number of attempts and any number of restarts: a step of the queue is a *)
(* step of MailPromise or hides from it.  What is inductive says of every  *)
(* key that its job, its row and the attempts made so far agree (KeyInv).  *)
(*                                                                         *)
(* The notices (OrderMails) reach those they are for, for any orders,      *)
(* returns and requests.  What is inductive (MailsInv) follows every mail  *)
(* a stage calls for (Told), knows of a request that the status it read is *)
(* one its row has had, and of a method in flight that its next mail was   *)
(* let in by the plan or by a lookup that failed.                          *)
(***************************************************************************)
EXTENDS EmailQueue, OrderMails, TLAPS

(***************************************************************************)
(* The queue.                                                              *)
(***************************************************************************)

KeyInv(k) ==
  /\ log[k] = NoLog => job[k] = NoJob /\ sends[k] = 0
  /\ job[k] # NoJob =>
       /\ log[k].status = IF job[k].at = "start" THEN "QUEUED" ELSE "PROCESSING"
       /\ log[k].retryCount = job[k].attempt
       /\ sends[k] = job[k].attempt + (IF job[k].at \in {"sent", "catch"} THEN 1 ELSE 0)
       /\ job[k].at = "sent" => delivered[k] > 0
  /\ log[k].status = "SENT" => delivered[k] > 0
  /\ log[k].status = "FAILED" => sends[k] = MAX_RETRIES
  /\ delivered[k] <= sends[k]

QueueInv == TypeOK /\ \A k \in Keys : KeyInv(k)

-----------------------------------------------------------------------------
(* The records are told apart by their fields.                             *)
LEMMA Records ==
  /\ NoLog \notin Log /\ NoJob \notin Job
  /\ [status |-> "QUEUED", retryCount |-> 0, deleted |-> FALSE] \in Log
  /\ [attempt |-> 0, at |-> "start"] \in Job
BY QueueAssumption DEF NoLog, Log, NoJob, Job

LEMMA InitInv == Init => QueueInv
<1> SUFFICES ASSUME Init PROVE QueueInv
  OBVIOUS
<1>1. TypeOK
  BY QueueAssumption DEF Init, TypeOK
<1>2. ASSUME NEW k \in Keys PROVE KeyInv(k)
  <2>1. log[k] = NoLog /\ job[k] = NoJob /\ sends[k] = 0 /\ delivered[k] = 0
    BY DEF Init
  <2>2. NoLog.status = "NONE"
    BY DEF NoLog
  <2> QED
    BY <2>1, <2>2 DEF KeyInv
<1> QED
  BY <1>1, <1>2 DEF QueueInv

(* A step that changes what belongs to one key only keeps the invariant if *)
(* it keeps it for that key.                                               *)
LEMMA OneKey ==
  ASSUME QueueInv, NEW k \in Keys, NEW l \in Log \cup {NoLog}, NEW j \in Job \cup {NoJob},
         NEW s \in 0..MAX_RETRIES, NEW d \in 0..MAX_RETRIES,
         log' = [log EXCEPT ![k] = l], job' = [job EXCEPT ![k] = j],
         sends' = [sends EXCEPT ![k] = s], delivered' = [delivered EXCEPT ![k] = d],
         faults' \in 0..MaxFaults,
         KeyInv(k)'
  PROVE  QueueInv'
<1>1. TypeOK'
  BY DEF QueueInv, TypeOK
<1>2. ASSUME NEW x \in Keys, x # k
      PROVE  KeyInv(x)'
  <2>1. log'[x] = log[x] /\ job'[x] = job[x] /\ sends'[x] = sends[x] /\ delivered'[x] = delivered[x]
    BY <1>2 DEF QueueInv, TypeOK
  <2>2. KeyInv(x)
    BY DEF QueueInv
  <2> QED
    BY <2>1, <2>2 DEF KeyInv
<1> QED
  BY <1>1, <1>2 DEF QueueInv

(* What holds of a key while a job works on it.                            *)
LEMMA Working ==
  ASSUME QueueInv, NEW k \in Keys, job[k] # NoJob
  PROVE  /\ job[k] \in Job /\ log[k] \in Log
         /\ job[k].attempt \in 0..(MAX_RETRIES - 1)
         /\ sends[k] \in 0..MAX_RETRIES /\ delivered[k] \in 0..MAX_RETRIES
         /\ delivered[k] <= sends[k]
         /\ log[k].status = IF job[k].at = "start" THEN "QUEUED" ELSE "PROCESSING"
         /\ log[k].retryCount = job[k].attempt
         /\ sends[k] = job[k].attempt + (IF job[k].at \in {"sent", "catch"} THEN 1 ELSE 0)
         /\ job[k].at = "sent" => delivered[k] > 0
<1>1. TypeOK /\ KeyInv(k)
  BY DEF QueueInv
<1>2. job[k] \in Job /\ log[k] \in Log
  BY <1>1 DEF TypeOK, KeyInv
<1> QED
  BY <1>1, <1>2 DEF TypeOK, KeyInv, Job

-----------------------------------------------------------------------------
(* The invariant, action by action.                                        *)

LEMMA EnqueueInv ==
  ASSUME QueueInv, NEW k \in Keys, Enqueue(k)
  PROVE  QueueInv'
<1> DEFINE l == [status |-> "QUEUED", retryCount |-> 0, deleted |-> FALSE]
           j == [attempt |-> 0, at |-> "start"]
<1>1. TypeOK /\ KeyInv(k) /\ l \in Log /\ j \in Job /\ NoLog \notin Log
  BY Records DEF QueueInv
<1>2. /\ log' = [log EXCEPT ![k] = l] /\ job' = [job EXCEPT ![k] = j]
      /\ sends' = [sends EXCEPT ![k] = sends[k]]
      /\ delivered' = [delivered EXCEPT ![k] = delivered[k]]
      /\ faults' \in 0..MaxFaults /\ log[k] = NoLog
  BY <1>1 DEF Enqueue, TypeOK
<1>3. log'[k] = l /\ job'[k] = j /\ sends'[k] = sends[k] /\ delivered'[k] = delivered[k]
  BY <1>1, <1>2 DEF TypeOK
<1>4. sends[k] = 0 /\ delivered[k] \in 0..MAX_RETRIES /\ sends[k] \in 0..MAX_RETRIES
  BY <1>1, <1>2 DEF KeyInv, TypeOK
<1>5. KeyInv(k)'
  <2>1. /\ l.status = "QUEUED" /\ l.retryCount = 0 /\ j.at = "start" /\ j.attempt = 0
        /\ l # NoLog
    BY <1>1
  <2>2. delivered[k] = 0
    BY <1>1, <1>2, <1>4, QueueAssumption DEF KeyInv
  <2> HIDE DEF l, j
  <2> QED
    BY <1>3, <1>4, <2>1, <2>2 DEF KeyInv
<1> HIDE DEF l, j
<1> QED
  BY <1>1, <1>2, <1>4, <1>5, OneKey

LEMMA StartInv ==
  ASSUME QueueInv, NEW k \in Keys, Start(k)
  PROVE  QueueInv'
<1> DEFINE l == [log[k] EXCEPT !.status = "PROCESSING"]
           j == [job[k] EXCEPT !.at = "send"]
<1>1. job[k] # NoJob /\ job[k].at = "start" /\ TypeOK /\ KeyInv(k)
  BY DEF Start, NoJob, QueueInv
<1>2. /\ job[k] \in Job /\ log[k] \in Log
      /\ sends[k] \in 0..MAX_RETRIES /\ delivered[k] \in 0..MAX_RETRIES
  BY <1>1, Working
<1>3. /\ l \in Log /\ j \in Job /\ NoLog \notin Log
      /\ l.status = "PROCESSING" /\ l.retryCount = log[k].retryCount
      /\ j.at = "send" /\ j.attempt = job[k].attempt
  BY <1>2, Records DEF Log, Job
<1>4. /\ log' = [log EXCEPT ![k] = l] /\ job' = [job EXCEPT ![k] = j]
      /\ sends' = [sends EXCEPT ![k] = sends[k]]
      /\ delivered' = [delivered EXCEPT ![k] = delivered[k]]
      /\ faults' \in 0..MaxFaults
  <2>1. log' = [log EXCEPT ![k].status = "PROCESSING", ![k].retryCount = log[k].retryCount]
    BY DEF Start, Update
  <2>2. log' = [log EXCEPT ![k] = l]
    BY <1>1, <1>2, <2>1 DEF TypeOK, Log
  <2> QED
    BY <1>1, <2>2 DEF Start, Goto, TypeOK
<1>5. log'[k] = l /\ job'[k] = j /\ sends'[k] = sends[k] /\ delivered'[k] = delivered[k]
  BY <1>1, <1>4 DEF TypeOK
<1> HIDE DEF l, j
<1>6. KeyInv(k)'
  BY <1>1, <1>2, <1>3, <1>5, Working DEF KeyInv
<1> QED
  BY <1>2, <1>3, <1>4, <1>6, OneKey

LEMMA SendInv ==
  ASSUME QueueInv, NEW k \in Keys, Send(k)
  PROVE  QueueInv'
<1>1. job[k] # NoJob /\ job[k].at = "send" /\ TypeOK /\ KeyInv(k)
  BY DEF Send, NoJob, QueueInv
<1>2. /\ job[k] \in Job /\ log[k] \in Log
      /\ job[k].attempt \in 0..(MAX_RETRIES - 1)
      /\ sends[k] = job[k].attempt /\ delivered[k] \in 0..MAX_RETRIES
      /\ delivered[k] <= sends[k]
      /\ log[k].status = "PROCESSING" /\ log[k].retryCount = job[k].attempt
  BY <1>1, Working
<1>3. PICK at \in {"sent", "catch"}, d \in {delivered[k], delivered[k] + 1} :
        /\ job' = [job EXCEPT ![k].at = at]
        /\ delivered' = [delivered EXCEPT ![k] = d]
        /\ at = "sent" => d = delivered[k] + 1
  BY <1>1 DEF Send, Goto, TypeOK
<1> DEFINE j == [job[k] EXCEPT !.at = at]
<1>4. j \in Job /\ j.at = at /\ j.attempt = job[k].attempt /\ NoLog \notin Log
  BY <1>2, Records DEF Job
<1>5. /\ log' = [log EXCEPT ![k] = log[k]] /\ job' = [job EXCEPT ![k] = j]
      /\ sends' = [sends EXCEPT ![k] = sends[k] + 1]
      /\ faults' \in 0..MaxFaults
  BY <1>1, <1>3 DEF Send, TypeOK
<1>6. log'[k] = log[k] /\ job'[k] = j /\ sends'[k] = sends[k] + 1 /\ delivered'[k] = d
  BY <1>1, <1>3, <1>5 DEF TypeOK
<1> HIDE DEF j
<1>7. /\ sends[k] + 1 \in 0..MAX_RETRIES /\ d \in 0..MAX_RETRIES /\ d <= sends[k] + 1
      /\ (at = "sent" => d > 0)
  BY <1>2, <1>3, QueueAssumption
<1>8. KeyInv(k)'
  BY <1>2, <1>3, <1>4, <1>6, <1>7 DEF KeyInv
<1> QED
  BY <1>2, <1>3, <1>4, <1>5, <1>7, <1>8, OneKey

(* The three ways a process() call writes its row again.                   *)
LEMMA ReportInv ==
  ASSUME QueueInv, NEW k \in Keys, MarkSent(k) \/ Retry(k) \/ GiveUp(k)
  PROVE  QueueInv'
<1>1. job[k] # NoJob /\ job[k].at \in {"sent", "catch"} /\ TypeOK /\ KeyInv(k)
  BY DEF MarkSent, Retry, GiveUp, NoJob, QueueInv
<1>2. /\ job[k] \in Job /\ log[k] \in Log
      /\ job[k].attempt \in 0..(MAX_RETRIES - 1)
      /\ sends[k] = job[k].attempt + 1 /\ sends[k] \in 0..MAX_RETRIES
      /\ delivered[k] \in 0..MAX_RETRIES /\ delivered[k] <= sends[k]
      /\ log[k].retryCount = job[k].attempt
      /\ (job[k].at = "sent" => delivered[k] > 0)
  BY <1>1, Working
<1>3. /\ sends' = [sends EXCEPT ![k] = sends[k]]
      /\ delivered' = [delivered EXCEPT ![k] = delivered[k]]
      /\ faults' \in 0..MaxFaults
  BY <1>1 DEF MarkSent, Retry, GiveUp, TypeOK
<1>4. PICK status \in {"SENT", "QUEUED", "FAILED"}, n \in 0..MAX_RETRIES, j \in Job \cup {NoJob} :
        /\ log' = [log EXCEPT ![k].status = status, ![k].retryCount = n]
        /\ job' = [job EXCEPT ![k] = j]
        /\ status = "QUEUED" => /\ j = [attempt |-> job[k].attempt + 1, at |-> "start"]
                                /\ n = job[k].attempt + 1 /\ j # NoJob
        /\ status # "QUEUED" => j = NoJob
        /\ status = "SENT" => job[k].at = "sent"
        /\ status = "FAILED" => job[k].attempt + 1 >= MAX_RETRIES
  <2>1. CASE MarkSent(k)
    <3>1. log[k].retryCount \in 0..MAX_RETRIES
      BY <1>2, QueueAssumption
    <3> QED
      BY <2>1, <3>1 DEF MarkSent, Update
  <2>2. CASE Retry(k)
    <3>1. [attempt |-> job[k].attempt + 1, at |-> "start"] \in Job
      BY <1>2, <2>2, QueueAssumption DEF Retry, Job
    <3>2. job[k].attempt + 1 \in 0..MAX_RETRIES
      BY <1>2, QueueAssumption
    <3> QED
      BY <2>2, <3>1, <3>2, Records DEF Retry, Update
  <2>3. CASE GiveUp(k)
    <3>1. job[k].attempt + 1 \in 0..MAX_RETRIES
      BY <1>2, QueueAssumption
    <3> QED
      BY <2>3, <3>1 DEF GiveUp, Update
  <2> QED
    BY <2>1, <2>2, <2>3
<1> DEFINE l == [log[k] EXCEPT !.status = status, !.retryCount = n]
<1>5. l \in Log /\ l.status = status /\ l.retryCount = n /\ NoLog \notin Log
  BY <1>2, Records DEF Log
<1>6. log' = [log EXCEPT ![k] = l]
  BY <1>1, <1>2, <1>4 DEF TypeOK, Log
<1> HIDE DEF l
<1>7. log'[k] = l /\ job'[k] = j /\ sends'[k] = sends[k] /\ delivered'[k] = delivered[k]
  BY <1>1, <1>3, <1>4, <1>6 DEF TypeOK
<1>8. KeyInv(k)'
  BY <1>2, <1>4, <1>5, <1>7, QueueAssumption DEF KeyInv
<1> QED
  BY <1>2, <1>3, <1>4, <1>5, <1>6, <1>8, OneKey

(* A job that is lost, or whose SENT update failed, changes nothing else.  *)
LEMMA LoseInv ==
  ASSUME QueueInv, NEW k \in Keys, LoseJob(k),
         UNCHANGED <<log, sends, delivered>>, faults' \in 0..MaxFaults
  PROVE  QueueInv'
<1>1. job[k] # NoJob /\ TypeOK /\ KeyInv(k)
  BY DEF LoseJob, NoJob, QueueInv
<1>2. /\ job[k] \in Job /\ log[k] \in Log
      /\ sends[k] \in 0..MAX_RETRIES /\ delivered[k] \in 0..MAX_RETRIES
  BY <1>1, Working
<1>3. PICK j \in Job \cup {NoJob} :
        /\ job' = [job EXCEPT ![k] = j]
        /\ j = NoJob \/ /\ job[k].at = "sent" /\ j.at = "catch"
                        /\ j.attempt = job[k].attempt
  <2>1. CASE job' = [job EXCEPT ![k] = NoJob]
    BY <2>1
  <2>2. CASE job[k].at = "sent" /\ Goto(k, "catch")
    <3>1. /\ [job[k] EXCEPT !.at = "catch"] \in Job
          /\ [job[k] EXCEPT !.at = "catch"].at = "catch"
          /\ [job[k] EXCEPT !.at = "catch"].attempt = job[k].attempt
      BY <1>2 DEF Job
    <3>2. job' = [job EXCEPT ![k] = [job[k] EXCEPT !.at = "catch"]]
      BY <2>2 DEF Goto
    <3> QED
      BY <2>2, <3>1, <3>2
  <2> QED
    BY <2>1, <2>2 DEF LoseJob
<1>4. /\ log' = [log EXCEPT ![k] = log[k]] /\ sends' = [sends EXCEPT ![k] = sends[k]]
      /\ delivered' = [delivered EXCEPT ![k] = delivered[k]]
  BY <1>1 DEF TypeOK
<1>5. log'[k] = log[k] /\ job'[k] = j /\ sends'[k] = sends[k] /\ delivered'[k] = delivered[k]
  BY <1>1, <1>3, <1>4 DEF TypeOK
<1>6. KeyInv(k)'
  <2>1. log[k] # NoLog
    BY <1>2, Records
  <2> QED
    BY <1>1, <1>3, <1>5, <2>1 DEF KeyInv
<1> QED
  BY <1>2, <1>3, <1>4, <1>6, OneKey

LEMMA NextInv == QueueInv /\ [Next]_vars => QueueInv'
<1> SUFFICES ASSUME QueueInv, [Next]_vars PROVE QueueInv'
  OBVIOUS
<1>0. TypeOK /\ \A k \in Keys : KeyInv(k)
  BY DEF QueueInv
<1>1. ASSUME NEW k \in Keys, RowGone(k)
      PROVE  QueueInv'
  BY <1>0, <1>1, LoseInv DEF RowGone, TypeOK
<1>2. ASSUME NEW k \in Keys, DatabaseFails(k)
      PROVE  QueueInv'
  <2>1. faults' \in 0..MaxFaults
    BY <1>0, <1>2, QueueAssumption DEF DatabaseFails, TypeOK
  <2> QED
    BY <1>2, <2>1, LoseInv DEF DatabaseFails
<1>3. ASSUME NEW k \in Keys, DeleteRow(k)
      PROVE  QueueInv'
  <2> DEFINE l == [log[k] EXCEPT !.deleted = TRUE]
  <2>1. log[k] \in Log /\ log[k] # NoLog
    BY <1>0, <1>3 DEF DeleteRow, HasRow, TypeOK
  <2>2. /\ l \in Log /\ l.status = log[k].status /\ l.retryCount = log[k].retryCount
        /\ l # NoLog
    BY <2>1, Records DEF Log
  <2>3. /\ log' = [log EXCEPT ![k] = l]
        /\ job' = [job EXCEPT ![k] = job[k]] /\ sends' = [sends EXCEPT ![k] = sends[k]]
        /\ delivered' = [delivered EXCEPT ![k] = delivered[k]] /\ faults' \in 0..MaxFaults
    BY <1>0, <1>3 DEF DeleteRow, TypeOK
  <2> HIDE DEF l
  <2>4. log'[k] = l /\ job' = job /\ sends' = sends /\ delivered' = delivered
    BY <1>0, <1>3, <2>3 DEF DeleteRow, TypeOK
  <2>5. KeyInv(k)'
    BY <1>0, <2>1, <2>2, <2>4 DEF KeyInv
  <2>6. /\ job[k] \in Job \cup {NoJob} /\ sends[k] \in 0..MAX_RETRIES
        /\ delivered[k] \in 0..MAX_RETRIES
    BY <1>0 DEF TypeOK
  <2> QED
    BY <2>2, <2>3, <2>5, <2>6, OneKey
<1>4. CASE Restart
  <2>1. TypeOK'
    BY <1>0, <1>4, QueueAssumption DEF Restart, TypeOK
  <2>2. ASSUME NEW k \in Keys PROVE KeyInv(k)'
    <3>1. job'[k] = NoJob /\ log' = log /\ sends' = sends /\ delivered' = delivered
      BY <1>4 DEF Restart
    <3> QED
      BY <1>0, <3>1 DEF KeyInv
  <2> QED
    BY <2>1, <2>2 DEF QueueInv
<1>5. CASE UNCHANGED vars
  <2>1. UNCHANGED <<log, job, sends, delivered, faults>>
    BY <1>5 DEF vars
  <2> QED
    BY <1>0, <2>1 DEF QueueInv, TypeOK, KeyInv
<1> QED
  BY <1>1, <1>2, <1>3, <1>4, <1>5, EnqueueInv, StartInv, SendInv, ReportInv DEF Next, Work

(* Of every key, its job, its row and the attempts made always agree.     *)
THEOREM QueueInvariance == Spec => []QueueInv
BY InitInv, NextInv, PTL DEF Spec

(* Never more than MAX_RETRIES calls of mail.send per key, among the types. *)
THEOREM QueueTypeCorrect == Spec => []TypeOK
<1>1. QueueInv => TypeOK
  BY DEF QueueInv
<1> QED
  BY <1>1, QueueInvariance, PTL

(* The attempt a job is at is the one its row shows, after any sequence of *)
(* lost answers, failed updates and restarts; SENT means taken by the      *)
(* provider, FAILED that every attempt was made.                           *)
THEOREM LogAlwaysHonest == Spec => []LogHonest
<1>1. QueueInv => JobMatchesRow
  BY Working DEF JobMatchesRow
<1>2. QueueInv => StatusEarned
  BY DEF QueueInv, KeyInv, StatusEarned
<1>3. QueueInv => LogHonest
  BY <1>1, <1>2 DEF LogHonest
<1> QED
  BY <1>3, QueueInvariance, PTL

-----------------------------------------------------------------------------
(* The promise.                                                            *)

(* A step that touches one key leaves the phase of every other.            *)
LEMMA PhaseElsewhere ==
  ASSUME TypeOK, NEW k \in Keys, NEW l, NEW j,
         log' = [log EXCEPT ![k] = l], job' = [job EXCEPT ![k] = j]
  PROVE  phase' = [phase EXCEPT ![k] = phase'[k]]
<1>1. /\ phase' = [x \in Keys |-> phase'[x]] /\ phase = [x \in Keys |-> phase[x]]
  BY DEF phase
<1>2. ASSUME NEW x \in Keys, x # k
      PROVE  phase'[x] = phase[x]
  <2>1. log'[x] = log[x] /\ job'[x] = job[x]
    BY <1>2 DEF TypeOK
  <2> QED
    BY <2>1 DEF phase, Settled
<1> QED
  BY <1>1, <1>2

LEMMA PhaseUnchanged ==
  ASSUME QueueInv, NEW k \in Keys, NEW l \in Log, NEW j \in Job,
         log' = [log EXCEPT ![k] = l], job' = [job EXCEPT ![k] = j],
         job[k] # NoJob
  PROVE  phase' = phase
<1>1. log[k] # NoLog /\ TypeOK
  BY Working, Records DEF QueueInv
<1>2. log'[k] = l /\ job'[k] = j /\ l # NoLog /\ j # NoJob
  BY <1>1, Records DEF TypeOK
<1>3. phase'[k] = "owed" /\ phase[k] = "owed"
  BY <1>1, <1>2 DEF phase
<1>4. phase' = [phase EXCEPT ![k] = phase'[k]] /\ phase = [x \in Keys |-> phase[x]]
  BY <1>1, PhaseElsewhere DEF phase
<1> QED
  BY <1>3, <1>4

(* A job that ends settles its mail or drops it.                           *)
LEMMA PhaseEnds ==
  ASSUME QueueInv, NEW k \in Keys, NEW l \in Log,
         log' = [log EXCEPT ![k] = l], job' = [job EXCEPT ![k] = NoJob],
         job[k] # NoJob
  PROVE  /\ phase[k] = "owed"
         /\ phase' = [phase EXCEPT ![k] =
                        IF l.status \in {"SENT", "FAILED"} THEN "settled" ELSE "dropped"]
<1>1. log[k] # NoLog /\ TypeOK
  BY Working, Records DEF QueueInv
<1>2. log'[k] = l /\ job'[k] = NoJob /\ l # NoLog
  BY <1>1, Records DEF TypeOK
<1>3. /\ phase[k] = "owed"
      /\ phase'[k] = IF l.status \in {"SENT", "FAILED"} THEN "settled" ELSE "dropped"
  BY <1>1, <1>2 DEF phase, Settled
<1>4. phase' = [phase EXCEPT ![k] = phase'[k]]
  BY <1>1, PhaseElsewhere
<1> QED
  BY <1>3, <1>4

LEMMA WorkKeepsPromise ==
  ASSUME QueueInv, NEW k \in Keys, Start(k) \/ Send(k) \/ MarkSent(k) \/ Retry(k) \/ GiveUp(k)
  PROVE  Promise!Next \/ UNCHANGED <<phase, sends>>
<1>1. job[k] # NoJob /\ TypeOK
  BY DEF Start, Send, MarkSent, Retry, GiveUp, NoJob, QueueInv
<1>2. /\ job[k] \in Job /\ log[k] \in Log /\ log[k] # NoLog
      /\ job[k].attempt \in 0..(MAX_RETRIES - 1)
      /\ sends[k] = job[k].attempt + (IF job[k].at \in {"sent", "catch"} THEN 1 ELSE 0)
  BY <1>1, Working, Records
<1>3. CASE Start(k)
  <2>1. /\ [log[k] EXCEPT !.status = "PROCESSING", !.retryCount = log[k].retryCount] \in Log
        /\ [job[k] EXCEPT !.at = "send"] \in Job
    BY <1>2 DEF Log, Job
  <2>2. /\ log' = [log EXCEPT ![k] = [log[k] EXCEPT !.status = "PROCESSING",
                                                     !.retryCount = log[k].retryCount]]
        /\ job' = [job EXCEPT ![k] = [job[k] EXCEPT !.at = "send"]]
        /\ sends' = sends
    BY <1>1, <1>3 DEF Start, Update, Goto, TypeOK
  <2> QED
    BY <1>1, <2>1, <2>2, PhaseUnchanged
<1>4. CASE Send(k)
  <2>1. PICK at \in {"sent", "catch"} : job' = [job EXCEPT ![k] = [job[k] EXCEPT !.at = at]]
    BY <1>4 DEF Send, Goto
  <2>2. [job[k] EXCEPT !.at = at] \in Job
    BY <1>2 DEF Job
  <2>3. /\ log' = [log EXCEPT ![k] = log[k]]
        /\ sends' = [sends EXCEPT ![k] = @ + 1] /\ job[k].at = "send"
    BY <1>1, <1>4 DEF Send, TypeOK
  <2>4. phase' = phase
    BY <1>1, <1>2, <2>1, <2>2, <2>3, PhaseUnchanged
  <2>5. phase[k] = "owed"
    BY <1>1, <1>2 DEF phase
  <2>6. sends[k] < MAX_RETRIES
    BY <1>2, <2>3, QueueAssumption
  <2> QED
    BY <2>3, <2>4, <2>5, <2>6 DEF Promise!Next, Promise!Attempt
<1>5. CASE MarkSent(k) \/ GiveUp(k)
  <2>1. PICK status \in {"SENT", "FAILED"}, n \in 0..MAX_RETRIES :
          log' = [log EXCEPT ![k].status = status, ![k].retryCount = n]
    <3>1. log[k].retryCount \in 0..MAX_RETRIES /\ job[k].attempt + 1 \in 0..MAX_RETRIES
      BY <1>2, QueueAssumption DEF Log
    <3> QED
      BY <1>5, <3>1 DEF MarkSent, GiveUp, Update
  <2> DEFINE l == [log[k] EXCEPT !.status = status, !.retryCount = n]
  <2>2. l \in Log /\ l.status = status
    BY <1>2 DEF Log
  <2>3. /\ log' = [log EXCEPT ![k] = l] /\ job' = [job EXCEPT ![k] = NoJob] /\ sends' = sends
    BY <1>1, <1>5, <2>1 DEF MarkSent, GiveUp, TypeOK
  <2> HIDE DEF l
  <2>4. phase[k] = "owed" /\ phase' = [phase EXCEPT ![k] = "settled"]
    BY <1>1, <2>2, <2>3, PhaseEnds
  <2>5. sends[k] > 0
    BY <1>2, <1>5 DEF MarkSent, GiveUp
  <2> QED
    BY <2>3, <2>4, <2>5 DEF Promise!Next, Promise!Settle
<1>6. CASE Retry(k)
  <2>1. /\ job[k].attempt + 1 \in 0..MAX_RETRIES
        /\ [attempt |-> job[k].attempt + 1, at |-> "start"] \in Job
    BY <1>2, <1>6, QueueAssumption DEF Retry, Job
  <2>2. [log[k] EXCEPT !.status = "QUEUED", !.retryCount = job[k].attempt + 1] \in Log
    BY <1>2, <2>1 DEF Log
  <2>3. /\ log' = [log EXCEPT ![k] = [log[k] EXCEPT !.status = "QUEUED",
                                                     !.retryCount = job[k].attempt + 1]]
        /\ job' = [job EXCEPT ![k] = [attempt |-> job[k].attempt + 1, at |-> "start"]]
        /\ sends' = sends
    BY <1>1, <1>6 DEF Retry, Update, TypeOK
  <2> QED
    BY <1>1, <2>1, <2>2, <2>3, PhaseUnchanged
<1> QED
  BY <1>3, <1>4, <1>5, <1>6

LEMMA LossKeepsPromise ==
  ASSUME QueueInv, NEW k \in Keys, LoseJob(k), UNCHANGED <<log, sends>>
  PROVE  Promise!Next \/ UNCHANGED <<phase, sends>>
<1>1. job[k] # NoJob /\ TypeOK
  BY DEF LoseJob, NoJob, QueueInv
<1>2. /\ job[k] \in Job /\ log[k] \in Log
      /\ log[k].status = IF job[k].at = "start" THEN "QUEUED" ELSE "PROCESSING"
  BY <1>1, Working
<1>3. log' = [log EXCEPT ![k] = log[k]]
  BY <1>1 DEF TypeOK
<1>4. CASE job' = [job EXCEPT ![k] = NoJob]
  <2>1. phase[k] = "owed" /\ phase' = [phase EXCEPT ![k] = "dropped"]
    BY <1>1, <1>2, <1>3, <1>4, PhaseEnds
  <2>2. phase' = [x \in Keys |-> IF x \in {k} THEN "dropped" ELSE phase[x]]
    BY <2>1 DEF phase
  <2>3. Promise!Drop({k})
    BY <2>1, <2>2 DEF Promise!Drop
  <2> QED
    BY <2>3 DEF Promise!Next
<1>5. CASE Goto(k, "catch")
  <2>1. [job[k] EXCEPT !.at = "catch"] \in Job
    BY <1>2 DEF Job
  <2>2. job' = [job EXCEPT ![k] = [job[k] EXCEPT !.at = "catch"]]
    BY <1>5 DEF Goto
  <2> QED
    BY <1>1, <1>2, <1>3, <2>1, <2>2, PhaseUnchanged
<1> QED
  BY <1>4, <1>5 DEF LoseJob

LEMMA StepKeepsPromise ==
  QueueInv /\ [Next]_vars => [Promise!Next]_<<phase, sends>>
<1> SUFFICES ASSUME QueueInv, [Next]_vars
             PROVE  Promise!Next \/ UNCHANGED <<phase, sends>>
  OBVIOUS
<1>0. TypeOK
  BY DEF QueueInv
<1>1. ASSUME NEW k \in Keys, Enqueue(k)
      PROVE  Promise!Next
  <2> DEFINE l == [status |-> "QUEUED", retryCount |-> 0, deleted |-> FALSE]
             j == [attempt |-> 0, at |-> "start"]
  <2>1. /\ log' = [log EXCEPT ![k] = l] /\ job' = [job EXCEPT ![k] = j]
        /\ l # NoLog /\ j # NoJob /\ sends' = sends /\ log[k] = NoLog
    BY <1>1, Records DEF Enqueue
  <2> HIDE DEF l, j
  <2>2. phase' = [phase EXCEPT ![k] = phase'[k]]
    BY <1>0, <2>1, PhaseElsewhere
  <2>3. phase[k] = "none" /\ phase'[k] = "owed"
    BY <1>0, <2>1 DEF phase, TypeOK
  <2> QED
    BY <2>1, <2>2, <2>3 DEF Promise!Next, Promise!Accept
<1>2. ASSUME NEW k \in Keys, DeleteRow(k)
      PROVE  UNCHANGED <<phase, sends>>
  <2>1. log[k] \in Log /\ log[k] # NoLog
    BY <1>0, <1>2 DEF DeleteRow, HasRow, TypeOK
  <2>2. /\ log'[k] # NoLog /\ log'[k].status = log[k].status
        /\ \A x \in Keys : x # k => log'[x] = log[x]
        /\ job' = job /\ sends' = sends
    BY <1>0, <1>2, <2>1, Records DEF DeleteRow, TypeOK, Log
  <2>3. \A x \in Keys : phase'[x] = phase[x]
    BY <2>1, <2>2 DEF phase, Settled
  <2>4. phase' = [x \in Keys |-> phase'[x]] /\ phase = [x \in Keys |-> phase[x]]
    BY DEF phase
  <2> QED
    BY <2>2, <2>3, <2>4
<1>3. CASE Restart
  <2> DEFINE S == {k \in Keys : job[k] # NoJob}
  <2>1. \A k \in S : phase[k] = "owed"
    <3>1. \A k \in S : log[k] # NoLog
      BY Working, Records
    <3> QED
      BY <3>1 DEF phase
  <2>2. \A k \in S : log[k].status \notin {"SENT", "FAILED"} /\ log[k] # NoLog
    BY Working, Records
  <2>3. log' = log /\ sends' = sends /\ job' = [k \in Keys |-> NoJob]
    BY <1>3 DEF Restart
  <2>4. \A k \in Keys : phase'[k] = IF k \in S THEN "dropped" ELSE phase[k]
    BY <2>2, <2>3 DEF phase, Settled
  <2>5. phase' = [k \in Keys |-> IF k \in S THEN "dropped" ELSE phase[k]]
    <3>1. phase' = [k \in Keys |-> phase'[k]]
      BY DEF phase
    <3> HIDE DEF S
    <3> QED
      BY <2>4, <3>1
  <2>6. Promise!Drop(S)
    BY <2>1, <2>3, <2>5 DEF Promise!Drop
  <2> QED
    BY <2>6 DEF Promise!Next
<1>4. CASE UNCHANGED vars
  BY <1>4 DEF vars, phase, Settled
<1> QED
  BY <1>1, <1>2, <1>3, <1>4, WorkKeepsPromise, LossKeepsPromise
  DEF Next, Work, RowGone, DatabaseFails

(* Each key is taken on once, handed to the provider at most MAX_RETRIES   *)
(* times, and only while it is owed; what is settled or lost stays so.     *)
THEOREM QueueImplementsPromise == Spec => KeepsPromise
<1>1. Init => Promise!Init
  BY DEF Init, Promise!Init, phase
<1> QED
  BY <1>1, StepKeepsPromise, QueueInvariance, PTL DEF Spec, KeepsPromise, Promise!Spec

(***************************************************************************)
(* The notices.                                                            *)
(***************************************************************************)
Reasons == {"failed", "no address", "plan", "stopped"}
Losses  == {"failed", "stopped"}

(* A mail is told of: queued, dropped for one of the reasons W, or ahead.  *)
Told(m, W) ==
  \/ m \in queued
  \/ \E d \in dropped : d.mail = m /\ d.why \in W
  \/ \E j \in sending : m \in LeftOf(j)

(* The reasons that may stop a mail: those of the plan and the address     *)
(* stop none but the gated ones.                                           *)
Enough(m, W) == Losses \subseteq W /\ (m.event \in Gated => Reasons \subseteq W)

(* What is true of a method in flight: its mails are some of its event's,  *)
(* it knows of the plan what it should, and a gated mail at the queue's    *)
(* door was let in by the plan or by a lookup that failed.                 *)
InFlight(j) ==
  /\ j = [id |-> j.id, notice |-> j.notice, todo |-> j.todo, entitled |-> j.entitled,
          sure |-> j.sure, step |-> j.step]
  /\ j.notice \in Notice
  /\ j.todo \in Seq(Announced) /\ j.todo # <<>>
  /\ j.entitled \in BOOLEAN /\ j.sure \in BOOLEAN
  /\ feature => j.entitled
  /\ (j.step = "enqueue" /\ Head(j.todo) \in Gated) => (j.entitled \/ ~ j.sure)

(* A request knows a status its row has had. *)
Reading(q) ==
  \/ request[q] = Idle
  \/ /\ request[q] \in [kind : {"move", "cancel"}, about : Subjects,
                        existing : Stages \cup {NoStage}, to : Stages]
     /\ request[q].kind = "cancel" => request[q].about \in Orders /\ request[q].to = "CANCELLED"
     /\ request[q].existing \in reached[request[q].about]
     /\ request[q].about \in Orders => "PENDING" \in reached[request[q].about]

Rows ==
  /\ stage \in [Subjects -> Stages \cup {NoStage}]
  /\ reached \in [Subjects -> SUBSET Stages] /\ reachable \subseteq Orders
  /\ feature \in BOOLEAN /\ handled \in 0..MaxHandled
  /\ queued \subseteq Mail
  /\ dropped \subseteq [mail : Mail, why : Reasons]
  /\ request \in [Requests -> {request[q] : q \in Requests}]

(* The status a row has is one it has had, and an order's first is PENDING. *)
Known ==
  \A s \in Subjects : stage[s] # NoStage =>
    stage[s] \in reached[s] /\ (s \in Orders => "PENDING" \in reached[s])

BuyersTold ==
  \A s \in Subjects : \A st \in reached[s] :
    (s \in Returns /\ st = "REQUESTED") \/ \E m : About(m, s, st) /\ Told(m, Reasons)

OwnersMail(o) == [event |-> "MERCHANT_NEW_ORDER", about |-> o, stage |-> "PENDING"]
OwnersTold == \A o \in Orders : "PENDING" \in reached[o] => Told(OwnersMail(o), Losses)

MailsInv ==
  /\ Rows /\ Known
  /\ \A j \in sending : InFlight(j)
  /\ \A q \in Requests : Reading(q)
  /\ BuyersTold /\ OwnersTold

-----------------------------------------------------------------------------
LEMMA ShortSeq ==
  ASSUME NEW S, NEW a \in S, NEW b \in S
  PROVE  /\ <<a>> \in Seq(S) /\ <<a>> # <<>> /\ Len(<<a>>) \in Nat
         /\ <<a, b>> \in Seq(S) /\ <<a, b>> # <<>> /\ Len(<<a, b>>) \in Nat
OBVIOUS

(* Every method announces something, and the mails it announces are mails. *)
LEMMA MethodsAnnounce ==
  ASSUME NEW k \in DOMAIN MailsFor
  PROVE  MailsFor[k] \in Seq(Announced) /\ MailsFor[k] # <<>>
<1> DEFINE N == ToBuyer \cup {"MERCHANT_NEW_ORDER", "MERCHANT_ORDER_CANCELLED", "SUBSCRIPTION",
                  "MERCHANT_WELCOME", "ADMIN_NEW_MERCHANT", "CUSTOMER_WELCOME", "PASSWORD_RESET"}
<1>1. MailsFor[k] # <<>> /\ Len(MailsFor[k]) \in Nat /\ MailsFor[k] \in Seq(N)
  <2>1. k = "orderPlaced" \/ k = "cancelledByCustomer" \/ \E x \in N : MailsFor[k] = <<x>>
    BY DEF MailsFor, ToBuyer
  <2>2. ASSUME NEW x \in N, MailsFor[k] = <<x>>
        PROVE  MailsFor[k] # <<>> /\ Len(MailsFor[k]) \in Nat /\ MailsFor[k] \in Seq(N)
    <3> HIDE DEF N, MailsFor
    <3> QED
      BY <2>2, ShortSeq
  <2>3. CASE k = "orderPlaced"
    <3>1. MailsFor[k] = <<"ORDER_CONFIRMATION", "MERCHANT_NEW_ORDER">>
      BY <2>3 DEF MailsFor
    <3> QED
      BY <3>1, ShortSeq DEF ToBuyer
  <2>4. CASE k = "cancelledByCustomer"
    <3>1. MailsFor[k] = <<"ORDER_CANCELLED_BY_CUSTOMER", "MERCHANT_ORDER_CANCELLED">>
      BY <2>4 DEF MailsFor
    <3> QED
      BY <3>1, ShortSeq DEF ToBuyer
  <2> QED
    BY <2>1, <2>2, <2>3, <2>4
<1>2. \A i \in 1..Len(MailsFor[k]) : MailsFor[k][i] \in Announced
  BY DEF Announced
<1> HIDE DEF MailsFor
<1> QED
  BY <1>1, <1>2

(* The mails ahead of a method: the first, and those of the method that    *)
(* goes on with the others.                                                *)
LEMMA LeftSplits ==
  ASSUME NEW j, InFlight(j)
  PROVE  /\ Head(j.todo) \in Announced
         /\ MailOf(j, Head(j.todo)) \in LeftOf(j)
         /\ LeftOf(j) \subseteq Mail
         /\ \A m \in LeftOf(j) :
              m = MailOf(j, Head(j.todo)) \/ \E n \in NextMail(j) : m \in LeftOf(n)
         /\ \A n \in NextMail(j) : n # j
<1> DEFINE S == j.todo
<1>0. S \in Seq(Announced) /\ S # <<>> /\ Len(S) \in Nat /\ Len(S) >= 1
  BY DEF InFlight
<1>1. Head(S) = S[1] /\ S[1] \in Announced /\ 1 \in 1..Len(S)
  BY <1>0
<1>2. MailOf(j, Head(S)) \in LeftOf(j)
  BY <1>1 DEF LeftOf
<1>3. LeftOf(j) \subseteq Mail
  BY <1>0 DEF LeftOf, MailOf, Mail, InFlight, Notice
<1>4. ASSUME NEW m \in LeftOf(j), m # MailOf(j, Head(S))
      PROVE  \E n \in NextMail(j) : m \in LeftOf(n)
  <2>1. PICK i \in 1..Len(S) : m = MailOf(j, S[i])
    BY DEF LeftOf
  <2>2. i # 1 /\ Len(S) # 1
    BY <2>1, <1>0, <1>1, <1>4
  <2> DEFINE n == [j EXCEPT !.todo = Tail(@), !.step = "check", !.sure = TRUE]
  <2>3. n \in NextMail(j) /\ n.todo = Tail(S) /\ n.notice = j.notice
    BY <2>2 DEF NextMail, InFlight
  <2>4. i - 1 \in 1..Len(Tail(S)) /\ Tail(S)[i - 1] = S[i]
    BY <2>2, <1>0
  <2>5. m = MailOf(n, n.todo[i - 1])
    BY <2>1, <2>3, <2>4 DEF MailOf
  <2> QED
    BY <2>3, <2>4, <2>5 DEF LeftOf
<1>5. ASSUME NEW n \in NextMail(j)
      PROVE  n # j
  <2>1. n.todo = Tail(S)
    BY <1>5 DEF NextMail, InFlight
  <2>2. Len(Tail(S)) = Len(S) - 1
    BY <1>0
  <2> HIDE DEF S
  <2>3. SUFFICES ASSUME n = j PROVE FALSE
    OBVIOUS
  <2>4. Tail(S) = S
    BY <2>1, <2>3 DEF S
  <2> QED
    BY <1>0, <2>2, <2>4
<1> QED
  BY <1>1, <1>2, <1>3, <1>4, <1>5

-----------------------------------------------------------------------------
(* A commit keeps what is told of, and starts the mails of its notices.    *)
LEMMA CommitTells ==
  ASSUME MailsInv, NEW ns \in SUBSET Notice, NEW f \in BOOLEAN, Commit(ns, f)
  PROVE  /\ handled' \in 0..MaxHandled /\ feature' \in BOOLEAN
         /\ queued' = queued /\ dropped' = dropped
         /\ \A j \in sending' : InFlight(j)'
         /\ \A m, W : Told(m, W) => Told(m, W)'
         /\ \A n \in ns : \A i \in 1..Len(MailsFor[n.method]) : \A W :
              Told([event |-> MailsFor[n.method][i], about |-> n.about, stage |-> n.stage], W)'
<1>0. PICK free : free = FreeId
  OBVIOUS
<1> DEFINE kept(j) == [j EXCEPT !.entitled = @ \/ f]
           new(n)  == [id |-> free, notice |-> n, todo |-> MailsFor[n.method], entitled |-> f,
                       sure |-> TRUE, step |-> IF n.method \in FromOrder THEN "load" ELSE "check"]
<1>1. /\ sending' = {kept(j) : j \in sending} \cup {new(n) : n \in ns}
      /\ feature' = f /\ queued' = queued /\ dropped' = dropped
      /\ handled < MaxHandled /\ handled' = handled + 1
  BY <1>0 DEF Commit
<1>2. ASSUME NEW j \in sending
      PROVE  /\ InFlight(kept(j))' /\ LeftOf(kept(j)) = LeftOf(j)
  <2>1. InFlight(j)
    BY DEF MailsInv
  <2>2. PICK e \in BOOLEAN : e <=> (j.entitled \/ f)
    OBVIOUS
  <2>3. kept(j) = [id |-> j.id, notice |-> j.notice, todo |-> j.todo, entitled |-> e,
                   sure |-> j.sure, step |-> j.step]
    BY <2>1, <2>2 DEF InFlight
  <2>4. PICK k : k = kept(j)
    OBVIOUS
  <2>5. LeftOf(k) = LeftOf(j)
    BY <2>3, <2>4 DEF LeftOf, MailOf
  <2> HIDE DEF kept
  <2>6. InFlight(k)'
    BY <1>1, <2>1, <2>2, <2>3, <2>4 DEF InFlight
  <2> QED
    BY <2>4, <2>5, <2>6
<1>3. ASSUME NEW n \in ns
      PROVE  /\ InFlight(new(n))'
             /\ \A i \in 1..Len(MailsFor[n.method]) :
                  [event |-> MailsFor[n.method][i], about |-> n.about, stage |-> n.stage] \in LeftOf(new(n))
  <2>1. n \in Notice /\ n.method \in DOMAIN MailsFor
    BY DEF Notice
  <2>2. MailsFor[n.method] \in Seq(Announced) /\ MailsFor[n.method] # <<>>
    BY <2>1, MethodsAnnounce
  <2>3. PICK k : k = new(n)
    OBVIOUS
  <2>4. PICK first : first = IF n.method \in FromOrder THEN "load" ELSE "check"
    OBVIOUS
  <2>6. PICK todo : todo = MailsFor[n.method]
    OBVIOUS
  <2>7. k = [id |-> free, notice |-> n, todo |-> todo, entitled |-> f, sure |-> TRUE, step |-> first]
    BY <2>3, <2>4, <2>6
  <2> HIDE DEF new
  <2>8. InFlight(k)'
    BY <1>1, <2>1, <2>2, <2>4, <2>6, <2>7 DEF InFlight
  <2>9. \A i \in 1..Len(todo) : [event |-> todo[i], about |-> n.about, stage |-> n.stage] \in LeftOf(k)
    BY <2>7 DEF LeftOf, MailOf
  <2> QED
    BY <2>3, <2>6, <2>8, <2>9
<1> HIDE DEF kept, new
<1>4. \A j \in sending' : InFlight(j)'
  BY <1>1, <1>2, <1>3
<1>5. ASSUME NEW m, NEW W, Told(m, W)
      PROVE  Told(m, W)'
  BY <1>1, <1>2, <1>5 DEF Told
<1>6. ASSUME NEW n \in ns, NEW i \in 1..Len(MailsFor[n.method]), NEW W
      PROVE  Told([event |-> MailsFor[n.method][i], about |-> n.about, stage |-> n.stage], W)'
  BY <1>1, <1>3 DEF Told
<1>7. handled' \in 0..MaxHandled
  BY <1>1, MailAssumption DEF MailsInv, Rows
<1> QED
  BY <1>1, <1>4, <1>5, <1>6, <1>7

-----------------------------------------------------------------------------
(* A method moves on: nothing is forgotten if its mails are accounted for. *)
LEMMA MovesOn ==
  ASSUME MailsInv, NEW j \in sending, NEW js, Replace(j, js), feature' = feature,
         queued \subseteq queued', dropped \subseteq dropped', \A n \in js : InFlight(n)'
  PROVE  /\ \A k \in sending' : InFlight(k)'
         /\ \A m, W :
              /\ Told(m, W)
              /\ m \in LeftOf(j) => \/ m \in queued'
                                    \/ \E d \in dropped' : d.mail = m /\ d.why \in W
                                    \/ \E n \in js : m \in LeftOf(n)
              => Told(m, W)'
<1>1. sending' = (sending \ {j}) \cup js
  BY DEF Replace
<1>2. \A k \in sending : InFlight(k)'
  BY DEF MailsInv, InFlight
<1>3. \A k \in sending' : InFlight(k)'
  BY <1>1, <1>2
<1>4. ASSUME NEW m, NEW W, Told(m, W),
             m \in LeftOf(j) => \/ m \in queued'
                                \/ \E d \in dropped' : d.mail = m /\ d.why \in W
                                \/ \E n \in js : m \in LeftOf(n)
      PROVE  Told(m, W)'
  <2>1. \A k \in sending' : (m \in LeftOf(k)) => (m \in LeftOf(k))'
    BY DEF LeftOf, MailOf
  <2>2. CASE m \in queued
    BY <2>2 DEF Told
  <2>3. CASE \E d \in dropped : d.mail = m /\ d.why \in W
    BY <2>3 DEF Told
  <2>4. CASE \E k \in sending : m \in LeftOf(k)
    BY <2>1, <2>4, <1>1, <1>4 DEF Told
  <2> QED
    BY <1>4, <2>2, <2>3, <2>4 DEF Told
<1> QED
  BY <1>3, <1>4

(* What follows the first of several mails is some mails.                 *)
LEMMA LongTail ==
  ASSUME NEW S, NEW seq \in Seq(S), seq # <<>>, Len(seq) # 1
  PROVE  Tail(seq) \in Seq(S) /\ Tail(seq) # <<>>
<1>1. Len(seq) \in Nat
  OBVIOUS
<1>2. PICK t \in Seq(S) : t = Tail(seq) /\ Len(t) = Len(seq) - 1
  <2>1. Tail(seq) \in Seq(S)
    OBVIOUS
  <2>2. Len(Tail(seq)) = Len(seq) - 1
    OBVIOUS
  <2> QED
    BY <2>1, <2>2
<1>3. t = <<>> => Len(t) = 0
  OBVIOUS
<1>4. t # <<>>
  BY <1>1, <1>2, <1>3
<1> QED
  BY <1>2, <1>4

(* The method that goes on with the other mails.                           *)
LEMMA GoesOn ==
  ASSUME MailsInv, NEW j \in sending, feature' = feature
  PROVE  \A n \in NextMail(j) : InFlight(n)'
<1>1. InFlight(j)
  BY DEF MailsInv
<1> SUFFICES ASSUME NEW n \in NextMail(j)
             PROVE  InFlight(n)'
  OBVIOUS
<1>2. PICK todo : todo = Tail(j.todo)
  OBVIOUS
<1>3. n = [id |-> j.id, notice |-> j.notice, todo |-> todo, entitled |-> j.entitled,
           sure |-> TRUE, step |-> "check"]
  BY <1>1, <1>2 DEF NextMail, InFlight
<1>4. Len(j.todo) # 1 /\ j.todo \in Seq(Announced) /\ j.todo # <<>>
  BY <1>1 DEF NextMail, InFlight
<1>5. todo \in Seq(Announced) /\ todo # <<>>
  BY <1>2, <1>4, LongTail
<1> QED
  BY <1>1, <1>3, <1>5 DEF InFlight

(* A method at another step has the same mails left.                       *)
LEMMA Steps ==
  ASSUME MailsInv, NEW j \in sending, feature' = feature, NEW at, NEW sure \in BOOLEAN,
         NEW n, n = [id |-> j.id, notice |-> j.notice, todo |-> j.todo, entitled |-> j.entitled,
                     sure |-> sure, step |-> at],
         (at = "enqueue" /\ Head(j.todo) \in Gated) => (feature \/ ~ sure)
  PROVE  InFlight(n)' /\ LeftOf(n) = LeftOf(j)
<1>1. InFlight(j)
  BY DEF MailsInv
<1>2. /\ n.todo = j.todo /\ n.notice = j.notice /\ n.id = j.id /\ n.step = at
      /\ n.entitled = j.entitled /\ n.sure = sure
  OBVIOUS
<1>3. LeftOf(n) = LeftOf(j)
  BY <1>2 DEF LeftOf, MailOf
<1>4. (feature' => n.entitled) /\ n.entitled \in BOOLEAN /\ n.sure \in BOOLEAN
  BY <1>1, <1>2 DEF InFlight
<1>5. (n.step = "enqueue" /\ Head(n.todo) \in Gated) => (n.entitled \/ ~ n.sure)
  <2>1. (n.step = "enqueue" /\ Head(n.todo) \in Gated) => (feature \/ ~ sure)
    BY <1>2
  <2>2. feature => n.entitled
    BY <1>4
  <2> QED
    BY <2>1, <2>2, <1>2
<1>6. n = [id |-> n.id, notice |-> n.notice, todo |-> n.todo, entitled |-> n.entitled,
           sure |-> n.sure, step |-> n.step]
  OBVIOUS
<1> QED
  BY <1>1, <1>2, <1>3, <1>4, <1>5, <1>6 DEF InFlight

(* A drop adds a row with its reason for each of its mails.                *)
LEMMA DropAdds ==
  ASSUME NEW ms \in SUBSET Mail, NEW why \in Reasons, Drop(ms, why),
         dropped \subseteq [mail : Mail, why : Reasons]
  PROVE  /\ dropped \subseteq dropped'
         /\ dropped' \subseteq [mail : Mail, why : Reasons]
         /\ \A d \in dropped' \ dropped : d.why = why /\ d.mail \in ms
         /\ \A m \in ms : \E d \in dropped' : d.mail = m /\ d.why = why
<1> DEFINE row(m) == [mail |-> m, why |-> why]
<1>1. dropped' = dropped \cup {row(m) : m \in ms}
  BY DEF Drop
<1>2. \A m \in ms : row(m) \in [mail : Mail, why : Reasons] /\ row(m).mail = m /\ row(m).why = why
  OBVIOUS
<1> HIDE DEF row
<1> QED
  BY <1>1, <1>2

(* A step that accounts for every mail, and whose decisions respect the    *)
(* plan.                                                                   *)
Accounts ==
  /\ queued' \subseteq Mail /\ dropped' \subseteq [mail : Mail, why : Reasons]
  /\ \A k \in sending' : InFlight(k)'
  /\ \A m, W : Enough(m, W) /\ Told(m, W) => Told(m, W)'
  /\ \A m \in queued' \ queued : m.event \in ToCustomers =>
       \E j \in sending : m \in LeftOf(j) /\ j \notin sending' /\ (j.entitled \/ ~ j.sure)
  /\ \A d \in dropped' \ dropped : d.why = "plan" => d.mail.event \in ToCustomers

(* Every step of a method accounts for its mails.                          *)
LEMMA LoadAccounts ==
  ASSUME MailsInv, NEW j \in sending, Load(j)
  PROVE  Accounts
<1>0. InFlight(j) /\ feature' = feature /\ LeftOf(j) \subseteq Mail
  BY LeftSplits DEF MailsInv, Load, Sends
<1>1. dropped \subseteq [mail : Mail, why : Reasons] /\ queued \subseteq Mail
  BY DEF MailsInv, Rows
<1>2. CASE /\ Replace(j, {[j EXCEPT !.step = "check"]}) /\ UNCHANGED <<queued, dropped, failures>>
  <2>1. PICK n : n = [j EXCEPT !.step = "check"]
    OBVIOUS
  <2>2. /\ n = [id |-> j.id, notice |-> j.notice, todo |-> j.todo, entitled |-> j.entitled,
                 sure |-> j.sure, step |-> "check"]
        /\ j.sure \in BOOLEAN
    BY <1>0, <2>1 DEF InFlight
  <2>3. InFlight(n)' /\ LeftOf(n) = LeftOf(j)
    BY <1>0, <2>2, Steps
  <2>4. Replace(j, {n})
    BY <1>2, <2>1
  <2> QED
    BY <1>0, <1>1, <1>2, <2>3, <2>4, MovesOn DEF Accounts
<1>3. CASE Replace(j, {}) /\ Drop(LeftOf(j), "failed") /\ UNCHANGED queued
  <2>1. /\ dropped \subseteq dropped' /\ dropped' \subseteq [mail : Mail, why : Reasons]
        /\ \A d \in dropped' \ dropped : d.why = "failed"
        /\ \A m \in LeftOf(j) : \E d \in dropped' : d.mail = m /\ d.why = "failed"
    <3>1. LeftOf(j) \in SUBSET Mail /\ "failed" \in Reasons
      BY <1>0 DEF Reasons
    <3> QED
      BY <3>1, <1>1, <1>3, DropAdds
  <2> QED
    BY <1>0, <1>1, <1>3, <2>1, MovesOn DEF Enough, Losses, Accounts
<1> QED
  BY <1>2, <1>3 DEF Load


(* The first mail is dropped, for a reason that may stop it, and the next  *)
(* one goes on.                                                            *)
LEMMA DropFirst ==
  ASSUME MailsInv, NEW j \in sending, NEW why \in Reasons, feature' = feature, queued' = queued,
         Replace(j, NextMail(j)), Drop({MailOf(j, Head(j.todo))}, why),
         \/ why \in Losses
         \/ Head(j.todo) \in Gated
  PROVE  Accounts
<1> DEFINE m == MailOf(j, Head(j.todo))
<1>1. /\ dropped \subseteq [mail : Mail, why : Reasons] /\ queued \subseteq Mail
      /\ InFlight(j) /\ m \in Mail /\ m.event = Head(j.todo)
  BY LeftSplits DEF MailsInv, Rows, MailOf
<1>2. /\ dropped \subseteq dropped' /\ dropped' \subseteq [mail : Mail, why : Reasons]
      /\ \A d \in dropped' \ dropped : d.why = why /\ d.mail = m
      /\ \E d \in dropped' : d.mail = m /\ d.why = why
  <2>1. {m} \in SUBSET Mail /\ Drop({m}, why)
    BY <1>1
  <2> HIDE DEF m
  <2>2. /\ dropped \subseteq dropped' /\ dropped' \subseteq [mail : Mail, why : Reasons]
        /\ \A d \in dropped' \ dropped : d.why = why /\ d.mail \in {m}
        /\ \A x \in {m} : \E d \in dropped' : d.mail = x /\ d.why = why
    BY <2>1, <1>1, DropAdds
  <2> QED
    BY <2>2
<1>3. ASSUME NEW x, NEW W, Enough(x, W), Told(x, W)
      PROVE  Told(x, W)'
  <2>1. ASSUME x \in LeftOf(j)
        PROVE  \/ \E d \in dropped' : d.mail = x /\ d.why \in W
               \/ \E n \in NextMail(j) : x \in LeftOf(n)
    <3>1. CASE x = m
      BY <3>1, <1>1, <1>2, <1>3 DEF Enough, Losses, Reasons
    <3>2. CASE x # m
      BY <3>2, <2>1, <1>1, LeftSplits
    <3> QED
      BY <3>1, <3>2
  <2>2. \A n \in NextMail(j) : InFlight(n)'
    BY GoesOn
  <2> HIDE DEF m
  <2> QED
    BY <1>2, <1>3, <2>1, <2>2, MovesOn
<1>4. \A k \in sending' : InFlight(k)'
  BY <1>2, GoesOn, MovesOn
<1>5. ToCustomers = Gated
  BY DEF ToCustomers, Gated
<1>6. why = "plan" => Head(j.todo) \in Gated
  BY DEF Losses
<1> HIDE DEF m
<1> QED
  BY <1>1, <1>2, <1>3, <1>4, <1>5, <1>6 DEF Accounts

LEMMA CheckAccounts ==
  ASSUME MailsInv, NEW j \in sending, Check(j)
  PROVE  Accounts
<1>0. InFlight(j) /\ feature' = feature /\ queued' = queued
  BY DEF MailsInv, Check, Sends
<1>1. dropped \subseteq [mail : Mail, why : Reasons] /\ queued \subseteq Mail
  BY DEF MailsInv, Rows
<1>2. ASSUME NEW n, NEW sure \in BOOLEAN, Replace(j, {n}), dropped' = dropped,
             n = [id |-> j.id, notice |-> j.notice, todo |-> j.todo, entitled |-> j.entitled,
                  sure |-> sure, step |-> "enqueue"],
             Head(j.todo) \in Gated => (feature \/ ~ sure)
      PROVE  Accounts
  <2>1. InFlight(n)' /\ LeftOf(n) = LeftOf(j)
    BY <1>0, <1>2, Steps
  <2> QED
    BY <1>0, <1>1, <1>2, <2>1, MovesOn DEF Accounts
<1>3. CASE ~ Addressed(j)
  <2>1. Replace(j, NextMail(j)) /\ Drop({MailOf(j, Head(j.todo))}, "no address")
    BY <1>3 DEF Check
  <2>2. Head(j.todo) \in Gated /\ "no address" \in Reasons
    BY <1>3 DEF Addressed, Gated, Reasons
  <2> QED
    BY <2>1, <2>2, <1>0, DropFirst
<1>4. CASE Addressed(j) /\ Head(j.todo) \in Gated
  <2>1. CASE Replace(j, NextMail(j)) /\ Drop({MailOf(j, Head(j.todo))}, "plan")
    <3>1. "plan" \in Reasons
      BY DEF Reasons
    <3> QED
      BY <2>1, <3>1, <1>0, <1>4, DropFirst
  <2>2. CASE feature /\ Replace(j, {[j EXCEPT !.step = "enqueue"]}) /\ dropped' = dropped
    <3>1. PICK n : n = [j EXCEPT !.step = "enqueue"]
      OBVIOUS
    <3>2. n = [id |-> j.id, notice |-> j.notice, todo |-> j.todo, entitled |-> j.entitled,
               sure |-> j.sure, step |-> "enqueue"] /\ j.sure \in BOOLEAN
      BY <1>0, <3>1 DEF InFlight
    <3> QED
      BY <1>2, <2>2, <3>1, <3>2
  <2>3. CASE Replace(j, {[j EXCEPT !.step = "enqueue", !.sure = FALSE]}) /\ dropped' = dropped
    <3>1. PICK n : n = [j EXCEPT !.step = "enqueue", !.sure = FALSE]
      OBVIOUS
    <3>2. n = [id |-> j.id, notice |-> j.notice, todo |-> j.todo, entitled |-> j.entitled,
               sure |-> FALSE, step |-> "enqueue"]
      BY <1>0, <3>1 DEF InFlight
    <3> QED
      BY <1>2, <2>3, <3>1, <3>2
  <2> QED
    BY <1>4, <2>1, <2>2, <2>3 DEF Check
<1>5. CASE Addressed(j) /\ Head(j.todo) \notin Gated
  <2>1. Replace(j, {[j EXCEPT !.step = "enqueue"]}) /\ dropped' = dropped
    BY <1>5 DEF Check
  <2>2. PICK n : n = [j EXCEPT !.step = "enqueue"]
    OBVIOUS
  <2>3. n = [id |-> j.id, notice |-> j.notice, todo |-> j.todo, entitled |-> j.entitled,
             sure |-> j.sure, step |-> "enqueue"] /\ j.sure \in BOOLEAN
    BY <1>0, <2>2 DEF InFlight
  <2> QED
    BY <1>2, <1>5, <2>1, <2>2, <2>3
<1> QED
  BY <1>3, <1>4, <1>5

(* A key names one mail.                                                   *)
LEMMA KeysTell ==
  \A m, l \in Mail : KeyOf(m) = KeyOf(l) => m = l
BY DEF Mail, KeyOf

LEMMA JoinAccounts ==
  ASSUME MailsInv, NEW j \in sending, JoinQueue(j)
  PROVE  Accounts
<1> DEFINE m == MailOf(j, Head(j.todo))
<1>0. InFlight(j) /\ feature' = feature /\ Replace(j, NextMail(j)) /\ j.step = "enqueue"
  BY DEF MailsInv, JoinQueue, Sends
<1>1. /\ dropped \subseteq [mail : Mail, why : Reasons] /\ queued \subseteq Mail
      /\ m \in Mail /\ m \in LeftOf(j) /\ m.event = Head(j.todo)
  BY <1>0, LeftSplits DEF MailsInv, Rows, MailOf
<1>2. CASE Drop({m}, "failed") /\ queued' = queued
  <2>1. "failed" \in Reasons /\ "failed" \in Losses
    BY DEF Reasons, Losses
  <2> QED
    BY <1>0, <1>2, <2>1, DropFirst
<1>3. CASE /\ queued' = IF \E l \in queued : KeyOf(l) = KeyOf(m) THEN queued ELSE queued \cup {m}
           /\ dropped' = dropped
  <2> HIDE DEF m
  <2>1. m \in queued' /\ queued \subseteq queued' /\ queued' \subseteq queued \cup {m}
    BY <1>1, <1>3, KeysTell
  <2>2. \A n \in NextMail(j) : InFlight(n)'
    BY <1>0, GoesOn
  <2>3. \A x \in LeftOf(j) : x = m \/ \E n \in NextMail(j) : x \in LeftOf(n)
    BY <1>0, LeftSplits DEF m
  <2>4. /\ \A k \in sending' : InFlight(k)'
        /\ \A x, W : Told(x, W) => Told(x, W)'
    BY <1>0, <1>3, <2>1, <2>2, <2>3, MovesOn
  <2>5. j \notin sending'
    BY <1>0, LeftSplits DEF Replace
  <2>6. m.event \in ToCustomers => (j.entitled \/ ~ j.sure)
    BY <1>0, <1>1 DEF InFlight, ToCustomers, Gated
  <2> QED
    BY <1>1, <1>3, <2>1, <2>4, <2>5, <2>6 DEF Accounts
<1> QED
  BY <1>2, <1>3 DEF JoinQueue

LEMMA StopAccounts ==
  ASSUME MailsInv, Stop
  PROVE  Accounts
<1> DEFINE ms == UNION {LeftOf(j) : j \in sending}
<1>1. /\ dropped \subseteq [mail : Mail, why : Reasons] /\ queued \subseteq Mail
      /\ sending' = {} /\ queued' = queued /\ Drop(ms, "stopped")
  BY DEF MailsInv, Rows, Stop
<1>2. ms \in SUBSET Mail /\ "stopped" \in Reasons
  BY LeftSplits DEF MailsInv, Reasons
<1>3. \A j \in sending : \A m \in LeftOf(j) : m \in ms
  OBVIOUS
<1> HIDE DEF ms
<1>4. /\ dropped \subseteq dropped' /\ dropped' \subseteq [mail : Mail, why : Reasons]
      /\ \A d \in dropped' \ dropped : d.why = "stopped"
      /\ \A m \in ms : \E d \in dropped' : d.mail = m /\ d.why = "stopped"
  BY <1>1, <1>2, DropAdds
<1>5. \A m, W : Enough(m, W) /\ Told(m, W) => Told(m, W)'
  BY <1>1, <1>3, <1>4 DEF Told, Enough, Losses
<1> QED
  BY <1>1, <1>4, <1>5 DEF Accounts

-----------------------------------------------------------------------------
(* The invariant holds at the start, and every step keeps it.              *)
LEMMA MailsInitInv == MailsInit => MailsInv
<1> SUFFICES ASSUME MailsInit PROVE MailsInv
  OBVIOUS
<1>1. Rows
  BY MailAssumption DEF MailsInit, Rows
<1>2. Known /\ BuyersTold /\ OwnersTold
  BY DEF MailsInit, Known, BuyersTold, OwnersTold, Subjects
<1>3. \A q \in Requests : Reading(q)
  BY DEF MailsInit, Reading
<1>4. \A j \in sending : InFlight(j)
  BY DEF MailsInit
<1> QED
  BY <1>1, <1>2, <1>3, <1>4 DEF MailsInv

(* A step that accounts for the mails and leaves the rows alone.           *)
LEMMA AccountsKeep ==
  ASSUME MailsInv, Accounts, UNCHANGED <<stage, reachable, reached, feature, handled>>,
         request' \in [Requests -> {request'[q] : q \in Requests}],
         \A q \in Requests : Reading(q)'
  PROVE  MailsInv'
<1>1. Rows'
  BY DEF MailsInv, Rows, Accounts
<1>2. Known'
  BY DEF MailsInv, Known
<1>3. BuyersTold'
  <2> SUFFICES ASSUME NEW s \in Subjects, NEW st \in reached[s], ~ (s \in Returns /\ st = "REQUESTED")
               PROVE  \E m : About(m, s, st) /\ Told(m, Reasons)'
    BY DEF BuyersTold, About
  <2>1. PICK m : About(m, s, st) /\ Told(m, Reasons)
    BY DEF MailsInv, BuyersTold
  <2>2. Enough(m, Reasons)
    BY DEF Enough, Reasons, Losses
  <2> QED
    BY <2>1, <2>2 DEF Accounts
<1>4. OwnersTold'
  <2> SUFFICES ASSUME NEW o \in Orders, "PENDING" \in reached[o]
               PROVE  Told(OwnersMail(o), Losses)'
    BY DEF OwnersTold
  <2>1. Told(OwnersMail(o), Losses)
    BY DEF MailsInv, OwnersTold
  <2>2. Enough(OwnersMail(o), Losses)
    BY DEF Enough, OwnersMail, Gated, ToBuyer
  <2>3. PICK m : m = OwnersMail(o)
    OBVIOUS
  <2>4. Told(m, Losses)'
    BY <2>1, <2>2, <2>3 DEF Accounts
  <2> QED
    BY <2>3, <2>4 DEF OwnersMail
<1> QED
  BY <1>1, <1>2, <1>3, <1>4 DEF MailsInv, Accounts

(* A commit of events that enter no stage.                                 *)
LEMMA CommitKeeps ==
  ASSUME MailsInv, NEW ns \in SUBSET Notice, NEW f \in BOOLEAN, Commit(ns, f),
         UNCHANGED <<stage, reachable, reached, request>>
  PROVE  MailsInv'
<1>1. /\ handled' \in 0..MaxHandled /\ feature' \in BOOLEAN
      /\ queued' = queued /\ dropped' = dropped
      /\ \A j \in sending' : InFlight(j)'
      /\ \A m, W : Told(m, W) => Told(m, W)'
  BY CommitTells
<1>2. Rows' /\ Known'
  BY <1>1 DEF MailsInv, Rows, Known
<1>3. \A q \in Requests : Reading(q)'
  BY DEF MailsInv, Reading
<1>4. BuyersTold'
  BY <1>1 DEF MailsInv, BuyersTold, About
<1>5. OwnersTold'
  <2> SUFFICES ASSUME NEW o \in Orders, "PENDING" \in reached[o]
               PROVE  Told(OwnersMail(o), Losses)'
    BY DEF OwnersTold
  <2>1. PICK m : m = OwnersMail(o)
    OBVIOUS
  <2>2. Told(m, Losses)'
    BY <1>1, <2>1 DEF MailsInv, OwnersTold
  <2> QED
    BY <2>1, <2>2 DEF OwnersMail
<1> QED
  BY <1>1, <1>2, <1>3, <1>4, <1>5 DEF MailsInv

(* A commit that enters a stage, which is announced if it is a new one.    *)
LEMMA EnterKeeps ==
  ASSUME MailsInv, NEW ns \in SUBSET Notice, Commit(ns, feature),
         NEW s \in Subjects, NEW st \in Stages, Enter(s, st), reachable' \subseteq Orders,
         request' \in [Requests -> {request'[q] : q \in Requests}],
         \A q \in Requests : request'[q] \in {request[q], Idle},
         s \in Orders => st = "PENDING" \/ "PENDING" \in reached[s],
         \/ st \in reached[s]
         \/ s \in Returns /\ st = "REQUESTED"
         \/ \E n \in ns : /\ n.about = s /\ n.stage = st
                          /\ \E i \in 1..Len(MailsFor[n.method]) : MailsFor[n.method][i] \in ToBuyer,
         (s \in Orders /\ st = "PENDING" /\ st \notin reached[s]) =>
            \E n \in ns : n.about = s /\ n.stage = st /\ n.method = "orderPlaced"
  PROVE  MailsInv'
<1>1. /\ handled' \in 0..MaxHandled /\ feature' \in BOOLEAN
      /\ queued' = queued /\ dropped' = dropped
      /\ \A j \in sending' : InFlight(j)'
      /\ \A m, W : Told(m, W) => Told(m, W)'
      /\ \A n \in ns : \A i \in 1..Len(MailsFor[n.method]) : \A W :
           Told([event |-> MailsFor[n.method][i], about |-> n.about, stage |-> n.stage], W)'
  <2>1. feature \in BOOLEAN
    BY DEF MailsInv, Rows
  <2> QED
    BY <2>1, CommitTells
<1>2. /\ \A x \in Subjects : stage'[x] = IF x = s THEN st ELSE stage[x]
      /\ \A x \in Subjects : reached'[x] = IF x = s THEN reached[s] \cup {st} ELSE reached[x]
      /\ stage' \in [Subjects -> Stages \cup {NoStage}] /\ reached' \in [Subjects -> SUBSET Stages]
  BY DEF MailsInv, Rows, Enter
<1>3. Rows'
  BY <1>1, <1>2 DEF MailsInv, Rows
<1>4. Known'
  BY <1>2 DEF MailsInv, Known
<1>5. \A q \in Requests : Reading(q)'
  BY <1>2 DEF MailsInv, Reading
<1>6. ASSUME NEW x \in Subjects, NEW t \in reached'[x], ~ (x \in Returns /\ t = "REQUESTED")
      PROVE  \E m : About(m, x, t) /\ Told(m, Reasons)'
  <2>1. CASE t \in reached[x]
    <3>1. PICK m : About(m, x, t) /\ Told(m, Reasons)
      BY <1>6, <2>1 DEF MailsInv, BuyersTold
    <3> QED
      BY <3>1, <1>1
  <2>2. CASE t \notin reached[x]
    <3>1. x = s /\ t = st
      BY <1>2, <1>6, <2>2
    <3>2. PICK n \in ns : /\ n.about = s /\ n.stage = st
                          /\ \E i \in 1..Len(MailsFor[n.method]) : MailsFor[n.method][i] \in ToBuyer
      BY <1>6, <2>2, <3>1
    <3>3. PICK i \in 1..Len(MailsFor[n.method]) : MailsFor[n.method][i] \in ToBuyer
      BY <3>2
    <3>4. PICK m : m = [event |-> MailsFor[n.method][i], about |-> n.about, stage |-> n.stage]
      OBVIOUS
    <3>5. About(m, x, t)
      BY <3>1, <3>2, <3>3, <3>4 DEF About
    <3>6. Told(m, Reasons)'
      BY <1>1, <3>4
    <3> QED
      BY <3>5, <3>6
  <2> QED
    BY <2>1, <2>2
<1>7. BuyersTold'
  BY <1>6 DEF BuyersTold, About
<1>8. OwnersTold'
  <2> SUFFICES ASSUME NEW o \in Orders, "PENDING" \in reached'[o]
               PROVE  Told(OwnersMail(o), Losses)'
    BY DEF OwnersTold
  <2>1. PICK m : m = OwnersMail(o)
    OBVIOUS
  <2>2. Told(m, Losses)'
    <3>1. CASE "PENDING" \in reached[o]
      BY <1>1, <2>1, <3>1 DEF MailsInv, OwnersTold
    <3>2. CASE "PENDING" \notin reached[o]
      <4>1. o \in Subjects /\ o = s /\ st = "PENDING"
        BY <1>2, <3>2 DEF Subjects
      <4>2. PICK n \in ns : n.about = s /\ n.stage = st /\ n.method = "orderPlaced"
        BY <3>2, <4>1
      <4>3. 2 \in 1..Len(MailsFor[n.method]) /\ MailsFor[n.method][2] = "MERCHANT_NEW_ORDER"
        BY <4>2 DEF MailsFor
      <4>4. m = [event |-> MailsFor[n.method][2], about |-> n.about, stage |-> n.stage]
        BY <2>1, <4>1, <4>2, <4>3 DEF OwnersMail
      <4> QED
        BY <1>1, <4>3, <4>4
    <3> QED
      BY <3>1, <3>2
  <2> QED
    BY <2>1, <2>2 DEF OwnersMail
<1> QED
  BY <1>1, <1>3, <1>4, <1>5, <1>7, <1>8 DEF MailsInv

(* Reading changes nothing but the request.                                *)
LEMMA ReadKeeps ==
  ASSUME MailsInv, NEW q \in Requests, NEW req, request' = [request EXCEPT ![q] = req],
         UNCHANGED <<stage, reachable, reached, feature, sending, queued, dropped, handled, failures>>,
         \A p \in Requests : Reading(p)'
  PROVE  MailsInv'
<1>1. Rows' /\ Known'
  BY DEF MailsInv, Rows, Known
<1>2. \A j \in sending' : InFlight(j)'
  BY DEF MailsInv, InFlight
<1>3. \A m, W : Told(m, W) => Told(m, W)'
  BY DEF Told, LeftOf, MailOf
<1>4. BuyersTold'
  BY <1>3 DEF MailsInv, BuyersTold, About
<1>5. OwnersTold'
  BY <1>3 DEF MailsInv, OwnersTold, OwnersMail
<1> QED
  BY <1>1, <1>2, <1>4, <1>5 DEF MailsInv

(* The notices of a change of stage are as the code says.                  *)
LEMMA NoticesAre ==
  ASSUME MailsInv, NEW q \in Requests, request[q] # Idle
  PROVE  LET req == request[q]
             ns  == NoticesOf(req)
         IN /\ req.about \in Subjects /\ req.to \in Stages
            /\ ns \in SUBSET Notice
            /\ req.about \in Orders => "PENDING" \in reached[req.about]
            /\ \/ req.to \in reached[req.about]
               \/ \E n \in ns :
                    /\ n.about = req.about /\ n.stage = req.to
                    /\ \E i \in 1..Len(MailsFor[n.method]) : MailsFor[n.method][i] \in ToBuyer
<1>1. PICK req : req = request[q]
  OBVIOUS
<1>2. /\ req.about \in Subjects /\ req.to \in Stages /\ req.existing \in reached[req.about]
      /\ req.kind = "cancel" => req.about \in Orders /\ req.to = "CANCELLED"
      /\ req.about \in Orders => "PENDING" \in reached[req.about]
  BY <1>1 DEF MailsInv, Reading
<1>3. ASSUME NEW k \in {"cancelledByCustomer", "returnStatus", "orderStatus"}
      PROVE  /\ k \in DOMAIN MailsFor
             /\ \E i \in 1..Len(MailsFor[k]) : MailsFor[k][i] \in ToBuyer
  <2>1. 1 \in 1..Len(MailsFor[k]) /\ MailsFor[k][1] \in ToBuyer
    BY DEF MailsFor, ToBuyer
  <2> QED
    BY <2>1 DEF MailsFor
<1>4. CASE req.kind = "cancel"
  <2>1. PICK n : n = OrderCancelledByCustomer(req.about)
    OBVIOUS
  <2>2. n \in Notice /\ n.about = req.about /\ n.stage = req.to /\ n.method = "cancelledByCustomer"
    BY <1>2, <1>3, <1>4, <2>1 DEF OrderCancelledByCustomer, Call, Notice
  <2>3. NoticesOf(req) = {n}
    BY <1>4, <2>1 DEF NoticesOf
  <2> QED
    BY <1>1, <1>2, <1>3, <2>2, <2>3
<1>5. CASE req.kind # "cancel" /\ req.existing = req.to
  <2>1. NoticesOf(req) = {}
    BY <1>5 DEF NoticesOf
  <2> QED
    BY <1>1, <1>2, <1>5, <2>1
<1>6. CASE req.kind # "cancel" /\ req.existing # req.to /\ req.about \in Returns
  <2>1. PICK n : n = ReturnStatusUpdate(req.about, req.to)
    OBVIOUS
  <2>2. n \in Notice /\ n.about = req.about /\ n.stage = req.to /\ n.method = "returnStatus"
    BY <1>2, <1>3, <1>6, <2>1, MailAssumption DEF ReturnStatusUpdate, Call, Notice
  <2>3. NoticesOf(req) = {n}
    BY <1>6, <2>1 DEF NoticesOf
  <2> QED
    BY <1>1, <1>2, <1>3, <2>2, <2>3
<1>7. CASE req.kind # "cancel" /\ req.existing # req.to /\ req.about \notin Returns
  <2>1. NoticesOf(req) = OrderStatusUpdate(req.about, req.to) /\ req.about \in Orders
    BY <1>2, <1>7 DEF NoticesOf, Subjects
  <2>2. CASE req.to = "PENDING"
    BY <1>1, <1>2, <2>1, <2>2 DEF OrderStatusUpdate
  <2>3. CASE req.to # "PENDING"
    <3>1. PICK n : n = Call("orderStatus", req.about, req.about, req.to)
      OBVIOUS
    <3>2. n \in Notice /\ n.about = req.about /\ n.stage = req.to /\ n.method = "orderStatus"
      BY <1>2, <1>3, <2>1, <3>1 DEF Call, Notice
    <3>3. NoticesOf(req) = {n}
      BY <2>1, <2>3, <3>1 DEF OrderStatusUpdate
    <3> QED
      BY <1>1, <1>2, <1>3, <3>2, <3>3
  <2> QED
    BY <2>2, <2>3
<1> QED
  BY <1>4, <1>5, <1>6, <1>7

-----------------------------------------------------------------------------
LEMMA MailsNextInv == MailsInv /\ [MailsNext]_mailVars => MailsInv'
<1> SUFFICES ASSUME MailsInv, [MailsNext]_mailVars PROVE MailsInv'
  OBVIOUS
<1>0. MailsInv /\ Rows
  BY DEF MailsInv
<1>1. ASSUME NEW o \in Orders, PlaceOrder(o) PROVE MailsInv'
  <2>1. PICK n : n = OrderPlaced(o)
    OBVIOUS
  <2>2. n \in Notice /\ n.about = o /\ n.stage = "PENDING" /\ n.method = "orderPlaced"
    BY <2>1 DEF OrderPlaced, Call, Notice, Subjects, Stages, MailsFor
  <2>3. 1 \in 1..Len(MailsFor[n.method]) /\ MailsFor[n.method][1] \in ToBuyer
    BY <2>2 DEF MailsFor, ToBuyer
  <2>4. Enter(o, "PENDING") /\ Commit({n}, feature) /\ reachable' \subseteq Orders /\ request' = request
    BY <1>0, <1>1, <2>1 DEF PlaceOrder, Rows
  <2>5. o \in Subjects /\ "PENDING" \in Stages /\ {n} \in SUBSET Notice
    BY <2>2 DEF Subjects, Stages
  <2>6. request' \in [Requests -> {request'[q] : q \in Requests}]
    BY <1>0, <2>4 DEF Rows
  <2> QED
    BY <2>2, <2>3, <2>4, <2>5, <2>6, EnterKeeps
<1>2. ASSUME NEW r \in Returns, OpenReturn(r) PROVE MailsInv'
  <2>1. Enter(r, "REQUESTED") /\ Commit({}, feature) /\ reachable' = reachable /\ request' = request
    BY <1>2 DEF OpenReturn
  <2>2. r \in Subjects /\ r \notin Orders /\ "REQUESTED" \in Stages /\ {} \in SUBSET Notice
    BY MailAssumption DEF Subjects, Stages
  <2>3. request' \in [Requests -> {request'[q] : q \in Requests}] /\ reachable' \subseteq Orders
    BY <1>0, <2>1 DEF Rows
  <2> QED
    BY <2>1, <2>2, <2>3, EnterKeeps
<1>3. ASSUME NEW q \in Requests, NEW s \in Subjects, NEW st \in Stages, ReadStage(q, s, st)
      PROVE  MailsInv'
  <2>1. PICK req : req = [kind |-> "move", about |-> s, existing |-> stage[s], to |-> st]
    OBVIOUS
  <2>2. request' = [request EXCEPT ![q] = req] /\ UNCHANGED <<stage, reached, reachable, feature>>
    BY <1>3, <2>1 DEF ReadStage
  <2>3. \A p \in Requests : Reading(p)'
    BY <1>0, <1>3, <2>1, <2>2 DEF ReadStage, Reading, MailsInv, Known, Rows
  <2> QED
    BY <1>0, <1>3, <2>2, <2>3, ReadKeeps DEF ReadStage
<1>4. ASSUME NEW q \in Requests, NEW o \in Orders, ReadForCancel(q, o)
      PROVE  MailsInv'
  <2>1. PICK req : req = [kind |-> "cancel", about |-> o, existing |-> stage[o], to |-> "CANCELLED"]
    OBVIOUS
  <2>2. request' = [request EXCEPT ![q] = req] /\ UNCHANGED <<stage, reached, reachable, feature>>
    BY <1>4, <2>1 DEF ReadForCancel
  <2>3. \A p \in Requests : Reading(p)'
    BY <1>0, <1>4, <2>1, <2>2
       DEF ReadForCancel, Reading, MailsInv, Known, Rows, Subjects, Stages, NoStage
  <2> QED
    BY <1>0, <1>4, <2>2, <2>3, ReadKeeps DEF ReadForCancel
<1>5. ASSUME NEW q \in Requests, CommitStage(q) PROVE MailsInv'
  <2>1. PICK req : req = request[q]
    OBVIOUS
  <2>2. PICK ns : ns = NoticesOf(req)
    OBVIOUS
  <2>3. request[q] # Idle
    BY <1>5 DEF CommitStage, Idle
  <2>4. /\ req.about \in Subjects /\ req.to \in Stages /\ ns \in SUBSET Notice
        /\ req.about \in Orders => "PENDING" \in reached[req.about]
        /\ \/ req.to \in reached[req.about]
           \/ \E n \in ns :
                /\ n.about = req.about /\ n.stage = req.to
                /\ \E i \in 1..Len(MailsFor[n.method]) : MailsFor[n.method][i] \in ToBuyer
    BY <2>1, <2>2, <2>3, NoticesAre
  <2>5. /\ Enter(req.about, req.to) /\ Commit(ns, feature) /\ reachable' = reachable
        /\ request' = [request EXCEPT ![q] = Idle]
    BY <1>5, <2>1, <2>2 DEF CommitStage
  <2>6. /\ request' \in [Requests -> {request'[p] : p \in Requests}]
        /\ \A p \in Requests : request'[p] \in {request[p], Idle}
        /\ reachable' \subseteq Orders
    BY <1>0, <2>5 DEF Rows
  <2>7. PICK s \in Subjects : s = req.about
    BY <2>4
  <2>8. PICK st \in Stages : st = req.to
    BY <2>4
  <2>9. (s \in Orders /\ st = "PENDING" /\ st \notin reached[s]) =>
           \E n \in ns : n.about = s /\ n.stage = st /\ n.method = "orderPlaced"
    BY <2>4, <2>7
  <2>10. \/ st \in reached[s]
         \/ \E n \in ns : /\ n.about = s /\ n.stage = st
                          /\ \E i \in 1..Len(MailsFor[n.method]) : MailsFor[n.method][i] \in ToBuyer
    BY <2>4, <2>7, <2>8
  <2>11. Enter(s, st) /\ Commit(ns, feature) /\ (s \in Orders => "PENDING" \in reached[s])
    BY <2>4, <2>5, <2>7, <2>8
  <2> QED
    BY <2>4, <2>6, <2>9, <2>10, <2>11, EnterKeeps
<1>6. ASSUME NEW n \in Occasions, Happen(n) PROVE MailsInv'
  <2>1. {n} \in SUBSET Notice
    BY MailAssumption
  <2>2. PICK f \in BOOLEAN : f = feature
    BY <1>0 DEF Rows
  <2>3. Commit({n}, f) /\ UNCHANGED <<stage, reachable, reached, request>>
    BY <1>6, <2>2 DEF Happen
  <2> QED
    BY <2>1, <2>3, CommitKeeps
<1>7. ASSUME ChangePlan PROVE MailsInv'
  <2>1. PICK f \in BOOLEAN : f = ~ feature
    OBVIOUS
  <2>2. Commit({}, f) /\ UNCHANGED <<stage, reachable, reached, request>> /\ {} \in SUBSET Notice
    BY <1>7, <2>1 DEF ChangePlan
  <2> QED
    BY <2>2, CommitKeeps
<1>8. ASSUME NEW j \in sending, Load(j) \/ Check(j) \/ JoinQueue(j) PROVE MailsInv'
  <2>1. Accounts
    BY <1>8, LoadAccounts, CheckAccounts, JoinAccounts
  <2>2. UNCHANGED <<stage, reachable, reached, feature, request, handled>>
    BY <1>8 DEF Load, Check, JoinQueue, Sends
  <2>3. request' \in [Requests -> {request'[p] : p \in Requests}] /\ \A q \in Requests : Reading(q)'
    BY <1>0, <2>2 DEF Rows, MailsInv, Reading
  <2> QED
    BY <2>1, <2>2, <2>3, AccountsKeep
<1>9. ASSUME Stop PROVE MailsInv'
  <2>1. Accounts
    BY <1>9, StopAccounts
  <2>2. /\ UNCHANGED <<stage, reachable, reached, feature, handled>>
        /\ request' = [q \in Requests |-> Idle]
    BY <1>9 DEF Stop
  <2>3. request' \in [Requests -> {request'[p] : p \in Requests}] /\ \A q \in Requests : Reading(q)'
    BY <2>2 DEF Reading
  <2> QED
    BY <2>1, <2>2, <2>3, AccountsKeep
<1>10. CASE UNCHANGED mailVars
  <2>1. /\ UNCHANGED <<stage, reachable, reached, feature, request, sending, queued, dropped, handled>>
    BY <1>10 DEF mailVars
  <2>2. \A m, W : Told(m, W) => Told(m, W)'
    BY <2>1 DEF Told, LeftOf, MailOf
  <2>3. Rows' /\ Known' /\ \A j \in sending' : InFlight(j)'
    BY <2>1 DEF MailsInv, Rows, Known, InFlight
  <2>4. \A q \in Requests : Reading(q)'
    BY <2>1 DEF MailsInv, Reading
  <2>5. BuyersTold'
    BY <2>1, <2>2 DEF MailsInv, BuyersTold, About
  <2>6. OwnersTold'
    BY <2>1, <2>2 DEF MailsInv, OwnersTold, OwnersMail
  <2> QED
    BY <2>3, <2>4, <2>5, <2>6 DEF MailsInv
<1>11. Orders \subseteq Subjects /\ Returns \subseteq Subjects
       /\ OrderStages \subseteq Stages /\ ReturnStages \subseteq Stages
  BY DEF Subjects, Stages
<1> QED
  BY <1>1, <1>2, <1>3, <1>4, <1>5, <1>6, <1>7, <1>8, <1>9, <1>10, <1>11 DEF MailsNext, Dispatch

-----------------------------------------------------------------------------
(* Whatever the orders, the returns and the requests: in every state a     *)
(* buyer was told, is being told or cannot be told of every stage his      *)
(* order or return has had, and the owner of every order, unless his mail  *)
(* failed or the process stopped.                                          *)
THEOREM NoticesKept == MailsSpec => []NoticesSound
<1>1. ASSUME MailsInv PROVE NoticesSound
  <2>1. MailsTyped
    <3>1. \A j \in sending : LeftOf(j) \subseteq Mail /\ LeftOf(j) # {}
      BY <1>1, LeftSplits DEF MailsInv
    <3>2. \A m, l \in queued : KeyOf(m) = KeyOf(l) => m = l
      BY <1>1, KeysTell DEF MailsInv, Rows
    <3> QED
      BY <1>1, <3>1, <3>2 DEF MailsInv, Rows, MailsTyped, Reasons
  <2>2. StagesTold
    <3> SUFFICES ASSUME NEW s \in Subjects, NEW st \in reached[s], ~ (s \in Returns /\ st = "REQUESTED")
                 PROVE  \/ \E m \in queued : About(m, s, st)
                        \/ \E d \in dropped : About(d.mail, s, st)
                        \/ \E j \in sending : \E m \in LeftOf(j) : About(m, s, st)
      BY DEF StagesTold
    <3>1. PICK m : About(m, s, st) /\ Told(m, Reasons)
      BY <1>1 DEF MailsInv, BuyersTold
    <3> QED
      BY <3>1 DEF Told
  <2>3. OwnerTold
    <3> SUFFICES ASSUME NEW o \in Orders, stage[o] # NoStage
                 PROVE  \/ OwnersMail(o) \in queued
                        \/ \E d \in dropped : d.mail = OwnersMail(o) /\ d.why \in {"failed", "stopped"}
                        \/ \E j \in sending : OwnersMail(o) \in LeftOf(j)
      BY DEF OwnerTold, OwnersMail
    <3>1. "PENDING" \in reached[o]
      BY <1>1 DEF MailsInv, Known, Subjects
    <3> QED
      BY <1>1, <3>1 DEF MailsInv, OwnersTold, Told, Losses
  <2> QED
    BY <2>1, <2>2, <2>3 DEF NoticesSound
<1> QED
  BY <1>1, MailsInitInv, MailsNextInv, PTL DEF MailsSpec

(* A mail to a customer joins the queue only under a plan that included it *)
(* at the event or since, or after a lookup that failed, and the plan      *)
(* stops no other mail, in every step of every behaviour.                  *)
THEOREM PlanKept == MailsSpec => PlanRespected
<1> DEFINE Step == /\ \A m \in queued' \ queued : m.event \in ToCustomers =>
                        \E j \in sending : m \in LeftOf(j) /\ j \notin sending' /\ (j.entitled \/ ~ j.sure)
                   /\ \A d \in dropped' \ dropped : d.why = "plan" => d.mail.event \in ToCustomers
<1>1. ASSUME MailsInv, [MailsNext]_mailVars PROVE [Step]_mailVars
  <2>1. CASE Dispatch \/ Stop
    BY <1>1, <2>1, LoadAccounts, CheckAccounts, JoinAccounts, StopAccounts DEF Accounts, Dispatch
  <2>2. CASE UNCHANGED <<queued, dropped>>
    BY <2>2
  <2> QED
    BY <1>1, <2>1, <2>2
       DEF MailsNext, mailVars, PlaceOrder, OpenReturn, ReadForCancel, ReadStage, CommitStage, Happen,
           ChangePlan, Commit
<1>2. MailsSpec => [][Step]_mailVars
  BY <1>1, MailsInitInv, MailsNextInv, PTL DEF MailsSpec
<1> QED
  BY <1>2, PTL DEF PlanRespected
=============================================================================
