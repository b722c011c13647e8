----------------------------- MODULE EmailQueue -----------------------------
(***************************************************************************)
(* The in-process mail queue (src/mail/email-queue.service.ts).  The row   *)
(* of a mail is in the database; the job that works on it lives in a timer *)
(* of the Node process, and is gone when the process stops.                *)
(***************************************************************************)
EXTENDS Integers

CONSTANTS
  Keys,         \* idempotency keys
  Applications, \* those of mails about a store application
  MAX_RETRIES,  \* attempts per mail
  MaxFaults     \* bound: restarts and failed database calls in a behaviour

ASSUME QueueAssumption ==
  Applications \subseteq Keys /\ MAX_RETRIES \in Nat \ {0} /\ MaxFaults \in Nat

VARIABLES
  log,        \* log[k]: the EmailLog row with idempotencyKey k
  job,        \* job[k]: the running process() call or the timer of its retry
  sends,      \* sends[k]: calls of mail.send
  delivered,  \* delivered[k]: those the provider took, whatever it answered
  faults      \* restarts and failed database calls so far

vars == <<log, job, sends, delivered, faults>>

-----------------------------------------------------------------------------
(* A row that was deleted with its store application is remembered as it   *)
(* was: its key names the application, whose id is never used again.       *)
Log   == [status : {"QUEUED", "PROCESSING", "SENT", "FAILED"},
          retryCount : 0..MAX_RETRIES, deleted : BOOLEAN]
NoLog == [status |-> "NONE"]

(* A job is about to mark its row PROCESSING, to send, to mark it SENT, or *)
(* in the catch block.                                                     *)
Job   == [attempt : 0..(MAX_RETRIES - 1), at : {"start", "send", "sent", "catch"}]
NoJob == [at |-> "none"]

HasRow(k) == log[k] # NoLog /\ ~log[k].deleted

Init ==
  /\ log = [k \in Keys |-> NoLog]
  /\ job = [k \in Keys |-> NoJob]
  /\ sends = [k \in Keys |-> 0]
  /\ delivered = [k \in Keys |-> 0]
  /\ faults = 0

-----------------------------------------------------------------------------
(* Mutant: the unique constraint on idempotencyKey is missing. *)
EnqueueAgain(k) ==
  /\ job[k] = NoJob
  /\ log' = [log EXCEPT ![k] = [status |-> "QUEUED", retryCount |-> 0, deleted |-> FALSE]]
  /\ job' = [job EXCEPT ![k] = [attempt |-> 0, at |-> "start"]]
  /\ UNCHANGED <<sends, delivered, faults>>

(* enqueue: a key that has a row already is answered by P2002, and nothing *)
(* happens.                                                                *)
Enqueue(k) ==
  /\ log[k] = NoLog
  /\ log' = [log EXCEPT ![k] = [status |-> "QUEUED", retryCount |-> 0, deleted |-> FALSE]]
  /\ job' = [job EXCEPT ![k] = [attempt |-> 0, at |-> "start"]]
  /\ UNCHANGED <<sends, delivered, faults>>

Goto(k, at) == job' = [job EXCEPT ![k].at = at]

(* emailLog.update of a row that is there. *)
Update(k, status, n) ==
  /\ HasRow(k)
  /\ log' = [log EXCEPT ![k].status = status, ![k].retryCount = n]

Start(k) ==
  /\ job[k].at = "start"
  /\ Update(k, "PROCESSING", log[k].retryCount)
  /\ Goto(k, "send")
  /\ UNCHANGED <<sends, delivered, faults>>

(* mail.send takes the mail and says so, fails, or takes it and fails: an  *)
(* answer that is lost is an error like any other.                         *)
Send(k) ==
  /\ job[k].at = "send"
  /\ sends' = [sends EXCEPT ![k] = @ + 1]
  /\ \/ Goto(k, "sent")  /\ delivered' = [delivered EXCEPT ![k] = @ + 1]
     \/ Goto(k, "catch") /\ delivered' \in {delivered, [delivered EXCEPT ![k] = @ + 1]}
  /\ UNCHANGED <<log, faults>>

MarkSent(k) ==
  /\ job[k].at = "sent"
  /\ Update(k, "SENT", log[k].retryCount)
  /\ job' = [job EXCEPT ![k] = NoJob]
  /\ UNCHANGED <<sends, delivered, faults>>

(* Mutants: one attempt too many, or one too few; a failure that leaves    *)
(* the row as it is.                                                       *)
RetryOnceMore(k) ==
  /\ job[k].at = "catch"
  /\ job[k].attempt < MAX_RETRIES
  /\ Update(k, "QUEUED", job[k].attempt + 1)
  /\ job' = [job EXCEPT ![k] = [attempt |-> job[k].attempt + 1, at |-> "start"]]
  /\ UNCHANGED <<sends, delivered, faults>>
GiveUpEarly(k) ==
  /\ job[k].at = "catch"
  /\ job[k].attempt + 2 >= MAX_RETRIES
  /\ Update(k, "FAILED", job[k].attempt + 1)
  /\ job' = [job EXCEPT ![k] = NoJob]
  /\ UNCHANGED <<sends, delivered, faults>>
GiveUpSilently(k) ==
  /\ job[k].at = "catch"
  /\ job[k].attempt + 1 >= MAX_RETRIES
  /\ job' = [job EXCEPT ![k] = NoJob]
  /\ UNCHANGED <<log, sends, delivered, faults>>

(* The catch block, while attempts are left: the next one starts when the  *)
(* timer fires.                                                            *)
Retry(k) ==
  /\ job[k].at = "catch"
  /\ job[k].attempt + 1 < MAX_RETRIES
  /\ Update(k, "QUEUED", job[k].attempt + 1)
  /\ job' = [job EXCEPT ![k] = [attempt |-> job[k].attempt + 1, at |-> "start"]]
  /\ UNCHANGED <<sends, delivered, faults>>

GiveUp(k) ==
  /\ job[k].at = "catch"
  /\ job[k].attempt + 1 >= MAX_RETRIES
  /\ Update(k, "FAILED", job[k].attempt + 1)
  /\ job' = [job EXCEPT ![k] = NoJob]
  /\ UNCHANGED <<sends, delivered, faults>>

(* An update that fails ends the job with a line in the process log; only  *)
(* the one that follows the sending is inside the try block.               *)
LoseJob(k) ==
  \/ job[k].at \in {"start", "catch"} /\ job' = [job EXCEPT ![k] = NoJob]
  \/ job[k].at = "sent" /\ Goto(k, "catch")

RowGone(k) ==
  /\ ~HasRow(k)
  /\ LoseJob(k)
  /\ UNCHANGED <<log, sends, delivered, faults>>

-----------------------------------------------------------------------------
DatabaseFails(k) ==
  /\ faults < MaxFaults
  /\ LoseJob(k)
  /\ faults' = faults + 1
  /\ UNCHANGED <<log, sends, delivered>>

(* The process stops and starts again: nothing reads the rows back. *)
Restart ==
  /\ faults < MaxFaults
  /\ job' = [k \in Keys |-> NoJob]
  /\ faults' = faults + 1
  /\ UNCHANGED <<log, sends, delivered>>

(* cancelOwnApplication deletes the rows of its application. *)
DeleteRow(k) ==
  /\ HasRow(k)
  /\ k \in Applications
  /\ log' = [log EXCEPT ![k].deleted = TRUE]
  /\ UNCHANGED <<job, sends, delivered, faults>>

-----------------------------------------------------------------------------
Work(k) == Start(k) \/ Send(k) \/ MarkSent(k) \/ Retry(k) \/ GiveUp(k) \/ RowGone(k)

Next ==
  \/ \E k \in Keys : Enqueue(k) \/ Work(k) \/ DatabaseFails(k) \/ DeleteRow(k)
  \/ Restart

(* The event loop runs every callback and timer: work that stays possible  *)
(* is done.                                                                *)
Fairness == \A k \in Keys : WF_vars(Work(k))

Spec == Init /\ [][Next]_vars /\ Fairness

-----------------------------------------------------------------------------
TypeOK ==
  /\ log \in [Keys -> Log \cup {NoLog}]
  /\ job \in [Keys -> Job \cup {NoJob}]
  /\ sends \in [Keys -> 0..MAX_RETRIES]
  /\ delivered \in [Keys -> 0..MAX_RETRIES]
  /\ faults \in 0..MaxFaults

(* A job and the row it works on tell the same story: which attempt it is, *)
(* and that the row waits for it.                                          *)
JobMatchesRow ==
  \A k \in Keys : job[k] # NoJob =>
    /\ log[k].status = IF job[k].at = "start" THEN "QUEUED" ELSE "PROCESSING"
    /\ log[k].retryCount = job[k].attempt
    /\ sends[k] = job[k].attempt + (IF job[k].at \in {"sent", "catch"} THEN 1 ELSE 0)

(* A mail is SENT only if the provider took it, and FAILED only after      *)
(* every attempt was made.                                                 *)
StatusEarned ==
  \A k \in Keys : /\ log[k].status = "SENT" => delivered[k] > 0
                  /\ log[k].status = "FAILED" => sends[k] = MAX_RETRIES

(* The audit trail can be believed, while a mail is worked on and after.   *)
LogHonest == JobMatchesRow /\ StatusEarned

(* The queue keeps the promise of MailPromise, where a mail is owed as     *)
(* long as a job works on it and is dropped when the job is lost before    *)
(* the row is settled.                                                     *)
Settled(k) == log[k].status \in {"SENT", "FAILED"}

phase == [k \in Keys |->
  IF log[k] = NoLog THEN "none"
  ELSE IF job[k] # NoJob THEN "owed"
  ELSE IF Settled(k) THEN "settled" ELSE "dropped"]

Promise == INSTANCE MailPromise WITH attempts <- sends, Tries <- MAX_RETRIES

KeepsPromise == Promise!Spec
Answered     == Promise!Answered

(* While the process runs and the database answers, every mail that was    *)
(* queued becomes SENT or FAILED.                                          *)
BecomesSettled ==
  \A k \in Keys : log[k].status = "QUEUED" ~> Settled(k) \/ faults > 0 \/ ~HasRow(k)

(* No mail is worked on for ever, and none is left waiting in silence.     *)
EventuallySettled == Answered /\ BecomesSettled

=============================================================================
