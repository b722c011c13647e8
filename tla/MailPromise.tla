---------------------------- MODULE MailPromise ----------------------------
(***************************************************************************)
(* What the mail queue promises about the mails of one kind: a mail with a *)
(* key is taken on once, handed to the mail provider a bounded number of   *)
(* times while it is owed, and then it is settled for good -- or dropped.  *)
(***************************************************************************)
EXTENDS Naturals

CONSTANTS Keys, Tries

VARIABLES
  phase,     \* phase[k]: where the mail with key k is
  attempts   \* attempts[k]: how often it was handed to the provider

Phase == {"none", "owed", "settled", "dropped"}

Init ==
  /\ phase = [k \in Keys |-> "none"]
  /\ attempts = [k \in Keys |-> 0]

Accept(k) ==
  /\ phase[k] = "none"
  /\ phase' = [phase EXCEPT ![k] = "owed"]
  /\ UNCHANGED attempts

Attempt(k) ==
  /\ phase[k] = "owed"
  /\ attempts[k] < Tries
  /\ attempts' = [attempts EXCEPT ![k] = @ + 1]
  /\ UNCHANGED phase

Settle(k) ==
  /\ phase[k] = "owed"
  /\ attempts[k] > 0
  /\ phase' = [phase EXCEPT ![k] = "settled"]
  /\ UNCHANGED attempts

(* All the mails of a process that stops are dropped at once. *)
Drop(S) ==
  /\ \A k \in S : phase[k] = "owed"
  /\ phase' = [k \in Keys |-> IF k \in S THEN "dropped" ELSE phase[k]]
  /\ UNCHANGED attempts

Next ==
  \/ \E k \in Keys : Accept(k) \/ Attempt(k) \/ Settle(k)
  \/ \E S \in SUBSET Keys : Drop(S)

Spec == Init /\ [][Next]_<<phase, attempts>>

(* No mail is owed for ever. *)
Answered == \A k \in Keys : phase[k] = "owed" ~> phase[k] \in {"settled", "dropped"}
=============================================================================
