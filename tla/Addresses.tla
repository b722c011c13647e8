------------------------------ MODULE Addresses ------------------------------
(***************************************************************************)
(* A customer's address book and its default (src/customer-account).  The  *)
(* transactions run at READ COMMITTED: what a request unsets and counts is *)
(* what it saw when its statements began, what it writes shows at its end; *)
(* the promotion of a new default after a deletion is in no transaction.   *)
(***************************************************************************)
EXTENDS Integers, Sequences, FiniteSets

CONSTANTS
  Editors,   \* concurrent requests of the customer
  MaxEdits,  \* bound: requests in a behaviour
  MaxLosses  \* bound: requests that fail halfway

ASSUME AddressAssumption == MaxEdits \in Nat /\ MaxLosses \in Nat

VARIABLES
  address,  \* addresses in the order of their createdAt
  edit,     \* edit[e]: the request of an editor
  contended,\* the default may have been written by requests that overlapped
  unset,    \* the customer, or a failure, left no default
  edits,    \* requests so far
  losses    \* failures so far

bookVars == <<address, edit, contended, unset, edits, losses>>

-----------------------------------------------------------------------------
NoEdit   == [op |-> "none"]
Saved    == {a \in 1..Len(address) : address[a].saved}
Defaults == {a \in Saved : address[a].isDefault}
Busy     == {e \in Editors : edit[e] # NoEdit}

BookInit ==
  /\ address = <<>> /\ edit = [e \in Editors |-> NoEdit]
  /\ contended = FALSE /\ unset = FALSE /\ edits = 0 /\ losses = 0

(* A request begins: it is alone if it meets no other, and those it meets  *)
(* are not any more.                                                       *)
Alone == Busy = {}
BeginEdit(e, r) ==
  /\ edit[e] = NoEdit /\ edits < MaxEdits
  /\ edits' = edits + 1
  /\ edit' = [f \in Editors |->
       IF f = e THEN r
       ELSE IF f \in Busy THEN [edit[f] EXCEPT !.alone = FALSE] ELSE NoEdit]
  /\ UNCHANGED <<address, contended, unset, losses>>

(* Mutant: the first address is not made the default. *)
CreateAsAsked(e, isDefault) ==
  BeginEdit(e, [op |-> "create", alone |-> Alone, isDefault |-> isDefault,
                unsets |-> IF isDefault THEN Saved ELSE {}])

(* createAddress: unsets the others if the new one is to be the default,   *)
(* and makes the first one the default anyway.                             *)
BeginCreate(e, isDefault) ==
  BeginEdit(e, [op |-> "create", alone |-> Alone, isDefault |-> isDefault \/ Saved = {},
                unsets |-> IF isDefault THEN Saved ELSE {}])

(* updateAddress and setDefaultAddress; an update always says whether the  *)
(* address is the default (the schema's default is false).                 *)
BeginUpdate(e, a, isDefault) ==
  /\ a \in Saved
  /\ BeginEdit(e, [op |-> "update", alone |-> Alone, about |-> a, isDefault |-> isDefault,
                   unsets |-> IF isDefault THEN Saved \ {a} ELSE {}])

BeginDefault(e, a) ==
  /\ a \in Saved
  /\ BeginEdit(e, [op |-> "update", alone |-> Alone, about |-> a, isDefault |-> TRUE,
                   unsets |-> Saved])

BeginDelete(e, a) ==
  /\ a \in Saved
  /\ BeginEdit(e, [op |-> "delete", alone |-> Alone, about |-> a,
                   wasDefault |-> address[a].isDefault])

-----------------------------------------------------------------------------
EndEdit(e) == edit' = [edit EXCEPT ![e] = NoEdit]

Unset(unsets) == [a \in 1..Len(address) |->
                    IF a \in unsets THEN [address[a] EXCEPT !.isDefault = FALSE] ELSE address[a]]

(* A write of the default that met no other request settles what earlier   *)
(* ones may have left; clears: the write leaves its address without.       *)
Settle(e, isDefault, clears) ==
  /\ contended' = IF edit[e].alone /\ isDefault THEN FALSE ELSE contended \/ ~ edit[e].alone
  /\ unset' = IF isDefault THEN FALSE ELSE unset \/ clears

CommitCreate(e) ==
  /\ edit[e].op = "create"
  /\ address' = Append(Unset(edit[e].unsets), [saved |-> TRUE, isDefault |-> edit[e].isDefault])
  /\ Settle(e, edit[e].isDefault, FALSE)
  /\ EndEdit(e)
  /\ UNCHANGED <<edits, losses>>

(* An address deleted meanwhile fails the transaction. *)
CommitUpdate(e) ==
  LET a == edit[e].about
  IN /\ edit[e].op = "update"
     /\ IF a \in Saved
        THEN /\ address' = [Unset(edit[e].unsets) EXCEPT ![a].isDefault = edit[e].isDefault]
             /\ Settle(e, edit[e].isDefault, a \in Defaults)
        ELSE UNCHANGED <<address, contended, unset>>
     /\ EndEdit(e)
     /\ UNCHANGED <<edits, losses>>

(* deleteAddress: the row, the newest of the others, its promotion; the    *)
(* flag it goes by is the one it read first.                               *)
GoesOn(e, op, a) ==
  edit' = [edit EXCEPT ![e] = [op |-> op, alone |-> edit[e].alone, about |-> a]]

RemoveRow(e) ==
  /\ edit[e].op = "delete"
  /\ IF edit[e].about \in Saved
     THEN /\ address' = [address EXCEPT ![edit[e].about] = [saved |-> FALSE, isDefault |-> FALSE]]
          /\ IF edit[e].wasDefault THEN GoesOn(e, "next", edit[e].about) ELSE EndEdit(e)
          /\ contended' = (contended \/ ~ edit[e].alone)
     ELSE EndEdit(e) /\ UNCHANGED <<address, contended>>
  /\ UNCHANGED <<unset, edits, losses>>

FindNext(e) ==
  /\ edit[e].op = "next"
  /\ \/ Saved = {} /\ EndEdit(e)
     \/ \E a \in Saved : (\A b \in Saved : b <= a) /\ GoesOn(e, "promote", a)
  /\ UNCHANGED <<address, contended, unset, edits, losses>>

Promote(e) ==
  /\ edit[e].op = "promote"
  /\ IF edit[e].about \in Saved
     THEN address' = [address EXCEPT ![edit[e].about].isDefault = TRUE]
     ELSE UNCHANGED address
  /\ contended' = (contended \/ ~ edit[e].alone)
  /\ EndEdit(e)
  /\ UNCHANGED <<unset, edits, losses>>

(* A query fails, or the process stops; a transaction leaves no trace. *)
LoseEdit(e) ==
  /\ edit[e] # NoEdit /\ losses < MaxLosses
  /\ losses' = losses + 1
  /\ unset' = (unset \/ edit[e].op \in {"next", "promote"})
  /\ contended' = (contended \/ ~ edit[e].alone)
  /\ EndEdit(e)
  /\ UNCHANGED <<address, edits>>

BookNext ==
  \E e \in Editors :
    \/ \E b \in BOOLEAN : BeginCreate(e, b) \/ \E a \in Saved : BeginUpdate(e, a, b)
    \/ \E a \in Saved : BeginDefault(e, a) \/ BeginDelete(e, a)
    \/ CommitCreate(e) \/ CommitUpdate(e) \/ RemoveRow(e) \/ FindNext(e) \/ Promote(e)
    \/ LoseEdit(e)

-----------------------------------------------------------------------------
(* Only a saved address is the default. *)
BookTypeOK ==
  /\ \A a \in 1..Len(address) : address[a].isDefault => address[a].saved
  /\ Len(address) <= MaxEdits /\ edits \in 0..MaxEdits /\ losses \in 0..MaxLosses
  /\ \A e \in Busy : edit[e].op \in {"create", "update", "delete", "next", "promote"}

(* The checkout takes the default address.  Requests that overlap may leave*)
(* two (both first, or both the default) and an edit that does not repeat  *)
(* the flag leaves none; but as long as none of those that overlapped has  *)
(* written, whatever the requests are and wherever one of them fails, there*)
(* are no two defaults, and none only if the customer or a failure left    *)
(* none; and one request alone that sets the default repairs what          *)
(* overlapping ones left.                                                  *)
OneDefault ==
  ~ contended =>
    /\ Cardinality(Defaults) <= 1
    /\ Saved # {} /\ ~ unset /\ (\A e \in Busy : edit[e].op \notin {"next", "promote"}) => Defaults # {}
=============================================================================
