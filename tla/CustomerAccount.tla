--------------------------- MODULE CustomerAccount ---------------------------
(***************************************************************************)
(* The surfaces of a customer's account next to the orders: the book of    *)
(* addresses, the thread with the store (and, of the same making, the      *)
(* store's own thread with the platform), and what a saved address is      *)
(* quoted for delivery.  They share no row the properties are about.       *)
(***************************************************************************)
EXTENDS Addresses, Conversations, Delivery

CONSTANT MaxRequests \* bound: requests to the first two in a behaviour

vars == <<bookVars, chatVars, deliveryVars>>

Init == BookInit /\ ChatInit /\ DeliveryInit

(* Book and threads together, for which one set of cities will do; or the  *)
(* delivery, by itself.                                                    *)
Next ==
  \/ /\ asks = 0 /\ Known = Cities
     /\ \/ BookNext /\ UNCHANGED <<chatVars, deliveryVars>>
        \/ ChatNext /\ UNCHANGED <<bookVars, deliveryVars>>
     /\ edits' + begun' <= MaxRequests
  \/ edits + begun = 0 /\ DeliveryNext /\ UNCHANGED <<bookVars, chatVars>>

Spec == Init /\ [][Next]_vars

-----------------------------------------------------------------------------
(* Of the address book: its rows are those the code writes, and requests   *)
(* that do not overlap keep one default.                                   *)
BookSound == BookTypeOK /\ OneDefault

(* Of the threads: what their list, their counts and readAt tell of the    *)
(* messages, although no request to them is atomic.                        *)
ThreadsSound == ChatTypeOK /\ LastMessageFollows /\ MarkedOnOpening /\ InboxHonest
=============================================================================
