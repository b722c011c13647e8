---------------------------- MODULE Conversations ----------------------------
(***************************************************************************)
(* Message threads (src/messaging, src/customer-chat): one between a store *)
(* and the platform, and one between a store and each of its customers.    *)
(* A thread is created by its first message.  Every statement of a call is *)
(* a step of its own: the services use no transaction, and the messages a  *)
(* query includes are read by a statement after that of the threads.       *)
(***************************************************************************)
EXTENDS Integers, Sequences, FiniteSets

CONSTANTS
  Threads,     \* a store, or a store and one of its customers
  Chats,       \* the latter, under the plan's feature CUSTOMER_CHAT
  Callers,     \* concurrent requests
  MaxCalls,    \* bound: requests in a behaviour
  MaxBreaks    \* bound: requests that fail at a query, changes of the plan

ASSUME ConversationAssumption ==
  Chats \subseteq Threads /\ MaxCalls \in Nat /\ MaxBreaks \in Nat

VARIABLES
  conversation, \* threads that have a row
  message,      \* messages in the order of their createdAt
  last,         \* lastMessageAt of a thread, as the message it is taken from
  call,         \* call[c]: the request of a caller
  inbox,        \* the rows of the last inbox answered, and the messages when it was asked for
  chatEnabled,  \* whether the plan includes CUSTOMER_CHAT
  begun,        \* requests so far
  breaks        \* failures and plan changes so far

chatVars == <<conversation, message, last, call, inbox, chatEnabled, begun, breaks>>

-----------------------------------------------------------------------------
Parties(t) == IF t \in Chats THEN {"CUSTOMER", "MERCHANT"} ELSE {"MERCHANT", "SUPER_ADMIN"}
OfThread(t) == {i \in 1..Len(message) : message[i].thread = t}

(* otherRole: what a viewer's list marks was sent by the other side. *)
FromOther(viewer, S) == {i \in S : message[i].from # viewer}
Newest(S) == CHOOSE i \in S : \A j \in S : j <= i
NoCall == [op |-> "none"]

(* readAt: whose list marked the message, and the messages there were when *)
(* that list was asked for.                                                *)
Never == [by |-> "nobody", had |-> 0]

ChatInit ==
  /\ conversation = {} /\ message = <<>> /\ last = [t \in Threads |-> 0]
  /\ call = [c \in Callers |-> NoCall] /\ inbox = {}
  /\ chatEnabled = TRUE /\ begun = 0 /\ breaks = 0

(* assertEnabled comes first; a message's call remembers which messages    *)
(* had been sent when it began.                                            *)
Begin(c, r) ==
  /\ call[c] = NoCall /\ begun < MaxCalls
  /\ call' = [call EXCEPT ![c] = r]
  /\ begun' = begun + 1
  /\ UNCHANGED <<conversation, message, last, inbox, chatEnabled, breaks>>

Open(t) == t \in Chats => chatEnabled

BeginSend(c, t, side) ==
  /\ Open(t) /\ side \in Parties(t)
  /\ Begin(c, [op |-> "find", thread |-> t, side |-> side, msg |-> 0,
               after |-> {i \in 1..Len(message) : message[i].sent}])

BeginList(c, t, viewer) ==
  /\ Open(t) /\ viewer \in Parties(t)
  /\ Begin(c, [op |-> "list", thread |-> t, side |-> viewer, shown |-> {}, had |-> Len(message)])

BeginInbox(c, chats) ==
  /\ chats => chatEnabled
  /\ Begin(c, [op |-> "inbox", chats |-> chats, rows |-> {}, had |-> Len(message)])

To(c, op)  == call' = [call EXCEPT ![c].op = op]
Return(c)  == call' = [call EXCEPT ![c] = NoCall]
Quiet      == UNCHANGED <<chatEnabled, begun, breaks>>

-----------------------------------------------------------------------------
(* getOrCreateConversation: the second of two first messages meets the     *)
(* unique key and fails.                                                   *)
FindThread(c) ==
  /\ call[c].op = "find"
  /\ To(c, IF call[c].thread \in conversation THEN "write" ELSE "create")
  /\ UNCHANGED <<conversation, message, last, inbox>> /\ Quiet

CreateThread(c) ==
  /\ call[c].op = "create"
  /\ conversation' = conversation \cup {call[c].thread}
  /\ IF call[c].thread \in conversation THEN Return(c) ELSE To(c, "write")
  /\ UNCHANGED <<message, last, inbox>> /\ Quiet

WriteMessage(c) ==
  /\ call[c].op = "write"
  /\ message' = Append(message, [thread |-> call[c].thread, from |-> call[c].side, readAt |-> Never,
                                 seen |-> FALSE, sent |-> FALSE, after |-> call[c].after])
  /\ call' = [call EXCEPT ![c].op = "touch", ![c].msg = Len(message) + 1]
  /\ UNCHANGED <<conversation, last, inbox>> /\ Quiet

(* Mutant: lastMessageAt is set once. *)
TouchFirst(c) ==
  /\ call[c].op = "touch"
  /\ last' = [last EXCEPT ![call[c].thread] = IF @ = 0 THEN call[c].msg ELSE @]
  /\ message' = [message EXCEPT ![call[c].msg].sent = TRUE]
  /\ Return(c)
  /\ UNCHANGED <<conversation, inbox>> /\ Quiet

(* lastMessageAt, and the event to the rooms of both sides. *)
Touch(c) ==
  /\ call[c].op = "touch"
  /\ last' = [last EXCEPT ![call[c].thread] = call[c].msg]
  /\ message' = [message EXCEPT ![call[c].msg].sent = TRUE]
  /\ Return(c)
  /\ UNCHANGED <<conversation, inbox>> /\ Quiet

(* listMessages: the thread, its messages, and only then everything the    *)
(* other side has sent is marked; the answer is what was read.             *)
OpenThread(c) ==
  /\ call[c].op = "list"
  /\ IF call[c].thread \in conversation THEN To(c, "show") ELSE Return(c)
  /\ UNCHANGED <<conversation, message, last, inbox>> /\ Quiet

ReadThread(c) ==
  /\ call[c].op = "show"
  /\ call' = [call EXCEPT ![c].op = "mark", ![c].shown = OfThread(call[c].thread)]
  /\ UNCHANGED <<conversation, message, last, inbox>> /\ Quiet

Mark(c) ==
  /\ call[c].op = "mark"
  /\ LET r      == call[c]
         unread == {i \in FromOther(r.side, OfThread(r.thread)) : message[i].readAt = Never}
     IN message' = [i \in 1..Len(message) |-> [message[i] EXCEPT
          !.readAt = IF i \in unread THEN [by |-> r.side, had |-> r.had] ELSE @,
          !.seen   = @ \/ (i \in r.shown /\ message[i].from # r.side)]]
  /\ Return(c)
  /\ UNCHANGED <<conversation, last, inbox>> /\ Quiet

(* The inboxes.  The merchant's list of chats counts what is unread with   *)
(* the threads, before their newest messages; summaryForAdmin counts last. *)
ViewerOf(t) == IF t \in Chats THEN "MERCHANT" ELSE "SUPER_ADMIN"
Unread(t) == Cardinality({i \in FromOther(ViewerOf(t), OfThread(t)) : message[i].readAt = Never})

RowOf(t, had) == [thread |-> t, preview |-> 0, unread |-> 0, had |-> had]

ListChats(c) ==
  /\ call[c].op = "inbox" /\ call[c].chats
  /\ call' = [call EXCEPT ![c].op = "preview",
       ![c].rows = {[RowOf(t, call[c].had) EXCEPT !.unread = Unread(t)] :
                      t \in {u \in Chats : OfThread(u) # {}}}]
  /\ UNCHANGED <<conversation, message, last, inbox>> /\ Quiet

(* A thread without lastMessageAt is left out. *)
ReadInbox(c) ==
  /\ call[c].op = "inbox" /\ ~ call[c].chats
  /\ call' = [call EXCEPT ![c].op = "preview",
       ![c].rows = {RowOf(t, call[c].had) : t \in {u \in Threads \ Chats : OfThread(u) # {} /\ last[u] # 0}}]
  /\ UNCHANGED <<conversation, message, last, inbox>> /\ Quiet

Previewed(rows) == {[r EXCEPT !.preview = Newest(OfThread(r.thread))] : r \in rows}

PreviewChats(c) ==
  /\ call[c].op = "preview" /\ call[c].chats
  /\ inbox' = Previewed(call[c].rows)
  /\ Return(c)
  /\ UNCHANGED <<conversation, message, last>> /\ Quiet

PreviewInbox(c) ==
  /\ call[c].op = "preview" /\ ~ call[c].chats
  /\ call' = [call EXCEPT ![c].op = "count", ![c].rows = Previewed(call[c].rows)]
  /\ UNCHANGED <<conversation, message, last, inbox>> /\ Quiet

CountUnread(c) ==
  /\ call[c].op = "count"
  /\ inbox' = {[r EXCEPT !.unread = Unread(r.thread)] : r \in call[c].rows}
  /\ Return(c)
  /\ UNCHANGED <<conversation, message, last>> /\ Quiet

(* A query fails and the request with it; nothing is rolled back. *)
Break(c) ==
  /\ call[c] # NoCall /\ breaks < MaxBreaks
  /\ breaks' = breaks + 1
  /\ Return(c)
  /\ UNCHANGED <<conversation, message, last, inbox, chatEnabled, begun>>

ChangeFeature ==
  /\ breaks < MaxBreaks /\ breaks' = breaks + 1
  /\ chatEnabled' = ~ chatEnabled
  /\ UNCHANGED <<conversation, message, last, call, inbox, begun>>

ChatNext ==
  \/ \E c \in Callers :
       \/ \E t \in Threads : \E s \in Parties(t) : BeginSend(c, t, s) \/ BeginList(c, t, s)
       \/ \E b \in BOOLEAN : BeginInbox(c, b)
       \/ FindThread(c) \/ CreateThread(c) \/ WriteMessage(c) \/ Touch(c)
       \/ OpenThread(c) \/ ReadThread(c) \/ Mark(c)
       \/ ListChats(c) \/ PreviewChats(c)
       \/ ReadInbox(c) \/ PreviewInbox(c) \/ CountUnread(c)
       \/ Break(c)
  \/ ChangeFeature

-----------------------------------------------------------------------------
(* A message is in a thread that exists, and seen only if marked. *)
ChatTypeOK ==
  /\ conversation \subseteq Threads
  /\ \A i \in 1..Len(message) :
       /\ message[i].thread \in conversation /\ message[i].from \in Parties(message[i].thread)
       /\ message[i].after \subseteq 1..i - 1
  /\ last \in [Threads -> 0..Len(message)]
  /\ begun \in 0..MaxCalls /\ breaks \in 0..MaxBreaks

(* lastMessageAt is written last and from the caller's own message, so two *)
(* sends at once may leave the older one.  It is never the older one of    *)
(* two that did not overlap, and every thread with a message that was sent *)
(* has one: the admin's inbox, which drops threads without, has the thread.*)
LastMessageFollows ==
  \A t \in Threads :
    /\ last[t] # 0 => last[t] \in OfThread(t)
    /\ \A i \in OfThread(t) : message[i].sent =>
         last[t] # 0 /\ last[t] \notin message[i].after

(* The thread is read before its messages are marked, so a message may be  *)
(* marked that the answer did not show.  It can only be one that came while*)
(* its recipient was opening the thread: everything else the unread counts *)
(* leave out was in an answer to its recipient, and what an answer showed  *)
(* is left out.                                                            *)
MarkedOnOpening ==
  \A i \in 1..Len(message) :
    LET m == message[i]
    IN /\ m.readAt # Never => m.readAt.by # m.from /\ (m.seen \/ i > m.readAt.had)
       /\ m.seen => m.readAt # Never

(* The threads, their newest messages and the counts of an inbox come from *)
(* statements at different times.  A row that counts nothing unread hides  *)
(* nothing that was there when the inbox was asked for: every such message *)
(* of the other side has been read, and no such message is newer than the  *)
(* preview.  A message that comes meanwhile may be previewed and not be    *)
(* counted, or be counted and not previewed.                               *)
PreviewHonest(r) == \A i \in OfThread(r.thread) : i <= r.had => i <= r.preview
CountHonest(r) ==
  r.unread = 0 => \A i \in FromOther(ViewerOf(r.thread), OfThread(r.thread)) :
                    i <= r.had => message[i].readAt # Never
InboxHonest == \A r \in inbox : PreviewHonest(r) /\ CountHonest(r)
=============================================================================
