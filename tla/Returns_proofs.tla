---------------------------- MODULE Returns_proofs ----------------------------
(* For any items, quantities, forms and number of requests: the rows are   *)
(* of the kinds the code writes, a customer asks for one return at a time, *)
(* and a line moves stock when its decision leaves NONE and only then,     *)
(* while its product exists.                                               *)
EXTENDS Returns, SequenceTheorems, FiniteSetTheorems, TLAPS

Lines == UNION {[S -> Line] : S \in (SUBSET Items) \ {{}}}

(* What a request holds.                                                   *)
Slot ==
  {Idle} \cup [kind : {"ask"}, by : {"customer", "employee"}, asked : Asked, at : 0..MaxHandled]
    \cup [kind : {"update"}, id : Returns, form : Form, items : Lines]
    \cup [kind : {"updating"}, id : Returns, form : Form, items : Lines, linked : SUBSET Items]
    \cup [kind : {"refund"}, amount : Amounts \ {0}, paid : Amounts]
    \cup [kind : {"refunding"}, amount : Amounts \ {0}, paid : Amounts,
          seen : [Refunds -> Amounts \cup {0}]]

Shapes ==
  /\ ret \in [Returns -> Return \cup {None}]
  /\ request \in [Requests -> Slot]

(* A request of the customer has read an order without open returns, so    *)
(* those that are open now were opened after it.                           *)
Asks(q) ==
  /\ request[q].at <= handled
  /\ request[q].by = "customer" =>
       /\ \A i \in DOMAIN request[q].asked : request[q].asked[i] <= Bought[i]
       /\ \A r \in Returns : Open(r) => request[q].at < ret[r].openedAt

ReadsHonest ==
  \A q \in Requests :
    /\ request[q].kind = "ask" => Asks(q)
    /\ request[q].kind \in {"update", "updating"} => ret[request[q].id] # None
    /\ request[q].kind = "updating" => linked \subseteq request[q].linked

AskedBefore == \A r \in Returns : ret[r] # None => ret[r].askedAt <= handled

(* A movement of the transaction to come is new.                           *)
MovedBefore == \A r \in Returns, i \in Items : \A m \in moves[r][i] : m.at <= handled

RInv == TypeOK /\ OneOpenReturn /\ Shapes /\ ReadsHonest /\ AskedBefore /\ MovedBefore

-----------------------------------------------------------------------------
LEMMA NoneIsNoReturn == None \notin Return
  BY DEF None, Return, ReturnStatus, Closed

LEMMA OpenRow ==
  ASSUME Shapes, NEW r \in Returns, Open(r)
  PROVE  ret[r] \in Return
  BY DEF Shapes, Open

LEMMA AskSlot ==
  ASSUME Shapes, NEW q \in Requests, request[q].kind = "ask"
  PROVE  /\ request[q].by \in {"customer", "employee"} /\ request[q].asked \in Asked
         /\ request[q].at \in 0..MaxHandled
  BY DEF Shapes, Slot, Idle

LEMMA UpdateSlot ==
  ASSUME Shapes, NEW q \in Requests, request[q].kind \in {"update", "updating"}
  PROVE  /\ request[q].id \in Returns /\ request[q].items \in Lines
         /\ request[q].form \in Form
         /\ request[q].kind = "updating" => request[q].linked \subseteq Items
<1>1. request[q] \in Slot
  BY DEF Shapes
<1> HIDE DEF Form, Lines
<1> QED
  BY <1>1 DEF Slot, Idle

LEMMA RefundSlot ==
  ASSUME Shapes, NEW q \in Requests, request[q].kind \in {"refund", "refunding"}
  PROVE  request[q].amount \in Amounts \ {0} /\ request[q].paid \in Amounts
  BY DEF Shapes, Slot, Idle

LEMMA AskedLines ==
  ASSUME NEW asked \in Asked
  PROVE  /\ DOMAIN asked \in (SUBSET Items) \ {{}}
         /\ \A i \in DOMAIN asked : asked[i] \in Quantities
  BY DEF Asked

LEMMA SomeLines ==
  ASSUME NEW items \in Lines
  PROVE  /\ DOMAIN items \in (SUBSET Items) \ {{}}
         /\ \A i \in DOMAIN items : items[i] \in Line
  BY DEF Lines

LEMMA ReturnLines ==
  ASSUME NEW row \in Return
  PROVE  /\ DOMAIN row.items \in (SUBSET Items) \ {{}} /\ row.items \in Lines
         /\ \A i \in DOMAIN row.items : row.items[i] \in Line
         /\ row.by \in {"customer", "employee"} /\ row.status \in ReturnStatus
         /\ row.askedAt \in 0..MaxHandled /\ row.openedAt \in 1..MaxHandled
  BY DEF Return, Lines

LEMMA FormEdits ==
  ASSUME NEW form \in Form
  PROVE  /\ form.status \in ReturnStatus \cup {"unset"}
         /\ form.edits \in Seq(Entry)
  BY DEF Form

LEMMA Entries ==
  ASSUME NEW edits \in Seq(Entry), NEW k \in DOMAIN edits
  PROVE  edits[k] \in Entry /\ k \in Nat \ {0}
  OBVIOUS

LEMMA EditedLine ==
  ASSUME NEW line \in Line, NEW edits \in Seq(Entry), NEW i
  PROVE  /\ Edited(line, edits, i) \in Line
         /\ Edited(line, edits, i).requested = line.requested
<1> DEFINE as == {k \in Naming(edits, i) : edits[k].approved # Unset}
           ds == {k \in Naming(edits, i) : edits[k].decision # "unset"}
           a == IF \E k \in as : Last(as, k) THEN edits[CHOOSE k \in as : Last(as, k)].approved
                                            ELSE line.approved
           d == IF \E k \in ds : Last(ds, k) THEN edits[CHOOSE k \in ds : Last(ds, k)].decision
                                            ELSE line.decision
<1>1. a \in Approvals \cup {Unset}
  <2>1. CASE \E k \in as : Last(as, k)
    <3>1. PICK k \in as : a = edits[k].approved
      BY <2>1
    <3> QED
      BY <3>1, Entries DEF Naming, Entry
  <2> QED
    BY <2>1 DEF Line
<1>2. d \in Decision
  <2>1. CASE \E k \in ds : Last(ds, k)
    <3>1. PICK k \in ds : d = edits[k].decision
      BY <2>1
    <3>2. edits[k].decision \in Decision \cup {"unset"} /\ edits[k].decision # "unset"
      BY <3>1, Entries DEF Naming, Entry
    <3> QED
      BY <3>1, <3>2
  <2> QED
    BY <2>1 DEF Line
<1>3. Edited(line, edits, i) = [line EXCEPT !.approved = a, !.decision = d]
  BY DEF Edited, Line
<1> HIDE DEF a, d
<1> QED
  BY <1>1, <1>2, <1>3 DEF Line

(* A decision that a form leaves was written by an entry, the only one if  *)
(* the form names the line once.                                           *)
LEMMA DecidedBy ==
  ASSUME NEW line \in Line, NEW edits \in Seq(Entry), NEW i,
         Edited(line, edits, i).decision # line.decision
  PROVE  \E k \in Naming(edits, i) : edits[k].decision = Edited(line, edits, i).decision
<1> DEFINE ds == {k \in Naming(edits, i) : edits[k].decision # "unset"}
<1>1. Edited(line, edits, i).decision =
        IF \E k \in ds : Last(ds, k) THEN edits[CHOOSE k \in ds : Last(ds, k)].decision
                                     ELSE line.decision
  BY DEF Edited, Line
<1>2. \E k \in ds : Last(ds, k)
  BY <1>1
<1>3. (CHOOSE k \in ds : Last(ds, k)) \in ds
  BY <1>2
<1> HIDE DEF ds
<1>4. Edited(line, edits, i).decision = edits[CHOOSE k \in ds : Last(ds, k)].decision
  BY <1>1, <1>2
<1> QED
  BY <1>3, <1>4 DEF ds

LEMMA NamedOnce ==
  ASSUME NEW line \in Line, NEW edits \in Seq(Entry), NEW i, NEW k \in Naming(edits, i),
         \A l \in Naming(edits, i) : l = k
  PROVE  /\ Edited(line, edits, i).decision =
              IF edits[k].decision = "unset" THEN line.decision ELSE edits[k].decision
         /\ Edited(line, edits, i).approved =
              IF edits[k].approved = Unset THEN line.approved ELSE edits[k].approved
<1>0. k \in Nat
  BY Entries DEF Naming
<1>1. ASSUME NEW S, S \subseteq Naming(edits, i)
      PROVE  /\ k \in S => (\E j \in S : Last(S, j)) /\ (CHOOSE j \in S : Last(S, j)) = k
             /\ k \notin S => ~ \E j \in S : Last(S, j)
  <2>1. S = {} \/ S = {k}
    BY <1>1
  <2>2. CASE S = {k}
    <3>1. Last(S, k) /\ \A j \in S : j = k
      BY <1>0, <2>2 DEF Last
    <3> QED
      BY <2>2, <3>1
  <2> QED
    BY <2>1, <2>2
<1> DEFINE as == {j \in Naming(edits, i) : edits[j].approved # Unset}
           ds == {j \in Naming(edits, i) : edits[j].decision # "unset"}
<1>2. /\ Edited(line, edits, i).decision =
           IF \E j \in ds : Last(ds, j) THEN edits[CHOOSE j \in ds : Last(ds, j)].decision
                                        ELSE line.decision
      /\ Edited(line, edits, i).approved =
           IF \E j \in as : Last(as, j) THEN edits[CHOOSE j \in as : Last(as, j)].approved
                                        ELSE line.approved
  BY DEF Edited, Line
<1>3. /\ as \subseteq Naming(edits, i) /\ (k \in as <=> edits[k].approved # Unset)
      /\ ds \subseteq Naming(edits, i) /\ (k \in ds <=> edits[k].decision # "unset")
  OBVIOUS
<1> HIDE DEF as, ds
<1>4. Edited(line, edits, i).decision =
        IF edits[k].decision = "unset" THEN line.decision ELSE edits[k].decision
  BY <1>1, <1>2, <1>3
<1>5. Edited(line, edits, i).approved =
        IF edits[k].approved = Unset THEN line.approved ELSE edits[k].approved
  BY <1>1, <1>2, <1>3
<1> QED
  BY <1>4, <1>5

(* The movements of a form.                                                *)
LEMMA MovesOfForm ==
  ASSUME NEW line \in Line, NEW edits \in Seq(Entry), NEW i, handled + 1 \in 1..MaxHandled
  PROVE  /\ MovesOf(line, edits, i) \subseteq Movement
         /\ MovesOf(line, edits, i) # {} => line.decision = "NONE"
         /\ \A m \in MovesOf(line, edits, i) :
              /\ m.at = handled + 1 /\ m.entry \in Naming(edits, i)
              /\ Restocks(edits[m.entry].decision)
              /\ m = MovementOf(line, edits[m.entry], m.entry)
<1>1. ASSUME NEW k \in Naming(edits, i)
      PROVE  /\ MovementOf(line, edits[k], k) \in Movement
             /\ MovementOf(line, edits[k], k).at = handled + 1
             /\ MovementOf(line, edits[k], k).entry = k
  <2>1. edits[k] \in Entry /\ k \in Nat \ {0}
    BY Entries DEF Naming
  <2>2. line.requested \in Quantities /\ edits[k].approved \in Approvals \cup {Unset}
    BY <2>1 DEF Line, Entry
  <2> QED
    BY <2>1, <2>2 DEF MovementOf, Movement, TypeFor
<1> QED
  BY <1>1 DEF MovesOf

LEMMA CommitClock ==
  ASSUME TypeOK, NEW q, Commit(q)
  PROVE  handled \in Nat /\ handled' = handled + 1 /\ handled + 1 \in 1..MaxHandled
<1>1. handled \in 0..MaxHandled
  BY DEF TypeOK
<1>2. MaxHandled \in Nat
  BY InputsAssumption
<1> QED
  BY <1>1, <1>2 DEF Commit

Rewritten(row, items, status, opened) ==
  [row EXCEPT !.items = items, !.status = status, !.openedAt = opened]

LEMMA RewrittenReturn ==
  ASSUME NEW row \in Return, NEW items \in UNION {[S -> Line] : S \in (SUBSET Items) \ {{}}},
         NEW status \in ReturnStatus, NEW opened \in 1..MaxHandled
  PROVE  /\ Rewritten(row, items, status, opened) \in Return
         /\ Rewritten(row, items, status, opened).by = row.by
         /\ Rewritten(row, items, status, opened).askedAt = row.askedAt
         /\ Rewritten(row, items, status, opened).openedAt = opened
         /\ Rewritten(row, items, status, opened).items = items
  BY DEF Rewritten, Return

(* What is stored of a return after its form is saved.                     *)
LEMMA SavedReturn ==
  ASSUME RInv, NEW q \in Requests, SaveReturn(q)
  PROVE  /\ request[q].id \in Returns /\ ret[request[q].id] \in Return
         /\ handled \in Nat /\ handled + 1 \in 1..MaxHandled /\ handled' = handled + 1
         /\ ret' \in [Returns -> Return \cup {None}]
         /\ \A r \in Returns \ {request[q].id} : ret'[r] = ret[r]
         /\ LET old == ret[request[q].id]
                new == ret'[request[q].id]
            IN /\ new \in Return
               /\ new.by = old.by /\ new.askedAt = old.askedAt
               /\ new.openedAt = IF Open(request[q].id) THEN old.openedAt ELSE handled + 1
               /\ DOMAIN new.items = DOMAIN old.items
               /\ \A i \in DOMAIN old.items :
                    /\ new.items[i].requested = old.items[i].requested
                    /\ new.items[i] =
                         IF i \in DOMAIN request[q].items
                         THEN Edited(old.items[i], request[q].form.edits, i) ELSE old.items[i]
<1> DEFINE r == request[q].id
           form == request[q].form
           lines == DOMAIN request[q].items
           old == ret[r]
           items == [i \in DOMAIN old.items |->
                       IF i \in lines THEN Edited(old.items[i], form.edits, i) ELSE old.items[i]]
           status == IF form.status = "unset" THEN old.status ELSE form.status
           opened == IF Open(r) THEN old.openedAt ELSE handled + 1
           new == Rewritten(old, items, status, opened)
<1>1. r \in Returns /\ form \in Form
  BY UpdateSlot DEF SaveReturn, RInv
<1>2. old \in Return
  BY <1>1 DEF RInv, ReadsHonest, Shapes, SaveReturn
<1>3. handled \in Nat /\ handled' = handled + 1 /\ handled + 1 \in 1..MaxHandled
  BY CommitClock DEF SaveReturn, RInv
<1>4. \A i \in DOMAIN old.items : items[i] \in Line /\ items[i].requested = old.items[i].requested
  <2> TAKE i \in DOMAIN old.items
  <2>1. old.items[i] \in Line
    BY <1>2, ReturnLines
  <2>2. CASE i \in lines
    <3>1. form.edits \in Seq(Entry)
      BY <1>1, FormEdits
    <3> QED
      BY <2>1, <2>2, <3>1, EditedLine
  <2>3. CASE i \notin lines
    BY <2>1, <2>3
  <2> QED
    BY <2>2, <2>3
<1>5. items \in [DOMAIN old.items -> Line] /\ DOMAIN old.items \in (SUBSET Items) \ {{}}
  BY <1>2, <1>4, ReturnLines
<1>6. status \in ReturnStatus /\ opened \in 1..MaxHandled
  BY <1>1, <1>2, <1>3, FormEdits, ReturnLines
<1>7. items \in UNION {[S -> Line] : S \in (SUBSET Items) \ {{}}}
  BY <1>5
<1>8. /\ new \in Return
      /\ new.by = old.by /\ new.askedAt = old.askedAt /\ new.openedAt = opened
      /\ new.items = items
  <2> HIDE DEF items, status, opened, old
  <2> QED
    BY <1>2, <1>6, <1>7, RewrittenReturn
<1>9. ret' = [ret EXCEPT ![r] = new]
  BY <1>1 DEF SaveReturn, RInv, Shapes, Rewritten
<1>10. /\ ret' \in [Returns -> Return \cup {None}] /\ ret'[r] = new
       /\ \A s \in Returns \ {r} : ret'[s] = ret[s]
  BY <1>1, <1>8, <1>9 DEF RInv, Shapes
<1> HIDE DEF new
<1> QED
  BY <1>1, <1>2, <1>3, <1>4, <1>8, <1>10

-----------------------------------------------------------------------------
LEMMA RInit == Init => RInv
<1> SUFFICES ASSUME Init PROVE RInv
  OBVIOUS
<1>1. \A r \in Returns : ret[r] = None /\ ~ Open(r)
  BY DEF Init, Open
<1>2. \A q \in Requests : request[q].kind = "idle"
  BY DEF Init, Idle
<1>3. Shapes
  BY DEF Init, Shapes, Slot
<1>4. TypeOK
  <2>1. handled = 0 /\ 0 \in 0..MaxHandled
    BY InputsAssumption DEF Init
  <2>2. moves \in [Returns -> [Items -> SUBSET Movement]] /\ linked \subseteq Items
    BY DEF Init
  <2>3. refund \in [Refunds -> Amounts \cup {0}]
    BY DEF Init
  <2>4. order \in [status : {"DELIVERED", "PROCESSING"}, paid : Amounts, payment : PaymentStatus]
    BY InputsAssumption DEF Init
  <2> QED
    BY <1>1, <2>1, <2>2, <2>3, <2>4, NoneIsNoReturn DEF TypeOK, None
<1>5. OneOpenReturn /\ AskedBefore
  BY <1>1 DEF OneOpenReturn, AskedBefore
<1>6. ReadsHonest /\ MovedBefore
  BY <1>2 DEF ReadsHonest, MovedBefore, Init
<1> QED
  BY <1>3, <1>4, <1>5, <1>6 DEF RInv

(* A step that leaves the returns alone keeps what is said of them,        *)
LEMMA ReturnsAlone ==
  ASSUME RInv, UNCHANGED <<ret, moves>>, handled' \in {handled, handled + 1},
         handled' \in 0..MaxHandled, request' \in [Requests -> Slot], ReadsHonest',
         linked' \subseteq Items,
         order' \in [status : {"DELIVERED", "PROCESSING"}, paid : Amounts, payment : PaymentStatus],
         refund' \in [Refunds -> Amounts \cup {0}]
  PROVE  RInv'
<1>0. handled \in Int /\ handled <= handled'
  BY InputsAssumption DEF RInv, TypeOK
<1>1. \A r \in Returns : Open(r)' = Open(r)
  BY DEF Open
<1>2. TypeOK'
  BY DEF RInv, TypeOK
<1>3. OneOpenReturn'
  BY <1>1 DEF RInv, OneOpenReturn
<1>4. Shapes'
  BY DEF RInv, Shapes
<1>5. AskedBefore'
  <2> SUFFICES ASSUME NEW r \in Returns, ret[r] # None PROVE ret[r].askedAt <= handled'
    BY DEF AskedBefore
  <2>1. ret[r].askedAt <= handled /\ ret[r] \in Return
    BY DEF RInv, AskedBefore, Shapes
  <2>2. ret[r].askedAt \in Int
    BY <2>1, ReturnLines
  <2> QED
    BY <1>0, <2>1, <2>2
<1>6. MovedBefore'
  <2> SUFFICES ASSUME NEW r \in Returns, NEW i \in Items, NEW m \in moves[r][i]
               PROVE  m.at <= handled'
    BY DEF MovedBefore
  <2>1. m.at <= handled /\ m \in Movement
    BY DEF RInv, MovedBefore, TypeOK
  <2>2. m.at \in Int
    BY <2>1 DEF Movement
  <2> QED
    BY <1>0, <2>1, <2>2
<1> QED
  BY <1>2, <1>3, <1>4, <1>5, <1>6 DEF RInv

(* and of what was read, if no such request is new.                        *)
LEMMA ReadsAlone ==
  ASSUME RInv, UNCHANGED ret, handled' \in {handled, handled + 1}, linked' \subseteq linked,
         \A q \in Requests : request'[q].kind \in {"ask", "update", "updating"} =>
           request'[q] = request[q]
  PROVE  ReadsHonest'
<1>0. handled \in Int /\ handled <= handled'
  BY InputsAssumption DEF RInv, TypeOK
<1>1. \A r \in Returns : Open(r)' = Open(r)
  BY DEF Open
<1>2. ASSUME NEW q \in Requests, request'[q].kind = "ask" PROVE Asks(q)'
  <2>1. request'[q] = request[q] /\ request[q].kind = "ask"
    BY <1>2
  <2>2. Asks(q) /\ request[q].at \in Int
    BY <2>1, AskSlot DEF RInv, ReadsHonest
  <2> QED
    BY <1>0, <1>1, <2>1, <2>2 DEF Asks
<1>3. ASSUME NEW q \in Requests, request'[q].kind \in {"update", "updating"}
      PROVE  /\ ret'[request'[q].id] # None
             /\ request'[q].kind = "updating" => linked' \subseteq request'[q].linked
  <2>1. request'[q] = request[q] /\ request[q].kind \in {"update", "updating"}
    BY <1>3
  <2> QED
    BY <2>1 DEF RInv, ReadsHonest
<1> QED
  BY <1>2, <1>3 DEF ReadsHonest

(* Reading.                                                                *)
LEMMA ReadSlot ==
  ASSUME RInv, NEW q \in Requests, NEW req \in Slot,
         request' = [request EXCEPT ![q] = req],
         UNCHANGED <<order, ret, linked, moves, refund, handled>>,
         req.kind = "ask" =>
           /\ req.at <= handled
           /\ req.by = "customer" =>
                /\ \A i \in DOMAIN req.asked : req.asked[i] <= Bought[i]
                /\ \A r \in Returns : Open(r) => req.at < ret[r].openedAt,
         req.kind \in {"update", "updating"} => ret[req.id] # None,
         req.kind = "updating" => linked \subseteq req.linked
  PROVE  RInv'
<1>1. /\ UNCHANGED <<order, ret, linked, moves, refund, handled>>
      /\ request' = [request EXCEPT ![q] = req]
  OBVIOUS
<1>2. request' \in [Requests -> Slot] /\ request'[q] = req
      /\ \A p \in Requests \ {q} : request'[p] = request[p]
  BY <1>1 DEF RInv, Shapes
<1>3. \A r \in Returns : Open(r)' = Open(r)
  BY <1>1 DEF Open
<1>4. ASSUME NEW p \in Requests, request'[p].kind = "ask" PROVE Asks(p)'
  <2>1. CASE p = q
    BY <1>1, <1>2, <1>3, <1>4, <2>1 DEF Asks
  <2>2. CASE p # q
    <3>1. request'[p] = request[p] /\ Asks(p)
      BY <1>2, <1>4, <2>2 DEF RInv, ReadsHonest
    <3> QED
      BY <1>1, <1>3, <3>1 DEF Asks
  <2> QED
    BY <2>1, <2>2
<1>5. ASSUME NEW p \in Requests, request'[p].kind \in {"update", "updating"}
      PROVE  /\ ret'[request'[p].id] # None
             /\ request'[p].kind = "updating" => linked' \subseteq request'[p].linked
  BY <1>1, <1>2, <1>5 DEF RInv, ReadsHonest
<1>6. ReadsHonest'
  BY <1>4, <1>5 DEF ReadsHonest
<1>7. /\ handled' \in 0..MaxHandled
      /\ order' \in [status : {"DELIVERED", "PROCESSING"}, paid : Amounts, payment : PaymentStatus]
      /\ refund' \in [Refunds -> Amounts \cup {0}] /\ linked' \subseteq Items
  BY <1>1 DEF RInv, TypeOK
<1> QED
  BY <1>1, <1>2, <1>6, <1>7, ReturnsAlone

(* The end of a request.                                                   *)
LEMMA EndedSlot ==
  ASSUME RInv, NEW q \in Requests, request' = [request EXCEPT ![q] = Idle]
  PROVE  /\ request' \in [Requests -> Slot] /\ request'[q] = Idle
         /\ \A p \in Requests \ {q} : request'[p] = request[p]
         /\ \A p \in Requests : request'[p].kind \in {"ask", "update", "updating"} =>
              p # q /\ request'[p] = request[p]
BY DEF RInv, Shapes, Slot, Idle

(* Requests that read a return or an order before another one committed.   *)
LEMMA ReadersOfOthers ==
  ASSUME RInv, NEW q \in Requests, NEW r \in Returns, Commit(q), UNCHANGED linked,
         \A s \in Returns \ {r} : ret'[s] = ret[s],
         ret'[r] # None,
         Open(r)' => ret'[r].openedAt = handled + 1
                     \/ (Open(r) /\ ret'[r].openedAt = ret[r].openedAt)
  PROVE  ReadsHonest'
<1>1. handled \in Nat /\ handled' = handled + 1
  BY CommitClock DEF RInv
<1>2. \A p \in Requests : request'[p].kind \in {"ask", "update", "updating"} =>
        p # q /\ request'[p] = request[p]
  BY EndedSlot DEF Commit
<1>3. ASSUME NEW p \in Requests, request'[p].kind = "ask" PROVE Asks(p)'
  <2>1. request'[p] = request[p] /\ Asks(p) /\ request[p].at \in Int /\ request[p].at <= handled
    BY <1>2, <1>3, AskSlot DEF RInv, ReadsHonest, Asks
  <2>2. ASSUME request[p].by = "customer", NEW s \in Returns, Open(s)'
        PROVE  request[p].at < ret'[s].openedAt
    <3>1. CASE s # r
      <4>1. Open(s) /\ ret'[s] = ret[s]
        BY <2>2, <3>1 DEF Open
      <4> QED
        BY <2>1, <2>2, <4>1 DEF Asks
    <3>2. CASE s = r
      BY <1>1, <2>1, <2>2, <3>2 DEF Asks
    <3> QED
      BY <3>1, <3>2
  <2>3. request'[p].at <= handled'
    BY <1>1, <2>1
  <2> QED
    BY <2>1, <2>2, <2>3 DEF Asks
<1>4. ASSUME NEW p \in Requests, request'[p].kind \in {"update", "updating"}
      PROVE  /\ ret'[request'[p].id] # None
             /\ request'[p].kind = "updating" => linked' \subseteq request'[p].linked
  <2>1. /\ request'[p] = request[p] /\ request[p].id \in Returns /\ ret[request[p].id] # None
        /\ request[p].kind = "updating" => linked \subseteq request[p].linked
    BY <1>2, <1>4, UpdateSlot DEF RInv, ReadsHonest
  <2> QED
    BY <2>1
<1> QED
  BY <1>3, <1>4 DEF ReadsHonest

(* A customer's request becomes a return.                                  *)
LEMMA CreateKeeps ==
  ASSUME RInv, NEW q \in Requests, NEW r \in Returns, CreateReturn(q, r)
  PROVE  RInv'
<1> DEFINE req == request[q]
           items == [i \in DOMAIN req.asked |->
                       [requested |-> req.asked[i], approved |-> Unset, decision |-> "NONE"]]
           new == [by |-> req.by, askedAt |-> req.at, openedAt |-> handled + 1,
                   status |-> "REQUESTED", items |-> items]
<1>1. /\ req.kind = "ask" /\ ret[r] = None /\ Commit(q)
      /\ ret' = [ret EXCEPT ![r] = new] /\ UNCHANGED <<order, linked, moves, refund>>
  BY DEF CreateReturn
<1>2. /\ handled \in Nat /\ handled' = handled + 1 /\ handled + 1 \in 1..MaxHandled
      /\ request' = [request EXCEPT ![q] = Idle]
  BY <1>1, CommitClock DEF RInv, Commit
<1>3. req.by \in {"customer", "employee"} /\ req.asked \in Asked /\ req.at \in 0..MaxHandled
      /\ Asks(q)
  BY <1>1, AskSlot DEF RInv, ReadsHonest
<1>4. new \in Return
  <2>1. DOMAIN req.asked \in (SUBSET Items) \ {{}} /\ items \in [DOMAIN req.asked -> Line]
    BY <1>3, AskedLines DEF Line, Decision
  <2>2. items \in UNION {[S -> Line] : S \in (SUBSET Items) \ {{}}}
    BY <2>1
  <2>3. "REQUESTED" \in ReturnStatus
    BY DEF ReturnStatus
  <2> HIDE DEF items
  <2> QED
    BY <1>2, <1>3, <2>2, <2>3 DEF Return
<1>5. /\ ret'[r] = new /\ \A s \in Returns \ {r} : ret'[s] = ret[s]
      /\ ret' \in [Returns -> Return \cup {None}]
  BY <1>1, <1>4 DEF RInv, Shapes
<1>6. /\ ret'[r].by = req.by /\ ret'[r].askedAt = req.at /\ ret'[r].openedAt = handled + 1
      /\ ret'[r].items = items /\ ret'[r] # None
  BY <1>4, <1>5, NoneIsNoReturn
<1>7. Shapes'
  BY <1>2, <1>5, EndedSlot DEF Shapes
<1>8. ReadsHonest'
  BY <1>1, <1>5, <1>6, ReadersOfOthers
<1>9. AskedBefore'
  <2> SUFFICES ASSUME NEW s \in Returns, ret'[s] # None PROVE ret'[s].askedAt <= handled'
    BY DEF AskedBefore
  <2>1. CASE s = r
    BY <1>2, <1>3, <1>6, <2>1 DEF Asks
  <2>2. CASE s # r
    <3>1. ret'[s] = ret[s] /\ ret[s] \in Return /\ ret[s].askedAt <= handled
      BY <1>5, <2>2 DEF RInv, AskedBefore, Shapes
    <3> QED
      BY <1>2, <3>1, ReturnLines
  <2> QED
    BY <2>1, <2>2
<1>10. OneOpenReturn'
  <2> SUFFICES ASSUME NEW a \in Returns, NEW b \in Returns, a # b, Open(a)', ret'[b] # None,
                      ret'[b].by = "customer"
               PROVE  ret'[b].askedAt < ret'[a].openedAt
    BY DEF OneOpenReturn
  <2>1. CASE a = r
    <3>1. ret'[b] = ret[b] /\ ret[b].askedAt <= handled /\ ret[b] \in Return
      BY <1>5, <2>1 DEF RInv, AskedBefore, Shapes
    <3> QED
      BY <1>2, <1>6, <2>1, <3>1, ReturnLines
  <2>2. CASE a # r
    <3>1. ret'[a] = ret[a] /\ Open(a)
      BY <1>5, <2>2 DEF Open
    <3>2. CASE b = r
      BY <1>3, <1>6, <3>1, <3>2 DEF Asks
    <3>3. CASE b # r
      BY <1>5, <3>1, <3>3 DEF RInv, OneOpenReturn
    <3> QED
      BY <3>2, <3>3
  <2> QED
    BY <2>1, <2>2
<1>11. TypeOK'
  <2>1. \A s \in Returns : ret'[s] = None \/ ret'[s] \in Return
    BY <1>5
  <2>2. ASSUME NEW s \in Returns, ret'[s] # None, ret'[s].by = "customer", NEW i \in DOMAIN ret'[s].items
        PROVE  ret'[s].items[i].requested \in 1..Bought[i]
    <3>1. CASE s = r
      <4>1. i \in DOMAIN req.asked /\ ret'[s].items[i].requested = req.asked[i] /\ i \in Items
        BY <1>3, <1>6, <2>2, <3>1, AskedLines
      <4>2. req.asked[i] \in Nat \ {0} /\ req.asked[i] <= Bought[i]
        BY <1>3, <1>6, <2>2, <3>1, <4>1, AskedLines, InputsAssumption DEF Asks
      <4>3. Bought[i] \in Nat
        BY <4>1, OrderAssumption
      <4> QED
        BY <4>1, <4>2, <4>3
    <3>2. CASE s # r
      BY <1>5, <2>2, <3>2 DEF RInv, TypeOK
    <3> QED
      BY <3>1, <3>2
  <2>3. handled' \in 0..MaxHandled
    BY <1>2
  <2> QED
    BY <1>1, <2>1, <2>2, <2>3 DEF RInv, TypeOK
<1>12. MovedBefore'
  <2> SUFFICES ASSUME NEW s \in Returns, NEW i \in Items, NEW m \in moves[s][i]
               PROVE  m.at <= handled + 1
    BY <1>1, <1>2 DEF MovedBefore
  <2>1. m.at <= handled /\ m \in Movement
    BY DEF RInv, MovedBefore, TypeOK
  <2>2. m.at \in Int
    BY <2>1 DEF Movement
  <2> QED
    BY <1>2, <2>1, <2>2
<1> QED
  BY <1>7, <1>8, <1>9, <1>10, <1>11, <1>12 DEF RInv

(* The movements that saving a form adds.                                  *)
NewMoves(q, i) ==
  IF i \in DOMAIN request[q].items \cap request[q].linked
  THEN MovesOf(request[q].items[i], request[q].form.edits, i) ELSE {}

LEMMA SavedMoves ==
  ASSUME RInv, NEW q \in Requests, SaveReturn(q)
  PROVE  /\ moves' \in [Returns -> [Items -> SUBSET Movement]]
         /\ \A r \in Returns : r # request[q].id => moves'[r] = moves[r]
         /\ \A i \in Items :
              /\ moves'[request[q].id][i] = moves[request[q].id][i] \cup NewMoves(q, i)
              /\ NewMoves(q, i) # {} => i \in linked
              /\ NewMoves(q, i) \subseteq Movement
              /\ \A m \in NewMoves(q, i) : m.at = handled + 1
<1> DEFINE r == request[q].id
           row == [i \in Items |-> moves[r][i] \cup NewMoves(q, i)]
<1>1. /\ r \in Returns /\ moves \in [Returns -> [Items -> SUBSET Movement]]
      /\ request[q].form.edits \in Seq(Entry) /\ handled + 1 \in 1..MaxHandled
  BY UpdateSlot, FormEdits, CommitClock DEF SaveReturn, RInv, TypeOK
<1>2. /\ moves' = [moves EXCEPT ![r] = row]
      /\ \A i \in Items : NewMoves(q, i) # {} => i \in linked
  BY <1>1 DEF SaveReturn, NewMoves
<1>3. ASSUME NEW i \in Items
      PROVE  NewMoves(q, i) \subseteq Movement /\ \A m \in NewMoves(q, i) : m.at = handled + 1
  <2>1. CASE i \in DOMAIN request[q].items \cap request[q].linked
    <3>1. request[q].items[i] \in Line
      BY <2>1, UpdateSlot, SomeLines DEF SaveReturn, RInv
    <3>2. NewMoves(q, i) = MovesOf(request[q].items[i], request[q].form.edits, i)
      BY <2>1 DEF NewMoves
    <3> QED
      BY <1>1, <3>1, <3>2, MovesOfForm
  <2>2. CASE i \notin DOMAIN request[q].items \cap request[q].linked
    BY <2>2 DEF NewMoves
  <2> QED
    BY <2>1, <2>2
<1>4. row \in [Items -> SUBSET Movement]
  BY <1>1, <1>3
<1> HIDE DEF row
<1>5. /\ moves' \in [Returns -> [Items -> SUBSET Movement]] /\ moves'[r] = row
      /\ \A s \in Returns : s # r => moves'[s] = moves[s]
  BY <1>1, <1>2, <1>4
<1> QED
  BY <1>2, <1>3, <1>5 DEF row

(* An employee's form is saved over a return as it is now.                 *)
LEMMA SaveKeeps ==
  ASSUME RInv, NEW q \in Requests, SaveReturn(q)
  PROVE  RInv'
<1> DEFINE r == request[q].id
<1>1. /\ request[q].kind = "updating" /\ Commit(q) /\ UNCHANGED <<order, linked, refund>>
      /\ request' = [request EXCEPT ![q] = Idle]
  BY DEF SaveReturn, Commit
<1>2. /\ r \in Returns /\ ret[r] \in Return /\ ret'[r] \in Return
      /\ handled \in Nat /\ handled + 1 \in 1..MaxHandled /\ handled' = handled + 1
      /\ ret' \in [Returns -> Return \cup {None}]
      /\ \A s \in Returns \ {r} : ret'[s] = ret[s]
      /\ ret'[r].by = ret[r].by /\ ret'[r].askedAt = ret[r].askedAt
      /\ ret'[r].openedAt = IF Open(r) THEN ret[r].openedAt ELSE handled + 1
      /\ DOMAIN ret'[r].items = DOMAIN ret[r].items
      /\ \A i \in DOMAIN ret[r].items :
           ret'[r].items[i].requested = ret[r].items[i].requested
  BY SavedReturn
<1>3. ret[r] # None /\ ret'[r] # None
  BY <1>2, NoneIsNoReturn
<1>4. Shapes'
  BY <1>1, <1>2, EndedSlot DEF Shapes
<1>5. ReadsHonest'
  BY <1>1, <1>2, <1>3, ReadersOfOthers
<1>6. \A s \in Returns : ret'[s] # None =>
        /\ ret[s] # None /\ ret[s] \in Return
        /\ ret'[s].by = ret[s].by /\ ret'[s].askedAt = ret[s].askedAt
        /\ ret[s].askedAt <= handled /\ ret[s].askedAt \in Int
  <2> TAKE s \in Returns
  <2> HAVE ret'[s] # None
  <2>1. ret[s] # None /\ ret'[s].by = ret[s].by /\ ret'[s].askedAt = ret[s].askedAt
    BY <1>2, <1>3
  <2>2. ret[s] \in Return /\ ret[s].askedAt <= handled
    BY <2>1 DEF RInv, Shapes, AskedBefore
  <2> QED
    BY <2>1, <2>2, ReturnLines
<1>7. AskedBefore'
  BY <1>2, <1>6 DEF AskedBefore
<1>8. OneOpenReturn'
  <2> SUFFICES ASSUME NEW a \in Returns, NEW b \in Returns, a # b, Open(a)', ret'[b] # None,
                      ret'[b].by = "customer"
               PROVE  ret'[b].askedAt < ret'[a].openedAt
    BY DEF OneOpenReturn
  <2>1. CASE a = r /\ ~ Open(r)
    BY <1>2, <1>6, <2>1
  <2>2. CASE ~ (a = r /\ ~ Open(r))
    <3>1. Open(a) /\ ret'[a].openedAt = ret[a].openedAt
      BY <1>2, <2>2 DEF Open
    <3> QED
      BY <1>6, <3>1 DEF RInv, OneOpenReturn
  <2> QED
    BY <2>1, <2>2
<1>9. TypeOK'
  <2>1. \A s \in Returns : ret'[s] = None \/ ret'[s] \in Return
    BY <1>2
  <2>2. ASSUME NEW s \in Returns, ret'[s] # None, ret'[s].by = "customer", NEW i \in DOMAIN ret'[s].items
        PROVE  ret'[s].items[i].requested \in 1..Bought[i]
    <3>1. /\ ret[s] # None /\ ret[s].by = "customer" /\ i \in DOMAIN ret[s].items
          /\ ret'[s].items[i].requested = ret[s].items[i].requested
      BY <1>2, <1>6, <2>2
    <3> QED
      BY <3>1 DEF RInv, TypeOK
  <2>3. moves' \in [Returns -> [Items -> SUBSET Movement]]
    BY <1>2, SavedMoves DEF RInv, TypeOK
  <2> QED
    BY <1>1, <1>2, <2>1, <2>2, <2>3 DEF RInv, TypeOK
<1>10. MovedBefore'
  <2> SUFFICES ASSUME NEW s \in Returns, NEW i \in Items, NEW m \in moves'[s][i]
               PROVE  m.at <= handled + 1
    BY <1>2 DEF MovedBefore
  <2>1. CASE m \in moves[s][i]
    <3>1. m.at <= handled /\ m \in Movement
      BY <2>1 DEF RInv, MovedBefore, TypeOK
    <3>2. m.at \in Int
      BY <3>1 DEF Movement
    <3> QED
      BY <1>2, <3>1, <3>2
  <2>2. CASE m \notin moves[s][i]
    <3>1. s = r /\ m \in NewMoves(q, i)
      BY <2>2, SavedMoves
    <3>2. m.at = handled + 1
      BY <3>1, SavedMoves
    <3> QED
      BY <1>2, <3>2
  <2> QED
    BY <2>1, <2>2
<1> QED
  BY <1>4, <1>5, <1>7, <1>8, <1>9, <1>10 DEF RInv

(* Money and status: the returns do not see them.                          *)
LEMMA OthersKeep ==
  ASSUME RInv,
         \/ \E s \in {"DELIVERED", "PROCESSING"} : ChangeStatus(s)
         \/ \E s \in Payments, n \in Amounts : UpdatePayment(s, n)
         \/ \E lines \in (SUBSET linked) \ {{}} : RemoveProduct(lines)
         \/ \E q \in Requests : SumRefunds(q) \/ Fail(q) \/ \E f \in Refunds : CommitRefund(q, f)
  PROVE  RInv'
<1> DEFINE OrderRow == [status : {"DELIVERED", "PROCESSING"}, paid : Amounts, payment : PaymentStatus]
<1>0. /\ handled \in 0..MaxHandled /\ MaxHandled \in Nat
      /\ order \in OrderRow /\ refund \in [Refunds -> Amounts \cup {0}] /\ linked \subseteq Items
  BY InputsAssumption DEF RInv, TypeOK
<1>1. ASSUME NEW s \in {"DELIVERED", "PROCESSING"}, ChangeStatus(s) PROVE RInv'
  <2>1. /\ UNCHANGED <<ret, linked, moves, refund, request>> /\ order' \in OrderRow
        /\ handled' = handled + 1 /\ handled' \in 0..MaxHandled
    BY <1>0, <1>1 DEF ChangeStatus
  <2>2. ReadsHonest'
    BY <2>1, ReadsAlone
  <2> QED
    BY <1>0, <2>1, <2>2, ReturnsAlone DEF RInv, Shapes
<1>2. ASSUME NEW s \in Payments, NEW n \in Amounts, UpdatePayment(s, n) PROVE RInv'
  <2>1. /\ UNCHANGED <<ret, linked, moves, refund, request>> /\ order' \in OrderRow
        /\ handled' = handled + 1 /\ handled' \in 0..MaxHandled
    <3>1. /\ order' = [order EXCEPT !.payment = s, !.paid = n] /\ s \in PaymentStatus
          /\ handled < MaxHandled /\ handled' = handled + 1
          /\ UNCHANGED <<ret, linked, moves, refund, request>>
      BY <1>2, InputsAssumption DEF UpdatePayment
    <3>2. order' = [status |-> order.status, paid |-> n, payment |-> s]
      BY <1>0, <3>1
    <3>3. order' \in OrderRow
      BY <1>0, <3>1, <3>2
    <3>4. handled' \in 0..MaxHandled
      <4>1. handled < MaxHandled /\ handled' = handled + 1
        BY <3>1
      <4> QED
        BY <1>0, <4>1
    <3> QED
      BY <3>1, <3>3, <3>4, Zenon
  <2>2. ReadsHonest'
    BY <2>1, ReadsAlone
  <2> QED
    BY <1>0, <2>1, <2>2, ReturnsAlone DEF RInv, Shapes
<1>3. ASSUME NEW q \in Requests, SumRefunds(q) PROVE RInv'
  <2> DEFINE req == [kind |-> "refunding", amount |-> request[q].amount,
                     paid |-> request[q].paid, seen |-> refund]
  <2>1. /\ request[q].kind = "refund" /\ request' = [request EXCEPT ![q] = req]
        /\ UNCHANGED <<order, ret, linked, moves, refund, handled>>
    BY <1>3 DEF SumRefunds, RInv, Shapes
  <2>2. req \in Slot
    BY <1>0, <2>1, RefundSlot DEF Slot, RInv
  <2>3. req.kind = "refunding"
    OBVIOUS
  <2> HIDE DEF req
  <2> QED
    BY <2>1, <2>2, <2>3, ReadSlot
<1>4. ASSUME NEW q \in Requests, Fail(q) PROVE RInv'
  <2>1. /\ request' = [request EXCEPT ![q] = Idle]
        /\ UNCHANGED <<order, ret, linked, moves, refund, handled>>
    BY <1>4 DEF Fail
  <2>2. ReadsHonest'
    BY <2>1, EndedSlot, ReadsAlone
  <2> QED
    BY <1>0, <2>1, <2>2, EndedSlot, ReturnsAlone
<1>5. ASSUME NEW q \in Requests, NEW f \in Refunds, CommitRefund(q, f) PROVE RInv'
  <2>1. /\ request[q].kind = "refunding" /\ Commit(q) /\ UNCHANGED <<ret, linked, moves>>
        /\ request' = [request EXCEPT ![q] = Idle]
        /\ refund' = [refund EXCEPT ![f] = request[q].amount]
        /\ order' = [order EXCEPT !.payment = Verdict(TotalRefunded(request[q]), request[q].paid)]
    BY <1>5 DEF CommitRefund, Commit
  <2>2. Verdict(TotalRefunded(request[q]), request[q].paid) \in PaymentStatus
    BY DEF Verdict, PaymentStatus
  <2>3. order' \in OrderRow /\ refund' \in [Refunds -> Amounts \cup {0}]
    BY <1>0, <2>1, <2>2, RefundSlot DEF RInv
  <2>4. handled' = handled + 1 /\ handled' \in 0..MaxHandled
    BY <1>0, <2>1, CommitClock DEF RInv
  <2>5. ReadsHonest'
    BY <2>1, <2>4, EndedSlot, ReadsAlone
  <2> QED
    BY <1>0, <2>1, <2>3, <2>4, <2>5, EndedSlot, ReturnsAlone
<1>6. ASSUME NEW lines \in (SUBSET linked) \ {{}}, RemoveProduct(lines) PROVE RInv'
  <2>1. /\ UNCHANGED <<order, ret, moves, refund, request, handled>>
        /\ linked' \subseteq Items /\ linked' \subseteq linked
    BY <1>0, <1>6 DEF RemoveProduct
  <2>2. ReadsHonest'
    BY <2>1, ReadsAlone
  <2> QED
    BY <1>0, <2>1, <2>2, ReturnsAlone DEF RInv, Shapes
<1> QED
  BY <1>1, <1>2, <1>3, <1>4, <1>5, <1>6

(* What the handlers read.                                                 *)
LEMMA ReadsKeep ==
  ASSUME RInv, NEW q \in Requests,
         \/ \E a \in Asked : ReadForReturn(q, a) \/ ReadForRequest(q, a)
         \/ \E r \in Returns, form \in Forms : ReadForUpdate(q, r, form)
         \/ \E n \in Amounts \ {0} : ReadForRefund(q, n)
         \/ ReadLinks(q)
  PROVE  RInv'
<1>0. handled \in 0..MaxHandled /\ MaxHandled \in Nat /\ handled \in Nat
  BY InputsAssumption DEF RInv, TypeOK
<1>1. ASSUME NEW a \in Asked, ReadForReturn(q, a) PROVE RInv'
  <2> DEFINE req == [kind |-> "ask", by |-> "employee", asked |-> a, at |-> 0]
  <2>1. Read(q, req) /\ req \in Slot
    BY <1>0, <1>1 DEF ReadForReturn, Slot
  <2>2. /\ req.kind = "ask" => req.at <= handled /\ req.by # "customer"
        /\ req.kind \notin {"update", "updating"}
    BY <1>0
  <2> HIDE DEF req
  <2> QED
    BY <2>1, <2>2, ReadSlot DEF Read
<1>2. ASSUME NEW a \in Asked, ReadForRequest(q, a) PROVE RInv'
  <2> DEFINE req == [kind |-> "ask", by |-> "customer", asked |-> a, at |-> handled]
  <2>1. Read(q, req) /\ req \in Slot
    BY <1>0, <1>2 DEF ReadForRequest, Slot
  <2>2. req.at <= handled /\ req.kind \notin {"update", "updating"}
    BY <1>0
  <2>3. \A i \in DOMAIN req.asked : req.asked[i] <= Bought[i]
    BY <1>2 DEF ReadForRequest
  <2>4. \A r \in Returns : ~ Open(r)
    BY <1>2 DEF ReadForRequest
  <2> HIDE DEF req
  <2> QED
    BY <2>1, <2>2, <2>3, <2>4, ReadSlot DEF Read
<1>3. ASSUME NEW r \in Returns, NEW form \in Forms, ReadForUpdate(q, r, form) PROVE RInv'
  <2> DEFINE req == [kind |-> "update", id |-> r, form |-> form, items |-> ret[r].items]
  <2>1. ret[r] # None /\ ret[r].items \in Lines /\ form \in Form
    BY <1>3, ReturnLines, InputsAssumption DEF ReadForUpdate, RInv, Shapes
  <2>2. Read(q, req) /\ req \in Slot
    BY <1>3, <2>1 DEF ReadForUpdate, Slot
  <2>3. req.kind = "update" /\ ret[req.id] # None
    BY <2>1
  <2> HIDE DEF req
  <2> QED
    BY <2>2, <2>3, ReadSlot DEF Read
<1>4. ASSUME NEW n \in Amounts \ {0}, ReadForRefund(q, n) PROVE RInv'
  <2> DEFINE req == [kind |-> "refund", amount |-> n, paid |-> order.paid]
  <2>1. Read(q, req) /\ req \in Slot
    BY <1>4 DEF ReadForRefund, Slot, RInv, TypeOK
  <2>2. req.kind = "refund"
    OBVIOUS
  <2> HIDE DEF req
  <2> QED
    BY <2>1, <2>2, ReadSlot DEF Read
<1>5. ASSUME ReadLinks(q) PROVE RInv'
  <2> DEFINE req == [kind |-> "updating", id |-> request[q].id, form |-> request[q].form,
                     items |-> request[q].items, linked |-> linked]
  <2>1. /\ request[q].kind = "update" /\ request' = [request EXCEPT ![q] = req]
        /\ UNCHANGED <<order, ret, linked, moves, refund, handled>>
    BY <1>5 DEF ReadLinks, RInv, Shapes
  <2>2. /\ request[q].id \in Returns /\ request[q].form \in Form /\ request[q].items \in Lines
        /\ linked \subseteq Items /\ ret[request[q].id] # None
    BY <2>1, UpdateSlot DEF RInv, TypeOK, ReadsHonest
  <2>3. req \in Slot
    BY <2>2 DEF Slot
  <2>4. req.kind = "updating" /\ req.id = request[q].id /\ req.linked = linked
    OBVIOUS
  <2> HIDE DEF req
  <2> QED
    BY <2>1, <2>2, <2>3, <2>4, ReadSlot
<1> QED
  BY <1>1, <1>2, <1>3, <1>4, <1>5

LEMMA RStep == RInv /\ [Next]_vars => RInv'
<1> SUFFICES ASSUME RInv, [Next]_vars PROVE RInv'
  OBVIOUS
<1>1. CASE UNCHANGED vars
  BY <1>1 DEF vars, RInv, TypeOK, OneOpenReturn, Open, Shapes, ReadsHonest, Asks, AskedBefore,
     MovedBefore
<1>2. ASSUME NEW q \in Requests, NEW r \in Returns, CreateReturn(q, r) PROVE RInv'
  BY <1>2, CreateKeeps
<1>3. ASSUME NEW q \in Requests, SaveReturn(q) PROVE RInv'
  BY <1>3, SaveKeeps
<1>4. CASE \/ \E s \in {"DELIVERED", "PROCESSING"} : ChangeStatus(s)
           \/ \E s \in Payments, n \in Amounts : UpdatePayment(s, n)
           \/ \E lines \in (SUBSET linked) \ {{}} : RemoveProduct(lines)
           \/ \E q \in Requests : SumRefunds(q) \/ Fail(q) \/ \E f \in Refunds : CommitRefund(q, f)
  BY <1>4, OthersKeep
<1>5. CASE \E q \in Requests :
             \/ \E a \in Asked : ReadForReturn(q, a) \/ ReadForRequest(q, a)
             \/ \E r \in Returns, form \in Forms : ReadForUpdate(q, r, form)
             \/ \E n \in Amounts \ {0} : ReadForRefund(q, n)
             \/ ReadLinks(q)
  BY <1>5, ReadsKeep
<1> QED
  BY <1>1, <1>2, <1>3, <1>4, <1>5 DEF Next

LEMMA AlwaysRInv == Spec => []RInv
BY RInit, RStep, PTL DEF Spec

(* A customer's returns are for what he bought and one at a time, however  *)
(* requests overlap and whatever employees edit, reopen or open beside them*)
(* (requestReturn, updateReturn).                                          *)
THEOREM ReturnsAlwaysSound == Spec => []ReturnsSound
<1>1. RInv => ReturnsSound
  BY DEF RInv, ReturnsSound
<1> QED
  BY <1>1, AlwaysRInv, PTL

-----------------------------------------------------------------------------
(* Steps that save no form move no stock.                                  *)
LEMMA OnlySavesMove ==
  ASSUME Next, \A q \in Requests : ~ SaveReturn(q)
  PROVE  moves' = moves
BY DEF Next, CreateReturn, ReadForReturn, ReadForRequest, ReadForUpdate, ReadForRefund, Read,
       ReadLinks, ChangeStatus, UpdatePayment, RemoveProduct, SumRefunds, Fail, CommitRefund

(* A request that saved is the one whose form was saved.                   *)
LEMMA SavesIsSaveReturn ==
  ASSUME RInv, Next, NEW q \in Requests, NEW r \in Returns, Saves(q, r)
  PROVE  SaveReturn(q)
<1>0. request[q].kind = "updating" /\ request[q] # request'[q] /\ handled' # handled
      /\ request \in [Requests -> Slot]
  BY DEF Saves, Idle, RInv, Shapes
<1>1. ASSUME NEW p \in Requests,
             \/ \E s \in Returns : CreateReturn(p, s)
             \/ \E f \in Refunds : CommitRefund(p, f)
      PROVE  FALSE
  BY <1>0, <1>1 DEF CreateReturn, CommitRefund, Commit
<1>2. ASSUME NEW p \in Requests, SaveReturn(p) PROVE p = q
  BY <1>0, <1>2 DEF SaveReturn, Commit
<1> QED
  BY <1>0, <1>1, <1>2 DEF Next, ChangeStatus, UpdatePayment, RemoveProduct, ReadForReturn,
     ReadForRequest, ReadForUpdate, ReadForRefund, Read, ReadLinks, SumRefunds, Fail

(* The form of a request that read the lines as they are.                  *)
LEMMA FreshForm ==
  ASSUME RInv, Next, NEW q \in Requests, NEW r \in Returns, Saves(q, r),
         request[q].items = ret[r].items
  PROVE  FreshFormMoves(q, r)
<1>1. SaveReturn(q) /\ request[q].id = r
  BY SavesIsSaveReturn DEF Saves
<1> DEFINE edits == request[q].form.edits
<1>2. /\ ret[r] \in Return /\ edits \in Seq(Entry) /\ handled \in Nat
      /\ handled + 1 \in 1..MaxHandled /\ request[q].linked \subseteq Items
      /\ moves \in [Returns -> [Items -> SUBSET Movement]]
  BY <1>1, SavedReturn, UpdateSlot, FormEdits DEF SaveReturn, RInv, TypeOK
<1> SUFFICES ASSUME NEW i \in DOMAIN ret[r].items
    PROVE  LET was == ret[r].items[i]
               now == ret'[r].items[i]
               new == moves'[r][i] \ moves[r][i]
           IN /\ moves[r][i] \subseteq moves'[r][i]
              /\ new # {} => was.decision = "NONE" /\ i \in linked
              /\ was.decision = "NONE" /\ Restocks(now.decision) /\ i \in linked =>
                   \E m \in new : m.type = TypeFor(now.decision)
              /\ \A m, n \in new : m.entry = n.entry => m = n
              /\ \A m \in new : m.entry \in Naming(edits, i)
              /\ (\A k, l \in Naming(edits, i) : k = l) =>
                   \A m \in new : /\ m.type = TypeFor(now.decision) /\ Restocks(now.decision)
                                  /\ m.quantity \in {was.requested, now.approved}
  BY DEF FreshFormMoves
<1> DEFINE was == ret[r].items[i]
           now == ret'[r].items[i]
           new == moves'[r][i] \ moves[r][i]
<1>3. was \in Line /\ i \in Items
  BY <1>2, ReturnLines
<1>4. now = Edited(was, edits, i)
  BY <1>1, SavedReturn
<1>5. /\ moves'[r][i] = moves[r][i] \cup NewMoves(q, i)
      /\ NewMoves(q, i) # {} => i \in linked
  BY <1>1, <1>3, SavedMoves
<1>6. new = NewMoves(q, i)
  <2>1. ASSUME NEW m \in NewMoves(q, i) PROVE m \notin moves[r][i]
    <3>1. m.at = handled + 1
      BY <1>1, <1>3, <2>1, SavedMoves
    <3>2. m \in moves[r][i] => m.at <= handled
      BY <1>3 DEF RInv, MovedBefore
    <3> QED
      BY <1>2, <3>1, <3>2
  <2> QED
    BY <1>5, <2>1
<1>7. NewMoves(q, i) = IF i \in request[q].linked THEN MovesOf(was, edits, i) ELSE {}
  BY DEF NewMoves
<1>8. /\ MovesOf(was, edits, i) # {} => was.decision = "NONE"
      /\ \A m \in MovesOf(was, edits, i) :
           /\ m.entry \in Naming(edits, i) /\ Restocks(edits[m.entry].decision)
           /\ m = MovementOf(was, edits[m.entry], m.entry)
  BY <1>2, <1>3, MovesOfForm
<1> HIDE DEF new, was, now, edits
<1>9. new # {} => was.decision = "NONE" /\ i \in linked
  BY <1>5, <1>6, <1>7, <1>8
<1>10. ASSUME was.decision = "NONE", Restocks(now.decision), i \in linked
       PROVE  \E m \in new : m.type = TypeFor(now.decision)
  <2>1. PICK k \in Naming(edits, i) : edits[k].decision = now.decision
    <3>1. now.decision # was.decision
      BY <1>10 DEF Restocks
    <3> QED
      BY <1>2, <1>3, <1>4, <3>1, DecidedBy DEF edits
  <2>2. MovementOf(was, edits[k], k) \in MovesOf(was, edits, i)
    BY <1>10, <2>1 DEF MovesOf
  <2>3. i \in request[q].linked
    BY <1>1, <1>10 DEF SaveReturn, RInv, ReadsHonest
  <2>4. MovementOf(was, edits[k], k).type = TypeFor(now.decision)
    BY <2>1 DEF MovementOf
  <2> QED
    BY <1>6, <1>7, <2>2, <2>3, <2>4
<1>11. \A m \in new : /\ m.entry \in Naming(edits, i) /\ Restocks(edits[m.entry].decision)
                      /\ m = MovementOf(was, edits[m.entry], m.entry)
  BY <1>6, <1>7, <1>8
<1>12. \A m, n \in new : m.entry = n.entry => m = n
  BY <1>11
<1>13. ASSUME \A k, l \in Naming(edits, i) : k = l, NEW m \in new
       PROVE  /\ m.type = TypeFor(now.decision) /\ Restocks(now.decision)
              /\ m.quantity \in {was.requested, now.approved}
  <2> DEFINE k == m.entry
             e == edits[k]
  <2>1. k \in Naming(edits, i) /\ Restocks(e.decision) /\ m = MovementOf(was, e, k)
    BY <1>11
  <2>2. /\ m.type = TypeFor(e.decision)
        /\ m.quantity = IF e.approved = Unset THEN was.requested ELSE e.approved
    <3> HIDE DEF k, e
    <3> QED
      BY <2>1 DEF MovementOf
  <2>3. /\ now.decision = IF e.decision = "unset" THEN was.decision ELSE e.decision
        /\ now.approved = IF e.approved = Unset THEN was.approved ELSE e.approved
    BY <1>2, <1>3, <1>4, <1>13, <2>1, NamedOnce DEF edits
  <2>4. now.decision = e.decision
    BY <2>1, <2>3 DEF Restocks
  <2> HIDE DEF k, e
  <2> QED
    BY <2>1, <2>2, <2>3, <2>4
<1> QED
  BY <1>5, <1>9, <1>10, <1>11, <1>12, <1>13 DEF new, was, now, edits

LEMMA RestockStep ==
  RInv /\ [Next]_vars =>
    [/\ OnlyFormsMove
     /\ \A q \in Requests, r \in Returns :
          Saves(q, r) /\ request[q].items = ret[r].items => FreshFormMoves(q, r)]_vars
<1> SUFFICES ASSUME RInv, Next
             PROVE  /\ OnlyFormsMove
                    /\ \A q \in Requests, r \in Returns :
                         Saves(q, r) /\ request[q].items = ret[r].items => FreshFormMoves(q, r)
  OBVIOUS
<1>1. OnlyFormsMove
  <2>1. CASE \E q \in Requests : SaveReturn(q)
    <3>1. PICK q \in Requests : SaveReturn(q)
      BY <2>1
    <3>2. Saves(q, request[q].id)
      <4>1. request[q].kind = "updating" /\ Commit(q)
        BY <3>1 DEF SaveReturn
      <4>2. handled \in Nat /\ handled' = handled + 1
        BY <4>1, CommitClock DEF RInv
      <4>3. request'[q] = Idle
        BY <4>1, EndedSlot DEF Commit
      <4> QED
        BY <4>1, <4>2, <4>3 DEF Saves
    <3> QED
      BY <3>1, <3>2, SavedMoves DEF OnlyFormsMove
  <2>2. CASE \A q \in Requests : ~ SaveReturn(q)
    BY <2>2, OnlySavesMove DEF OnlyFormsMove
  <2> QED
    BY <2>1, <2>2
<1> QED
  BY <1>1, FreshForm

(* A line moves stock as decided, whenever its decision leaves NONE while  *)
(* its product exists, and never else, unless the request had read the     *)
(* line before it was decided; once, unless the form names the line more   *)
(* often (updateReturn): for any forms and number of requests.             *)
THEOREM AlwaysRestockFollows == Spec => RestockFollowsDecision
<1> QED
  BY RestockStep, AlwaysRInv, PTL DEF Spec, RestockFollowsDecision

-----------------------------------------------------------------------------
(* Counting what was given back.                                           *)
LEMMA IntervalCount ==
  ASSUME NEW n, n \in Nat
  PROVE  IsFiniteSet(1..n) /\ Cardinality(1..n) = n
<1>1. 1 \in Int /\ n \in Int
  OBVIOUS
<1> QED
  BY <1>1, FS_Interval

LEMMA RefundUnitsFinite ==
  ASSUME NEW paid \in [Refunds -> Nat]
  PROVE  IsFiniteSet(RefundUnits(paid)) /\ Refunded(paid) \in Nat
<1> DEFINE Of  == [f \in Refunds |-> {f} \X (1..paid[f])]
           All == {{f} \X (1..paid[f]) : f \in Refunds}
<1>1. Of \in Surjection(Refunds, All)
  BY DEF Surjection
<1>2. IsFiniteSet(All)
  <2> HIDE DEF Of, All
  <2> QED
    BY <1>1, RefundsAssumption, FS_Surjection
<1>3. ASSUME NEW T \in All PROVE IsFiniteSet(T)
  <2>1. PICK f \in Refunds : T = {f} \X (1..paid[f])
    OBVIOUS
  <2>2. IsFiniteSet({f}) /\ IsFiniteSet(1..paid[f])
    <3>1. paid[f] \in Nat
      OBVIOUS
    <3>2. IsFiniteSet(1..paid[f])
      BY <3>1, IntervalCount
    <3>3. IsFiniteSet({f})
      BY FS_Singleton
    <3> QED
      BY <3>2, <3>3
  <2> QED
    BY <2>1, <2>2, FS_Product
<1>4. IsFiniteSet(UNION All)
  <2> HIDE DEF All
  <2> QED
    BY <1>2, <1>3, FS_UNION
<1> QED
  BY <1>4, FS_CardinalityType DEF RefundUnits, Refunded

(* A refund that had no row adds its amount to the sum.                    *)
LEMMA RefundAdds ==
  ASSUME NEW paid \in [Refunds -> Nat], NEW f \in Refunds, paid[f] = 0, NEW n \in Nat
  PROVE  Refunded([paid EXCEPT ![f] = n]) = Refunded(paid) + n
<1> DEFINE New == {f} \X (1..n)
           Sum == RefundUnits(paid)
<1>1. RefundUnits([paid EXCEPT ![f] = n]) = Sum \cup New
  <2>1. \A u : u \in RefundUnits([paid EXCEPT ![f] = n]) <=>
               \E g \in Refunds : u \in {g} \X (1..[paid EXCEPT ![f] = n][g])
    BY DEF RefundUnits
  <2>2. \A u : u \in Sum <=> \E g \in Refunds : u \in {g} \X (1..paid[g])
    BY DEF RefundUnits
  <2>3. /\ [paid EXCEPT ![f] = n][f] = n
        /\ \A g \in Refunds \ {f} : [paid EXCEPT ![f] = n][g] = paid[g]
        /\ 1..paid[f] = {}
    OBVIOUS
  <2> HIDE DEF Sum
  <2>4. ASSUME NEW u PROVE u \in RefundUnits([paid EXCEPT ![f] = n]) <=> u \in Sum \cup New
    <3>1. ASSUME NEW g \in Refunds, u \in {g} \X (1..[paid EXCEPT ![f] = n][g])
          PROVE  u \in Sum \cup New
      BY <3>1, <2>2, <2>3
    <3>2. ASSUME NEW g \in Refunds, u \in {g} \X (1..paid[g])
          PROVE  u \in {g} \X (1..[paid EXCEPT ![f] = n][g])
      BY <3>2, <2>3
    <3>3. u \in New => u \in {f} \X (1..[paid EXCEPT ![f] = n][f])
      BY <2>3
    <3> QED
      BY <3>1, <3>2, <3>3, <2>1, <2>2
  <2> QED
    BY <2>4
<1>2. Sum \cap New = {}
  <2>1. ASSUME NEW u \in Sum, u \in New PROVE FALSE
    <3>1. PICK g \in Refunds : u \in {g} \X (1..paid[g])
      BY <2>1 DEF RefundUnits
    <3>2. u[1] = f /\ u[1] = g /\ u[2] \in 1..paid[f]
      BY <2>1, <3>1
    <3> QED
      BY <3>2
  <2> QED
    BY <2>1
<1>3. IsFiniteSet(New) /\ Cardinality(New) = n
  <2>0. IsFiniteSet({f}) /\ Cardinality({f}) = 1
    BY FS_Singleton, Zenon
  <2>1. /\ IsFiniteSet({f}) /\ Cardinality({f}) = 1
        /\ IsFiniteSet(1..n) /\ Cardinality(1..n) = n
    BY <2>0, IntervalCount
  <2>2. IsFiniteSet({f} \X (1..n)) /\ Cardinality({f} \X (1..n)) = Cardinality({f}) * Cardinality(1..n)
    BY <2>1, FS_Product
  <2> QED
    BY <2>1, <2>2
<1>4. IsFiniteSet(Sum) /\ Cardinality(Sum) \in Nat /\ Refunded(paid) = Cardinality(Sum)
  BY RefundUnitsFinite DEF Refunded
<1>5. Cardinality(Sum \cap New) = 0
  BY <1>2, FS_EmptySet
<1>6. Cardinality(Sum \cup New) = Cardinality(Sum) + Cardinality(New) - Cardinality(Sum \cap New)
  <2> HIDE DEF Sum, New
  <2> QED
    BY <1>3, <1>4, FS_Union
<1>7. Refunded([paid EXCEPT ![f] = n]) = Cardinality(Sum \cup New)
  BY <1>1 DEF Refunded
<1> QED
  <2> HIDE DEF Sum, New
  <2> QED
    BY <1>3, <1>4, <1>5, <1>6, <1>7

VerdictsHonest ==
  \A f \in Refunds : refund[f] = 0 /\ refund'[f] > 0 =>
    \/ order'.payment = Verdict(Refunded(refund'), order'.paid)
    \/ \E q \in Requests :
         /\ request[q].kind = "refunding" /\ request'[q] = Idle
         /\ request[q].paid # order.paid \/ request[q].seen # refund

LEMMA OnlyCommitsRefund ==
  ASSUME [Next]_vars, refund' # refund
  PROVE  \E q \in Requests, f \in Refunds : CommitRefund(q, f)
BY DEF Next, vars, ChangeStatus, UpdatePayment, RemoveProduct, ReadForReturn, ReadForRequest,
       CreateReturn, ReadForUpdate, ReadLinks, SaveReturn, ReadForRefund, SumRefunds, Fail, Read

LEMMA VerdictStep == RInv /\ [Next]_vars => [VerdictsHonest]_vars
<1> SUFFICES ASSUME RInv, [Next]_vars, NEW f \in Refunds, refund[f] = 0, refund'[f] > 0
             PROVE  \/ order'.payment = Verdict(Refunded(refund'), order'.paid)
                    \/ \E q \in Requests :
                         /\ request[q].kind = "refunding" /\ request'[q] = Idle
                         /\ request[q].paid # order.paid \/ request[q].seen # refund
  BY DEF VerdictsHonest
<1>1. /\ refund \in [Refunds -> Nat]
      /\ order \in [status : {"DELIVERED", "PROCESSING"}, paid : Amounts, payment : PaymentStatus]
  <2>1. Amounts \cup {0} \subseteq Nat
    BY InputsAssumption
  <2>2. refund \in [Refunds -> Amounts \cup {0}]
    BY DEF RInv, TypeOK
  <2> QED
    BY <2>1, <2>2 DEF RInv, TypeOK
<1>2. PICK q \in Requests, g \in Refunds : CommitRefund(q, g)
  <2>1. refund' # refund
    OBVIOUS
  <2> QED
    BY <2>1, OnlyCommitsRefund
<1>3. /\ request[q].kind = "refunding" /\ refund[g] = 0
      /\ refund' = [refund EXCEPT ![g] = request[q].amount]
      /\ order' = [order EXCEPT !.payment = Verdict(TotalRefunded(request[q]), request[q].paid)]
      /\ request' = [request EXCEPT ![q] = Idle]
  BY <1>2 DEF CommitRefund, Commit
<1>4. request'[q] = Idle
  BY <1>3 DEF RInv, Shapes
<1>5. CASE request[q].paid # order.paid \/ request[q].seen # refund
  BY <1>3, <1>4, <1>5
<1>6. CASE request[q].paid = order.paid /\ request[q].seen = refund
  <2>1. request[q].amount \in Nat
    BY <1>3, RefundSlot, InputsAssumption DEF RInv
  <2>2. Refunded(refund') = Refunded(refund) + request[q].amount
    BY <1>1, <1>3, <2>1, RefundAdds
  <2>3. TotalRefunded(request[q]) = Refunded(refund')
    BY <1>6, <2>2 DEF TotalRefunded
  <2>4. /\ order'.payment = Verdict(TotalRefunded(request[q]), request[q].paid)
        /\ order'.paid = order.paid
    BY <1>1, <1>3
  <2> QED
    BY <1>6, <2>3, <2>4
<1> QED
  BY <1>5, <1>6

(* A refund marks the order REFUNDED exactly if the completed refunds, its *)
(* own among them, reach what was paid, for any number of refunds under    *)
(* way; only a refund or a payment committed since it read misleads it     *)
(* (createRefund).                                                         *)
THEOREM VerdictsAreRight == Spec => RefundVerdict
<1> QED
  BY VerdictStep, AlwaysRInv, PTL DEF Spec, RefundVerdict, VerdictsHonest
=============================================================================
