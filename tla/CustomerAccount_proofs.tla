----------------------- MODULE CustomerAccount_proofs -----------------------
(***************************************************************************)
(* Proofs about CustomerAccount: the book keeps one default, the threads   *)
(* tell what was sent and read, the rates of a city stay single, and no    *)
(* row loses its city unless it came after the count of the deletion.      *)
(***************************************************************************)
EXTENDS CustomerAccount, SequenceTheorems, FiniteSetTheorems, WellFoundedInduction, TLAPS

-----------------------------------------------------------------------------
(* The address book.  A request that is alone still knows the rows as they *)
(* are; any other marks the default as contended when it writes.           *)
AddressRow == [saved : BOOLEAN, isDefault : BOOLEAN]
CreateEdit == [op : {"create"}, alone : BOOLEAN, isDefault : BOOLEAN, unsets : SUBSET Nat]
UpdateEdit == [op : {"update"}, alone : BOOLEAN, about : Nat, isDefault : BOOLEAN, unsets : SUBSET Nat]
DeleteEdit == [op : {"delete"}, alone : BOOLEAN, about : Nat, wasDefault : BOOLEAN]
NextEdit   == [op : {"next", "promote"}, alone : BOOLEAN, about : Nat]
EditType   == CreateEdit \cup UpdateEdit \cup DeleteEdit \cup NextEdit

BookShapes ==
  /\ address \in Seq(AddressRow)
  /\ edit \in [Editors -> {NoEdit} \cup EditType]
  /\ contended \in BOOLEAN /\ unset \in BOOLEAN

OneAlone == \A e \in Busy : edit[e].alone => Busy = {e}

(* What a request alone has read is still so.                              *)
Fresh(q) ==
  /\ q.op = "create" => /\ q.isDefault => Saved \subseteq q.unsets
                        /\ ~ q.isDefault => Saved # {} /\ q.unsets = {}
  /\ q.op = "update" => /\ q.about \in Saved
                        /\ q.isDefault => Saved \ {q.about} \subseteq q.unsets
                        /\ ~ q.isDefault => q.unsets = {}
  /\ q.op = "delete" => q.about \in Saved /\ q.wasDefault = address[q.about].isDefault
  /\ q.op = "promote" => q.about \in Saved
  /\ q.op \in {"next", "promote"} /\ ~ contended => Defaults = {}
ReadsFresh == \A e \in Busy : edit[e].alone => Fresh(edit[e])

(* Nobody is between taking a default away and giving it to another.       *)
Promoting == \E e \in Busy : edit[e].op \in {"next", "promote"}
SingleDefault ==
  ~ contended => /\ \A a, b \in Defaults : a = b
                 /\ Saved # {} /\ ~ unset /\ ~ Promoting => Defaults # {}

Creating == {e \in Busy : edit[e].op = "create"}
Counted  == IsFiniteSet(Creating) /\ Len(address) + Cardinality(Creating) <= edits

BInv == BookTypeOK /\ BookShapes /\ OneAlone /\ ReadsFresh /\ SingleDefault /\ Counted

-----------------------------------------------------------------------------
LEMMA BookStarts == BookInit => BInv
<1> SUFFICES ASSUME BookInit PROVE BInv
  OBVIOUS
<1>1. Busy = {} /\ Saved = {} /\ Defaults = {} /\ Creating = {} /\ Len(address) = 0
  BY DEF BookInit, Busy, Saved, Defaults, Creating
<1>2. BookTypeOK
  <2>1. 1..Len(address) = {} /\ 0 \in 0..MaxEdits /\ 0 \in 0..MaxLosses /\ 0 <= MaxEdits
    BY <1>1, AddressAssumption
  <2> QED
    BY <1>1, <2>1 DEF BookInit, BookTypeOK
<1>4. BookShapes
  BY EmptySeq DEF BookInit, BookShapes
<1>3. Counted
  BY <1>1, FS_EmptySet DEF Counted, BookInit
<1> QED
  BY <1>1, <1>2, <1>4, <1>3 DEF BInv, OneAlone, ReadsFresh, SingleDefault

LEMMA EditOf ==
  ASSUME BookShapes, NEW e \in Editors, edit[e] # NoEdit
  PROVE  /\ edit[e] \in EditType /\ e \in Busy
         /\ edit[e].alone \in BOOLEAN
         /\ edit[e].op \in {"create", "update", "delete", "next", "promote"}
  BY DEF BookShapes, Busy, EditType, CreateEdit, UpdateEdit, DeleteEdit, NextEdit

LEMMA Meeting ==
  ASSUME NEW q \in EditType
  PROVE  /\ [q EXCEPT !.alone = FALSE] \in EditType
         /\ [q EXCEPT !.alone = FALSE] # NoEdit
         /\ [q EXCEPT !.alone = FALSE].op = q.op
         /\ [q EXCEPT !.alone = FALSE].alone = FALSE
  BY DEF EditType, CreateEdit, UpdateEdit, DeleteEdit, NextEdit, NoEdit

LEMMA RequestIsEdit ==
  ASSUME NEW q \in EditType
  PROVE  q # NoEdit
  BY DEF EditType, CreateEdit, UpdateEdit, DeleteEdit, NextEdit, NoEdit

(* A request that begins meets all others, and changes no row.             *)
LEMMA EditBegins ==
  ASSUME BInv, NEW e \in Editors, NEW q \in EditType, BeginEdit(e, q),
         q.op \in {"create", "update", "delete"}, q.alone = Alone, q.alone => Fresh(q)
  PROVE  BInv'
<1> DEFINE Met(f) == [edit[f] EXCEPT !.alone = FALSE]
<1>1. /\ edit[e] = NoEdit /\ edits < MaxEdits /\ edits' = edits + 1
      /\ UNCHANGED <<address, contended, unset, losses>>
      /\ edit' = [f \in Editors |-> IF f = e THEN q ELSE IF f \in Busy THEN Met(f) ELSE NoEdit]
  BY DEF BeginEdit
<1>2. /\ e \notin Busy /\ Busy \subseteq Editors
      /\ \A f \in Busy : f \in Editors /\ edit[f] # NoEdit /\ edit[f] \in EditType
  BY <1>1, EditOf DEF Busy, BInv
<1>3. /\ edit'[e] = q
      /\ \A f \in Busy : /\ edit'[f] \in EditType /\ edit'[f] # NoEdit
                         /\ edit'[f].op = edit[f].op /\ edit'[f].alone = FALSE
      /\ \A f \in Editors : f \notin Busy /\ f # e => edit'[f] = NoEdit
  BY <1>1, <1>2, Meeting
<1>4. Busy' = Busy \cup {e}
  BY <1>1, <1>2, <1>3, RequestIsEdit DEF Busy
<1>5. /\ Saved' = Saved /\ Defaults' = Defaults
      /\ \A p : Fresh(p)' <=> Fresh(p)
  BY <1>1 DEF Saved, Defaults, Fresh
<1>6. BookShapes'
  BY <1>1, <1>2, <1>3 DEF BInv, BookShapes
<1>7. OneAlone' /\ ReadsFresh'
  <2>1. \A f \in Busy' : edit'[f].alone => f = e /\ Busy = {} /\ Fresh(q)
    BY <1>3, <1>4 DEF Alone
  <2> QED
    BY <2>1, <1>3, <1>4, <1>5 DEF OneAlone, ReadsFresh
<1>8. SingleDefault'
  <2>1. Promoting' <=> Promoting
    BY <1>3, <1>4 DEF Promoting
  <2> QED
    BY <1>1, <1>5, <2>1 DEF BInv, SingleDefault
<1>9. Counted' /\ BookTypeOK'
  <2>1. Creating' = Creating \/ Creating' = Creating \cup {e}
    BY <1>3, <1>4 DEF Creating
  <2>2. IsFiniteSet(Creating) /\ Cardinality(Creating) \in Nat
    BY FS_CardinalityType DEF BInv, Counted
  <2>3. IsFiniteSet(Creating') /\ Cardinality(Creating') <= Cardinality(Creating) + 1
        /\ Cardinality(Creating') \in Nat
    <3> HIDE DEF Creating
    <3>1. /\ IsFiniteSet(Creating \cup {e})
          /\ \/ Cardinality(Creating \cup {e}) = Cardinality(Creating)
             \/ Cardinality(Creating \cup {e}) = Cardinality(Creating) + 1
      BY <2>2, FS_AddElement, Zenon
    <3>2. CASE Creating' = Creating
      BY <2>2, <3>2
    <3>3. CASE Creating' = Creating \cup {e}
      BY <2>2, <3>1, <3>3
    <3> QED
      BY <2>1, <3>2, <3>3
  <2>4. Len(address) \in Nat /\ edits \in 0..MaxEdits /\ MaxEdits \in Nat
    BY AddressAssumption, LenProperties DEF BInv, BookShapes, BookTypeOK
  <2>5. Counted'
    BY <1>1, <2>2, <2>3, <2>4 DEF BInv, Counted
  <2>6. BookTypeOK'
    <3>1. edits' \in 0..MaxEdits /\ Len(address') = Len(address)
      BY <1>1, <2>4
    <3>2. \A f \in Busy' : edit'[f].op \in {"create", "update", "delete", "next", "promote"}
      BY <1>3, <1>4 DEF BInv, BookTypeOK
    <3> QED
      BY <1>1, <3>1, <3>2 DEF BInv, BookTypeOK
  <2> QED
    BY <2>5, <2>6
<1> QED
  BY <1>6, <1>7, <1>8, <1>9 DEF BInv

(* The rows after what they are said to be, however they came so.          *)
RowsAs(saved, defaults) ==
  /\ address' \in Seq(AddressRow)
  /\ \A a \in 1..Len(address') : /\ (address'[a].saved <=> a \in saved)
                                 /\ (address'[a].isDefault <=> a \in defaults)
  /\ defaults \subseteq saved /\ saved \subseteq 1..Len(address')

LEMMA RowsRead ==
  ASSUME NEW saved, NEW defaults, RowsAs(saved, defaults)
  PROVE  Saved' = saved /\ Defaults' = defaults
  BY DEF RowsAs, Saved, Defaults

LEMMA RowsNow ==
  ASSUME BInv
  PROVE  /\ Defaults \subseteq Saved /\ Saved \subseteq 1..Len(address) /\ Len(address) \in Nat
         /\ \A a \in 1..Len(address) : /\ address[a] \in AddressRow
                                       /\ (address[a].saved <=> a \in Saved)
                                       /\ (address[a].isDefault <=> a \in Defaults)
<1>1. address \in Seq(AddressRow) /\ Len(address) \in Nat
  BY LenProperties DEF BInv, BookShapes
<1>2. \A a \in 1..Len(address) : address[a] \in AddressRow
  BY <1>1, ElementOfSeq
<1>3. \A a \in 1..Len(address) : address[a].isDefault => address[a].saved
  BY DEF BInv, BookTypeOK
<1>4. \A a \in 1..Len(address) : address[a].isDefault \in BOOLEAN /\ address[a].saved \in BOOLEAN
  BY <1>2 DEF AddressRow
<1> QED
  BY <1>1, <1>2, <1>3, <1>4 DEF Saved, Defaults

(* A request that ends: if it was alone nobody is left, and if others are  *)
(* left none of them is alone.                                             *)
LEMMA EditEnds ==
  ASSUME BInv, NEW e \in Editors, edit[e] # NoEdit, EndEdit(e),
         NEW saved, NEW defaults, RowsAs(saved, defaults),
         Len(address') <= Len(address) + (IF edit[e].op = "create" THEN 1 ELSE 0),
         contended' \in BOOLEAN, unset' \in BOOLEAN,
         edits' = edits, losses' \in 0..MaxLosses,
         ~ contended' => /\ \A a, b \in defaults : a = b
                         /\ saved # {} /\ ~ unset' => \/ defaults # {}
                                                      \/ Promoting /\ edit[e].op \notin {"next", "promote"}
  PROVE  BInv'
<1>1. edit' = [f \in Editors |-> IF f = e THEN NoEdit ELSE edit[f]]
  BY DEF EndEdit, BInv, BookShapes
<1>2. Busy' = Busy \ {e} /\ \A f \in Busy' : f \in Busy /\ edit'[f] = edit[f]
  BY <1>1 DEF Busy
<1>3. Saved' = saved /\ Defaults' = defaults
  BY RowsRead
<1>4. BookShapes'
  BY <1>1 DEF BInv, BookShapes, RowsAs
<1>5. \A f \in Busy' : ~ edit'[f].alone
  BY <1>2, EditOf DEF BInv, OneAlone
<1>6. SingleDefault'
  <2>1. Promoting /\ edit[e].op \notin {"next", "promote"} => Promoting'
    BY <1>2 DEF Promoting
  <2> QED
    BY <1>3, <2>1 DEF SingleDefault
<1>7. /\ Creating' = Creating \ {e}
      /\ e \in Creating <=> edit[e].op = "create"
  BY <1>2, EditOf DEF Creating, BInv
<1>8. /\ Len(address) \in Nat /\ edits \in 0..MaxEdits /\ MaxEdits \in Nat
      /\ IsFiniteSet(Creating) /\ Cardinality(Creating) \in Nat
      /\ Len(address') \in Nat
  BY AddressAssumption, LenProperties, FS_CardinalityType
     DEF BInv, BookShapes, BookTypeOK, Counted, RowsAs
<1>9. /\ IsFiniteSet(Creating')
      /\ Cardinality(Creating') = Cardinality(Creating) - (IF e \in Creating THEN 1 ELSE 0)
      /\ Cardinality(Creating') \in Nat
  <2> HIDE DEF Creating
  <2> QED
    BY <1>7, <1>8, FS_RemoveElement, FS_CardinalityType
<1>10. Counted'
  BY <1>7, <1>8, <1>9 DEF BInv, Counted
<1>11. BookTypeOK'
  <2>1. \A a \in 1..Len(address') : address'[a].isDefault => address'[a].saved
    BY DEF RowsAs
  <2>2. Len(address') <= MaxEdits
    BY <1>8, <1>9, <1>10 DEF Counted
  <2>3. \A f \in Busy' : edit'[f].op \in {"create", "update", "delete", "next", "promote"}
    BY <1>2 DEF BInv, BookTypeOK
  <2> QED
    BY <1>8, <2>1, <2>2, <2>3 DEF BookTypeOK
<1> QED
  BY <1>4, <1>5, <1>6, <1>10, <1>11 DEF BInv, OneAlone, ReadsFresh

(* A deletion that goes on to look for the next default, or to promote it. *)
LEMMA EditGoesOn ==
  ASSUME BInv, NEW e \in Editors, edit[e] \in DeleteEdit \cup NextEdit, NEW q \in NextEdit,
         edit' = [edit EXCEPT ![e] = q], q.alone = edit[e].alone,
         NEW saved, NEW defaults, RowsAs(saved, defaults), Len(address') = Len(address),
         contended' \in BOOLEAN, UNCHANGED <<unset, edits, losses>>,
         ~ contended' => \A a, b \in defaults : a = b,
         q.alone /\ ~ contended' => defaults = {},
         q.alone /\ q.op = "promote" => q.about \in saved
  PROVE  BInv'
<1>1. /\ q \in EditType /\ edit[e] \in EditType /\ q.op # "create" /\ edit[e].op # "create"
      /\ q # NoEdit /\ edit[e] # NoEdit /\ e \in Busy
  BY RequestIsEdit DEF EditType, DeleteEdit, NextEdit, Busy
<1>2. /\ edit' = [f \in Editors |-> IF f = e THEN q ELSE edit[f]] /\ edit'[e] = q
  BY DEF BInv, BookShapes
<1>3. Busy' = Busy /\ \A f \in Busy : f # e => edit'[f] = edit[f]
  BY <1>1, <1>2 DEF Busy
<1>4. Saved' = saved /\ Defaults' = defaults
  BY RowsRead
<1>5. BookShapes'
  BY <1>1, <1>2 DEF BInv, BookShapes, RowsAs
<1>6. OneAlone' /\ ReadsFresh'
  <2>1. \A f \in Busy' : edit'[f].alone => f = e /\ Busy = {e}
    BY <1>1, <1>2, <1>3 DEF BInv, OneAlone
  <2>2. q.alone => Fresh(q)'
    BY <1>4 DEF Fresh, NextEdit
  <2> QED
    BY <2>1, <2>2, <1>2, <1>3 DEF OneAlone, ReadsFresh
<1>7. SingleDefault'
  <2>1. Promoting'
    BY <1>1, <1>2, <1>3 DEF Promoting, NextEdit
  <2> QED
    BY <2>1, <1>4 DEF SingleDefault
<1>8. Creating' = Creating
  BY <1>1, <1>2, <1>3 DEF Creating
<1>9. Counted'
  <2> HIDE DEF Creating
  <2> QED
    BY <1>8 DEF BInv, Counted
<1>10. BookTypeOK'
  <2>1. \A a \in 1..Len(address') : address'[a].isDefault => address'[a].saved
    BY DEF RowsAs
  <2>2. \A f \in Busy' : edit'[f].op \in {"create", "update", "delete", "next", "promote"}
    BY <1>2, <1>3 DEF BInv, BookTypeOK, NextEdit
  <2> QED
    BY <2>1, <2>2 DEF BInv, BookTypeOK
<1> QED
  BY <1>5, <1>6, <1>7, <1>9, <1>10 DEF BInv

LEMMA RowRewritten ==
  ASSUME NEW row \in AddressRow, NEW b \in BOOLEAN
  PROVE  /\ [row EXCEPT !.isDefault = b] \in AddressRow
         /\ [row EXCEPT !.isDefault = b].saved = row.saved
         /\ [row EXCEPT !.isDefault = b].isDefault = b
  BY DEF AddressRow

LEMMA UnsetRows ==
  ASSUME BInv, NEW u
  PROVE  /\ Unset(u) \in Seq(AddressRow) /\ Len(Unset(u)) = Len(address)
         /\ \A a \in 1..Len(address) : /\ Unset(u)[a] \in AddressRow
                                       /\ (Unset(u)[a].saved <=> a \in Saved)
                                       /\ (Unset(u)[a].isDefault <=> a \in Defaults \ u)
<1>1. \A a \in 1..Len(address) :
        /\ Unset(u)[a] \in AddressRow
        /\ (Unset(u)[a].saved <=> a \in Saved)
        /\ (Unset(u)[a].isDefault <=> a \in Defaults \ u)
  <2> SUFFICES ASSUME NEW a \in 1..Len(address)
               PROVE  /\ Unset(u)[a] \in AddressRow
                      /\ (Unset(u)[a].saved <=> a \in Saved)
                      /\ (Unset(u)[a].isDefault <=> a \in Defaults \ u)
    OBVIOUS
  <2>1. /\ address[a] \in AddressRow /\ (address[a].saved <=> a \in Saved)
        /\ (address[a].isDefault <=> a \in Defaults)
    BY RowsNow
  <2>2. Unset(u)[a] = IF a \in u THEN [address[a] EXCEPT !.isDefault = FALSE] ELSE address[a]
    BY DEF Unset
  <2> DEFINE row == [address[a] EXCEPT !.isDefault = FALSE]
  <2>3. row \in AddressRow /\ row.saved = address[a].saved /\ row.isDefault = FALSE
    BY <2>1, RowRewritten
  <2>4. CASE a \in u
    <3>1. Unset(u)[a] = row
      BY <2>2, <2>4
    <3> HIDE DEF row
    <3>2. Unset(u)[a] \in AddressRow /\ (Unset(u)[a].saved <=> a \in Saved)
      BY <2>1, <2>3, <3>1
    <3>3. ~ Unset(u)[a].isDefault /\ a \notin Defaults \ u
      BY <2>3, <2>4, <3>1
    <3> QED
      BY <3>2, <3>3
  <2>5. CASE a \notin u
    BY <2>1, <2>2, <2>5
  <2> QED
    BY <2>4, <2>5
<1>2. Len(address) \in Nat
  BY RowsNow
<1>3. Unset(u) = [a \in 1..Len(address) |-> Unset(u)[a]]
  BY DEF Unset
<1>4. Unset(u) \in Seq(AddressRow) /\ Len(Unset(u)) = Len(address)
  BY <1>1, <1>2, <1>3, IsASeq
<1> QED
  BY <1>1, <1>4

LEMMA CreateSound ==
  ASSUME BInv, NEW e \in Editors, CommitCreate(e)
  PROVE  BInv'
<1> DEFINE q   == edit[e]
           n   == Len(address)
           row == [saved |-> TRUE, isDefault |-> q.isDefault]
           D   == (Defaults \ q.unsets) \cup (IF q.isDefault THEN {n + 1} ELSE {})
           S   == Saved \cup {n + 1}
<1>1. /\ q.op = "create" /\ address' = Append(Unset(q.unsets), row)
      /\ contended' = (IF q.alone /\ q.isDefault THEN FALSE ELSE contended \/ ~ q.alone)
      /\ unset' = (IF q.isDefault THEN FALSE ELSE unset \/ FALSE)
      /\ EndEdit(e) /\ edits' = edits /\ losses' = losses
  BY DEF CommitCreate, Settle
<1>2. q # NoEdit /\ q \in CreateEdit
  BY <1>1, EditOf, RequestIsEdit DEF BInv, BookShapes, NoEdit, CreateEdit, UpdateEdit, DeleteEdit, NextEdit, EditType
<1>3. q.alone \in BOOLEAN /\ q.isDefault \in BOOLEAN /\ row \in AddressRow /\ contended \in BOOLEAN
      /\ unset \in BOOLEAN /\ losses \in 0..MaxLosses /\ n \in Nat
  BY <1>2, RowsNow DEF CreateEdit, AddressRow, BInv, BookShapes, BookTypeOK
<1>4. RowsAs(S, D) /\ Len(address') = n + 1
  <2>1. /\ address' \in Seq(AddressRow) /\ Len(address') = n + 1
        /\ \A a \in 1..n : address'[a] = Unset(q.unsets)[a]
        /\ address'[n + 1] = row
    BY <1>1, <1>3, UnsetRows, AppendProperties
  <2>2. \A a \in 1..n : /\ (address'[a].saved <=> a \in Saved)
                        /\ (address'[a].isDefault <=> a \in Defaults \ q.unsets)
    BY <2>1, UnsetRows
  <2>3. Defaults \subseteq Saved /\ Saved \subseteq 1..n
    BY RowsNow
  <2>4. ASSUME NEW a \in 1..Len(address')
        PROVE  (address'[a].saved <=> a \in S) /\ (address'[a].isDefault <=> a \in D)
    <3>1. CASE a = n + 1
      <4>1. a \notin 1..n /\ address'[a] = row
        BY <1>3, <2>1, <3>1
      <4>2. a \in S /\ (a \in D <=> q.isDefault)
        BY <2>3, <3>1, <4>1
      <4> QED
        BY <1>3, <4>1, <4>2
    <3>2. CASE a # n + 1
      <4>1. a \in 1..n
        BY <1>3, <2>1, <3>2
      <4>2. (a \in S <=> a \in Saved) /\ (a \in D <=> a \in Defaults \ q.unsets)
        BY <3>2
      <4> QED
        BY <4>1, <4>2, <2>2
    <3> QED
      BY <3>1, <3>2
  <2>5. D \subseteq S /\ S \subseteq 1..Len(address')
    <3>1. Len(address') = n + 1 /\ n \in Nat /\ 1..n \subseteq 1..n + 1 /\ n + 1 \in 1..n + 1
      BY <1>3, <2>1
    <3> HIDE DEF n
    <3> QED
      BY <2>3, <3>1
  <2> QED
    BY <2>1, <2>4, <2>5 DEF RowsAs
<1>5. ASSUME ~ contended'
      PROVE  /\ \A a, b \in D : a = b
             /\ S # {} /\ ~ unset' => D # {} \/ (Promoting /\ q.op \notin {"next", "promote"})
  <2>1. q.alone /\ (q.isDefault \/ ~ contended)
    BY <1>1, <1>3, <1>5
  <2>2. Busy = {e} /\ Fresh(q)
    BY <1>2, <2>1, EditOf DEF BInv, OneAlone, ReadsFresh
  <2>3. CASE q.isDefault
    <3>1. Defaults \ q.unsets = {}
      BY <1>1, <2>2, <2>3, RowsNow DEF Fresh
    <3> QED
      BY <2>3, <3>1
  <2>4. CASE ~ q.isDefault
    <3>1. Saved # {} /\ q.unsets = {} /\ ~ contended /\ D = Defaults /\ unset' = unset
      BY <1>1, <1>3, <2>1, <2>2, <2>4 DEF Fresh
    <3> QED
      BY <1>1, <3>1 DEF BInv, SingleDefault
  <2> QED
    BY <2>3, <2>4
<1>6. Len(address') <= Len(address) + 1
  BY <1>3, <1>4
<1>7. contended' \in BOOLEAN /\ unset' \in BOOLEAN
  BY <1>1, <1>3, Zenon
<1> HIDE DEF D, S, row
<1> QED
  BY <1>1, <1>2, <1>3, <1>4, <1>5, <1>6, <1>7, EditEnds

LEMMA UpdateSound ==
  ASSUME BInv, NEW e \in Editors, CommitUpdate(e)
  PROVE  BInv'
<1> DEFINE q == edit[e]
           a == q.about
           D == (Defaults \ (q.unsets \cup {a})) \cup (IF q.isDefault THEN {a} ELSE {})
<1>1. q.op = "update" /\ EndEdit(e) /\ edits' = edits /\ losses' = losses
  BY DEF CommitUpdate
<1>2. q # NoEdit /\ q \in UpdateEdit
  BY <1>1, EditOf, RequestIsEdit DEF BInv, BookShapes, NoEdit, CreateEdit, UpdateEdit, DeleteEdit, NextEdit, EditType
<1>3. q.alone \in BOOLEAN /\ q.isDefault \in BOOLEAN /\ contended \in BOOLEAN
      /\ unset \in BOOLEAN /\ losses \in 0..MaxLosses
  BY <1>2 DEF UpdateEdit, BInv, BookShapes, BookTypeOK
<1>4. CASE a \notin Saved
  <2>1. UNCHANGED <<address, contended, unset>>
    BY <1>4 DEF CommitUpdate
  <2>2. RowsAs(Saved, Defaults)
    BY <2>1, RowsNow DEF RowsAs, BInv, BookShapes
  <2>3. ~ contended' => /\ \A x, y \in Defaults : x = y
                        /\ Saved # {} /\ ~ unset' => Defaults # {} \/ (Promoting /\ q.op \notin {"next", "promote"})
    BY <1>1, <2>1 DEF BInv, SingleDefault
  <2>4. /\ contended' \in BOOLEAN /\ unset' \in BOOLEAN
        /\ Len(address') <= Len(address) + (IF q.op = "create" THEN 1 ELSE 0)
    BY <1>1, <1>3, <2>1, RowsNow
  <2> QED
    BY <1>1, <1>2, <1>3, <2>2, <2>3, <2>4, EditEnds
<1>5. CASE a \in Saved
  <2>1. /\ address' = [Unset(q.unsets) EXCEPT ![a].isDefault = q.isDefault]
        /\ contended' = (IF q.alone /\ q.isDefault THEN FALSE ELSE contended \/ ~ q.alone)
        /\ unset' = (IF q.isDefault THEN FALSE ELSE unset \/ a \in Defaults)
    BY <1>5 DEF CommitUpdate, Settle
  <2>2. RowsAs(Saved, D) /\ Len(address') = Len(address)
    <3>1. /\ a \in 1..Len(address) /\ Defaults \subseteq Saved /\ Saved \subseteq 1..Len(address)
          /\ Len(address) \in Nat
      BY <1>5, RowsNow
    <3>2. /\ Unset(q.unsets)[a] \in AddressRow /\ (Unset(q.unsets)[a].saved <=> a \in Saved)
      BY <3>1, UnsetRows
    <3> DEFINE row == [Unset(q.unsets)[a] EXCEPT !.isDefault = q.isDefault]
    <3>3. row \in AddressRow /\ row.saved = TRUE /\ row.isDefault = q.isDefault
      BY <1>3, <1>5, <3>2, RowRewritten
    <3>4. address' = [Unset(q.unsets) EXCEPT ![a] = row]
      BY <2>1
    <3> HIDE DEF row
    <3>5. /\ address' \in Seq(AddressRow) /\ Len(address') = Len(address)
          /\ \A b \in 1..Len(address) : address'[b] = IF b = a THEN row ELSE Unset(q.unsets)[b]
      BY <3>1, <3>3, <3>4, UnsetRows, ExceptSeq
    <3>6. ASSUME NEW b \in 1..Len(address')
          PROVE  (address'[b].saved <=> b \in Saved) /\ (address'[b].isDefault <=> b \in D)
      <4>1. CASE b = a
        <5>1. address'[b] = row /\ b \in Saved /\ (b \in D <=> q.isDefault)
          BY <1>5, <3>5, <4>1
        <5> QED
          BY <1>3, <3>3, <5>1
      <4>2. CASE b # a
        <5>1. address'[b] = Unset(q.unsets)[b] /\ b \in 1..Len(address)
          BY <3>5, <4>2
        <5>2. b \in D <=> b \in Defaults \ q.unsets
          BY <4>2
        <5> QED
          BY <5>1, <5>2, UnsetRows
      <4> QED
        BY <4>1, <4>2
    <3>7. D \subseteq Saved /\ Saved \subseteq 1..Len(address')
      BY <1>5, <3>1, <3>5
    <3> QED
      BY <3>5, <3>6, <3>7 DEF RowsAs
  <2>3. ASSUME ~ contended'
        PROVE  /\ \A x, y \in D : x = y
               /\ Saved # {} /\ ~ unset' => D # {} \/ (Promoting /\ q.op \notin {"next", "promote"})
    <3>1. q.alone /\ (q.isDefault \/ ~ contended)
      BY <1>3, <2>1, <2>3
    <3>2. Busy = {e} /\ Fresh(q)
      BY <1>2, <3>1, EditOf DEF BInv, OneAlone, ReadsFresh
    <3>3. CASE q.isDefault
      <4>1. Defaults \ (q.unsets \cup {a}) = {}
        BY <1>1, <3>2, <3>3, RowsNow DEF Fresh
      <4> QED
        BY <3>3, <4>1
    <3>4. CASE ~ q.isDefault
      <4>1. q.unsets = {} /\ ~ contended /\ D = Defaults \ {a} /\ (~ unset' => ~ unset /\ a \notin Defaults)
        BY <1>1, <1>3, <2>1, <3>1, <3>2, <3>4 DEF Fresh
      <4> QED
        BY <1>1, <4>1 DEF BInv, SingleDefault
    <3> QED
      BY <3>3, <3>4
  <2>4. contended' \in BOOLEAN /\ unset' \in BOOLEAN
    BY <1>3, <2>1, Zenon
  <2>5. Len(address') <= Len(address) + 0
    BY <2>2, RowsNow
  <2> HIDE DEF D
  <2> QED
    BY <1>1, <1>2, <1>3, <2>2, <2>3, <2>4, <2>5, EditEnds
<1> QED
  BY <1>4, <1>5

LEMMA DeleteOf ==
  ASSUME BInv, NEW e \in Editors, edit[e].op \in {"delete", "next", "promote"}
  PROVE  /\ edit[e] # NoEdit /\ edit[e] \in DeleteEdit \cup NextEdit /\ edit[e].about \in Nat
         /\ edit[e].alone \in BOOLEAN
         /\ edit[e].op = "delete" => edit[e] \in DeleteEdit /\ edit[e].wasDefault \in BOOLEAN
         /\ edit[e].alone => Busy = {e} /\ Fresh(edit[e])
<1>1. edit[e] # NoEdit
  BY DEF NoEdit
<1>2. edit[e] \in DeleteEdit \cup NextEdit
  BY <1>1, EditOf DEF BInv, CreateEdit, UpdateEdit, DeleteEdit, NextEdit, EditType
<1> QED
  BY <1>1, <1>2, EditOf DEF BInv, DeleteEdit, NextEdit, OneAlone, ReadsFresh

LEMMA RemoveSound ==
  ASSUME BInv, NEW e \in Editors, RemoveRow(e)
  PROVE  BInv'
<1> DEFINE q == edit[e]
           a == q.about
           S == Saved \ {a}
           D == Defaults \ {a}
<1>1. q.op = "delete" /\ unset' = unset /\ edits' = edits /\ losses' = losses
  BY DEF RemoveRow
<1>2. /\ q # NoEdit /\ q \in DeleteEdit /\ q.alone \in BOOLEAN /\ q.wasDefault \in BOOLEAN /\ a \in Nat
      /\ q.alone => Busy = {e} /\ a \in Saved /\ q.wasDefault = address[a].isDefault
  BY <1>1, DeleteOf DEF Fresh
<1>3. contended \in BOOLEAN /\ unset \in BOOLEAN /\ losses \in 0..MaxLosses
  BY DEF BInv, BookShapes, BookTypeOK
<1>4. CASE a \notin Saved
  <2>1. EndEdit(e) /\ UNCHANGED <<address, contended>>
    BY <1>4 DEF RemoveRow
  <2>2. RowsAs(Saved, Defaults)
    BY <2>1, RowsNow DEF RowsAs, BInv, BookShapes
  <2>3. ~ contended' => /\ \A x, y \in Defaults : x = y
                        /\ Saved # {} /\ ~ unset' => Defaults # {} \/ (Promoting /\ q.op \notin {"next", "promote"})
    BY <1>1, <2>1 DEF BInv, SingleDefault
  <2>4. Len(address') <= Len(address) + 0
    BY <2>1, RowsNow
  <2> QED
    BY <1>1, <1>2, <1>3, <2>1, <2>2, <2>3, <2>4, EditEnds
<1>5. CASE a \in Saved
  <2> DEFINE row == [saved |-> FALSE, isDefault |-> FALSE]
  <2>1. /\ address' = [address EXCEPT ![a] = row]
        /\ contended' = (contended \/ ~ q.alone)
        /\ IF q.wasDefault THEN GoesOn(e, "next", a) ELSE EndEdit(e)
    BY <1>5 DEF RemoveRow
  <2>2. RowsAs(S, D) /\ Len(address') = Len(address)
    <3>1. /\ a \in 1..Len(address) /\ Defaults \subseteq Saved /\ Saved \subseteq 1..Len(address)
          /\ address \in Seq(AddressRow)
      BY <1>5, RowsNow DEF BInv, BookShapes
    <3>2. row \in AddressRow /\ ~ row.saved /\ ~ row.isDefault
      BY DEF AddressRow
    <3> HIDE DEF row
    <3>3. /\ address' \in Seq(AddressRow) /\ Len(address') = Len(address)
          /\ \A b \in 1..Len(address) : address'[b] = IF b = a THEN row ELSE address[b]
      BY <2>1, <3>1, <3>2, ExceptSeq
    <3>4. ASSUME NEW b \in 1..Len(address')
          PROVE  (address'[b].saved <=> b \in S) /\ (address'[b].isDefault <=> b \in D)
      BY <3>2, <3>3, RowsNow
    <3> QED
      BY <3>1, <3>3, <3>4 DEF RowsAs
  <2>3. ~ contended' => q.alone /\ ~ contended /\ \A x, y \in D : x = y
    BY <1>2, <1>3, <2>1 DEF BInv, SingleDefault
  <2>4. CASE q.wasDefault
    <3> DEFINE p == [op |-> "next", alone |-> q.alone, about |-> a]
    <3>1. p \in NextEdit /\ p.op = "next" /\ p.alone = q.alone
      BY <1>2 DEF NextEdit
    <3>2. edit' = [edit EXCEPT ![e] = p]
      BY <2>1, <2>4 DEF GoesOn
    <3>3. q.alone /\ ~ contended' => D = {}
      <4>1. q.alone /\ ~ contended' => a \in Defaults
        BY <1>2, <2>4, RowsNow
      <4> QED
        BY <2>3, <4>1 DEF BInv, SingleDefault
    <3> HIDE DEF D, S, p
    <3> QED
      BY <1>1, <1>2, <1>3, <2>1, <2>2, <2>3, <3>1, <3>2, <3>3, EditGoesOn
  <2>5. CASE ~ q.wasDefault
    <3>1. ~ contended' => D = Defaults
      BY <1>2, <2>3, <2>5, RowsNow
    <3>2. ~ contended' => (S # {} /\ ~ unset' => D # {} \/ (Promoting /\ q.op \notin {"next", "promote"}))
      BY <1>1, <2>3, <3>1 DEF BInv, SingleDefault
    <3>3. Len(address') <= Len(address) + 0 /\ contended' \in BOOLEAN /\ EndEdit(e)
      BY <1>3, <2>1, <2>2, <2>5, RowsNow
    <3> HIDE DEF D, S
    <3> QED
      BY <1>1, <1>2, <1>3, <2>2, <2>3, <3>2, <3>3, EditEnds
  <2> QED
    BY <1>2, <2>4, <2>5
<1> QED
  BY <1>4, <1>5

LEMMA FindSound ==
  ASSUME BInv, NEW e \in Editors, FindNext(e)
  PROVE  BInv'
<1> DEFINE q == edit[e]
<1>1. q.op = "next" /\ UNCHANGED <<address, contended, unset, edits, losses>>
  BY DEF FindNext
<1>2. /\ q # NoEdit /\ q \in DeleteEdit \cup NextEdit /\ q.alone \in BOOLEAN
      /\ q.alone /\ ~ contended => Defaults = {}
  BY <1>1, DeleteOf DEF Fresh
<1>3. /\ contended' \in BOOLEAN /\ unset' \in BOOLEAN /\ losses' \in 0..MaxLosses
      /\ RowsAs(Saved, Defaults) /\ Len(address') = Len(address) /\ Len(address') <= Len(address) + 0
      /\ ~ contended => \A x, y \in Defaults : x = y
  BY <1>1, RowsNow DEF BInv, BookShapes, BookTypeOK, RowsAs, SingleDefault
<1>4. CASE Saved = {} /\ EndEdit(e)
  BY <1>1, <1>2, <1>3, <1>4, EditEnds
<1>5. ASSUME NEW a \in Saved, GoesOn(e, "promote", a)
      PROVE  BInv'
  <2> DEFINE p == [op |-> "promote", alone |-> q.alone, about |-> a]
  <2>1. a \in Nat
    BY RowsNow
  <2>2. p \in NextEdit /\ p.op = "promote" /\ p.alone = q.alone /\ p.about = a
    BY <1>2, <2>1 DEF NextEdit
  <2>3. edit' = [edit EXCEPT ![e] = p]
    BY <1>5 DEF GoesOn
  <2> HIDE DEF p
  <2> QED
    BY <1>1, <1>2, <1>3, <2>2, <2>3, EditGoesOn
<1> QED
  BY <1>4, <1>5 DEF FindNext

LEMMA PromoteSound ==
  ASSUME BInv, NEW e \in Editors, Promote(e)
  PROVE  BInv'
<1> DEFINE q == edit[e]
           a == q.about
           D == IF a \in Saved THEN Defaults \cup {a} ELSE Defaults
<1>1. /\ q.op = "promote" /\ EndEdit(e) /\ UNCHANGED <<unset, edits, losses>>
      /\ contended' = (contended \/ ~ q.alone)
  BY DEF Promote
<1>2. /\ q # NoEdit /\ q.alone \in BOOLEAN
      /\ q.alone => a \in Saved /\ (~ contended => Defaults = {})
  BY <1>1, DeleteOf DEF Fresh
<1>3. contended' \in BOOLEAN /\ unset' \in BOOLEAN /\ losses' \in 0..MaxLosses /\ contended \in BOOLEAN
  BY <1>1, <1>2 DEF BInv, BookShapes, BookTypeOK
<1>4. RowsAs(Saved, D) /\ Len(address') <= Len(address) + 0
  <2>1. Defaults \subseteq Saved /\ Saved \subseteq 1..Len(address) /\ address \in Seq(AddressRow)
        /\ Len(address) \in Nat
    BY RowsNow DEF BInv, BookShapes
  <2>2. CASE a \notin Saved
    <3>1. address' = address
      BY <2>2 DEF Promote
    <3> QED
      BY <2>1, <2>2, <3>1, RowsNow DEF RowsAs
  <2>3. CASE a \in Saved
    <3> DEFINE row == [address[a] EXCEPT !.isDefault = TRUE]
    <3>1. a \in 1..Len(address) /\ address[a] \in AddressRow /\ address[a].saved
      BY <2>1, <2>3, RowsNow
    <3>2. row \in AddressRow /\ row.saved /\ row.isDefault
      BY <3>1, RowRewritten
    <3>3. address' = [address EXCEPT ![a] = row]
      BY <2>3 DEF Promote
    <3> HIDE DEF row
    <3>4. /\ address' \in Seq(AddressRow) /\ Len(address') = Len(address)
          /\ \A b \in 1..Len(address) : address'[b] = IF b = a THEN row ELSE address[b]
      BY <2>1, <3>1, <3>2, <3>3, ExceptSeq
    <3>5. ASSUME NEW b \in 1..Len(address')
          PROVE  (address'[b].saved <=> b \in Saved) /\ (address'[b].isDefault <=> b \in D)
      <4>1. CASE b = a
        BY <2>3, <3>2, <3>4, <4>1
      <4>2. CASE b # a
        BY <2>3, <3>4, <4>2, RowsNow
      <4> QED
        BY <4>1, <4>2
    <3>6. D \subseteq Saved /\ Saved \subseteq 1..Len(address')
      BY <2>1, <2>3, <3>4
    <3>7. Len(address') <= Len(address) + 0
      BY <2>1, <3>4
    <3> HIDE DEF D
    <3> QED
      BY <3>4, <3>5, <3>6, <3>7 DEF RowsAs
  <2> QED
    BY <2>2, <2>3
<1>5. ~ contended' => D = {a}
  BY <1>1, <1>2, <1>3
<1> HIDE DEF D
<1> QED
  BY <1>1, <1>2, <1>3, <1>4, <1>5, EditEnds

LEMMA LossSound ==
  ASSUME BInv, NEW e \in Editors, LoseEdit(e)
  PROVE  BInv'
<1> DEFINE q == edit[e]
<1>1. /\ q # NoEdit /\ losses < MaxLosses /\ losses' = losses + 1
      /\ unset' = (unset \/ q.op \in {"next", "promote"})
      /\ contended' = (contended \/ ~ q.alone)
      /\ EndEdit(e) /\ UNCHANGED <<address, edits>>
  BY DEF LoseEdit
<1>2. q.alone \in BOOLEAN /\ contended \in BOOLEAN /\ unset \in BOOLEAN
  BY <1>1, EditOf DEF BInv, BookShapes
<1>3. losses' \in 0..MaxLosses
  BY <1>1, AddressAssumption DEF BInv, BookTypeOK
<1>4. RowsAs(Saved, Defaults) /\ Len(address') <= Len(address) + (IF q.op = "create" THEN 1 ELSE 0)
  BY <1>1, RowsNow DEF BInv, BookShapes, RowsAs
<1>5. ~ contended' => /\ \A x, y \in Defaults : x = y
                      /\ Saved # {} /\ ~ unset' => Defaults # {} \/ (Promoting /\ q.op \notin {"next", "promote"})
  BY <1>1, <1>2 DEF BInv, SingleDefault
<1> QED
  BY <1>1, <1>2, <1>3, <1>4, <1>5, EditEnds

LEMMA BeginsSound ==
  ASSUME BInv, NEW e \in Editors,
         \/ \E b \in BOOLEAN : BeginCreate(e, b) \/ \E a \in Saved : BeginUpdate(e, a, b)
         \/ \E a \in Saved : BeginDefault(e, a) \/ BeginDelete(e, a)
  PROVE  BInv'
<1>0. /\ Saved \in SUBSET Nat /\ Alone \in BOOLEAN
      /\ \A a \in Saved : a \in Nat /\ address[a].isDefault \in BOOLEAN /\ Saved \ {a} \in SUBSET Nat
  BY RowsNow DEF AddressRow, Alone
<1>1. ASSUME NEW b \in BOOLEAN, BeginCreate(e, b) PROVE BInv'
  <2> DEFINE q == [op |-> "create", alone |-> Alone, isDefault |-> b \/ Saved = {},
                   unsets |-> IF b THEN Saved ELSE {}]
  <2>1. q \in EditType /\ q.op = "create" /\ q.alone = Alone
    BY <1>0 DEF EditType, CreateEdit
  <2>2. Fresh(q)
    BY DEF Fresh
  <2>3. BeginEdit(e, q)
    BY <1>1 DEF BeginCreate
  <2> HIDE DEF q
  <2> QED
    BY <2>1, <2>2, <2>3, EditBegins
<1>2. ASSUME NEW b \in BOOLEAN, NEW a \in Saved, BeginUpdate(e, a, b) PROVE BInv'
  <2> DEFINE q == [op |-> "update", alone |-> Alone, about |-> a, isDefault |-> b,
                   unsets |-> IF b THEN Saved \ {a} ELSE {}]
  <2>1. q \in EditType /\ q.op = "update" /\ q.alone = Alone
    BY <1>0 DEF EditType, UpdateEdit
  <2>2. Fresh(q)
    BY DEF Fresh
  <2>3. BeginEdit(e, q)
    BY <1>2 DEF BeginUpdate
  <2> HIDE DEF q
  <2> QED
    BY <2>1, <2>2, <2>3, EditBegins
<1>3. ASSUME NEW a \in Saved, BeginDefault(e, a) PROVE BInv'
  <2> DEFINE q == [op |-> "update", alone |-> Alone, about |-> a, isDefault |-> TRUE, unsets |-> Saved]
  <2>1. q \in EditType /\ q.op = "update" /\ q.alone = Alone
    BY <1>0 DEF EditType, UpdateEdit
  <2>2. Fresh(q)
    BY DEF Fresh
  <2>3. BeginEdit(e, q)
    BY <1>3 DEF BeginDefault
  <2> HIDE DEF q
  <2> QED
    BY <2>1, <2>2, <2>3, EditBegins
<1>4. ASSUME NEW a \in Saved, BeginDelete(e, a) PROVE BInv'
  <2> DEFINE q == [op |-> "delete", alone |-> Alone, about |-> a, wasDefault |-> address[a].isDefault]
  <2>1. q \in EditType /\ q.op = "delete" /\ q.alone = Alone
    BY <1>0 DEF EditType, DeleteEdit
  <2>2. Fresh(q)
    BY DEF Fresh
  <2>3. BeginEdit(e, q)
    BY <1>4 DEF BeginDelete
  <2> HIDE DEF q
  <2> QED
    BY <2>1, <2>2, <2>3, EditBegins
<1> QED
  BY <1>1, <1>2, <1>3, <1>4

LEMMA BookStep == BInv /\ [BookNext]_bookVars => BInv'
<1> SUFFICES ASSUME BInv, [BookNext]_bookVars PROVE BInv'
  OBVIOUS
<1>1. CASE UNCHANGED bookVars
  BY <1>1 DEF bookVars, BInv, BookTypeOK, BookShapes, OneAlone, ReadsFresh, SingleDefault, Counted,
     Creating, Promoting, Fresh, Busy, Saved, Defaults
<1>2. CASE BookNext
  BY <1>2, BeginsSound, CreateSound, UpdateSound, RemoveSound, FindSound, PromoteSound, LossSound
     DEF BookNext
<1> QED
  BY <1>1, <1>2

LEMMA BookOfRows == BInv => BookTypeOK /\ OneDefault
<1> SUFFICES ASSUME BInv, ~ contended
             PROVE  /\ Cardinality(Defaults) <= 1
                    /\ Saved # {} /\ ~ unset /\ (\A e \in Busy : edit[e].op \notin {"next", "promote"})
                         => Defaults # {}
  BY DEF BInv, OneDefault
<1>1. /\ \A a, b \in Defaults : a = b
      /\ Saved # {} /\ ~ unset /\ ~ Promoting => Defaults # {}
  BY DEF BInv, SingleDefault
<1>2. Defaults = {} \/ \E a : Defaults = {a}
  BY <1>1
<1>3. Cardinality(Defaults) <= 1
  <2>1. CASE Defaults = {}
    BY <2>1, FS_EmptySet
  <2>2. ASSUME NEW a, Defaults = {a} PROVE Cardinality(Defaults) <= 1
    <3>1. Cardinality({a}) = 1
      BY FS_Singleton, Zenon
    <3> QED
      BY <2>2, <3>1
  <2> QED
    BY <1>2, <2>1, <2>2
<1> QED
  BY <1>1, <1>3 DEF Promoting

-----------------------------------------------------------------------------
(* The threads.  What a request carries between its queries stays true of  *)
(* the rows, whatever the others write meanwhile.                          *)
Sides      == {"CUSTOMER", "MERCHANT", "SUPER_ADMIN"}
Mark0      == [by : Sides \cup {"nobody"}, had : Nat]
MessageRow == [thread : Threads, from : Sides, readAt : Mark0, seen : BOOLEAN, sent : BOOLEAN,
               after : SUBSET Nat]
InboxRow   == [thread : Threads, preview : Nat, unread : Nat, had : Nat]
SendCall   == [op : {"find", "create", "write", "touch"}, thread : Threads, side : Sides,
               msg : Nat, after : SUBSET Nat]
ListCall   == [op : {"list", "show", "mark"}, thread : Threads, side : Sides, shown : SUBSET Nat, had : Nat]
InboxCall  == [op : {"inbox", "preview", "count"}, chats : BOOLEAN, rows : SUBSET InboxRow, had : Nat]
CallType   == {NoCall} \cup SendCall \cup ListCall \cup InboxCall

ChatShapes ==
  /\ message \in Seq(MessageRow)
  /\ call \in [Callers -> CallType]
  /\ inbox \subseteq InboxRow

Sent == {i \in 1..Len(message) : message[i].sent}

(* A send knows only messages that are sent, and its own is not yet; a     *)
(* list is asked for before it reads, so that what it read holds every     *)
(* message there was; the rows of an inbox have a message to preview, and  *)
(* are honest as to what they already tell.                                *)
Keeps(q) ==
  /\ q.op \in {"find", "create", "write", "touch"} => q.side \in Parties(q.thread) /\ q.after \subseteq Sent
  /\ q.op \in {"write", "touch"} => q.thread \in conversation
  /\ q.op = "touch" => q.msg \in OfThread(q.thread) /\ q.msg \notin Sent
  /\ q.op \in {"list", "show", "mark"} => q.side \in Parties(q.thread) /\ q.had <= Len(message)
  /\ q.op = "mark" => /\ q.shown \subseteq OfThread(q.thread)
                      /\ \A i \in OfThread(q.thread) : i <= q.had => i \in q.shown
  /\ q.op = "inbox" => q.had <= Len(message)
  /\ q.op \in {"preview", "count"} => \A r \in q.rows : r.had <= Len(message) /\ OfThread(r.thread) # {}
  /\ q.op = "preview" /\ q.chats => \A r \in q.rows : CountHonest(r)
  /\ q.op = "count" => \A r \in q.rows : r.preview \in OfThread(r.thread) /\ PreviewHonest(r)
CallsKeep == \A c \in Callers : Keeps(call[c])

OwnMessages ==
  \A c, d \in Callers : call[c].op = "touch" /\ call[d].op = "touch" /\ call[c].msg = call[d].msg => c = d

AfterSent == \A i \in 1..Len(message) : message[i].after \subseteq Sent
Previews  == \A r \in inbox : r.preview \in OfThread(r.thread) /\ r.had <= Len(message)

CInv ==
  /\ ChatTypeOK /\ ChatShapes /\ CallsKeep /\ OwnMessages /\ AfterSent /\ Previews
  /\ LastMessageFollows /\ MarkedOnOpening /\ InboxHonest

-----------------------------------------------------------------------------
LEMMA LeastElement ==
  ASSUME NEW T \in SUBSET Nat, T # {}
  PROVE  \E x \in T : \A y \in T : x <= y
<1> DEFINE R == OpToRel(<, Nat)
<1>1. IsWellFoundedOn(R, Nat)
  BY NatLessThanWellFounded
<1>2. PICK x \in T : \A y \in T : ~ (<<y, x>> \in R)
  <2> HIDE DEF R
  <2> QED
    BY <1>1, WFMin
<1>3. \A y \in T : ~ (y < x)
  <2> SUFFICES ASSUME NEW y \in T, y < x PROVE FALSE
    OBVIOUS
  <2>1. <<y, x>> \in R
    BY DEF OpToRel
  <2> QED
    BY <1>2, <2>1
<1> QED
  BY <1>3

LEMMA GreatestElement ==
  ASSUME NEW n \in Nat, NEW S \in SUBSET (1..n), S # {}
  PROVE  \E x \in S : \A y \in S : y <= x
<1> DEFINE T == {k \in Nat : \E x \in S : k = n - x}
<1>1. T \in SUBSET Nat /\ T # {}
  <2>1. PICK x \in S : TRUE
    OBVIOUS
  <2>2. n - x \in T
    OBVIOUS
  <2> QED
    BY <2>2
<1>2. PICK t \in T : \A u \in T : t <= u
  <2> HIDE DEF T
  <2> QED
    BY <1>1, LeastElement
<1>3. PICK x \in S : t = n - x
  OBVIOUS
<1>4. \A y \in S : n - y \in T
  OBVIOUS
<1>5. \A y \in S : n - x <= n - y
  BY <1>2, <1>3, <1>4
<1> QED
  BY <1>3, <1>5

LEMMA MessagesNow ==
  ASSUME CInv
  PROVE  /\ Len(message) \in Nat
         /\ \A i \in 1..Len(message) : /\ message[i] \in MessageRow
                                       /\ message[i].thread \in Threads /\ message[i].from \in Sides
                                       /\ message[i].readAt \in Mark0 /\ message[i].seen \in BOOLEAN
                                       /\ message[i].sent \in BOOLEAN /\ message[i].after \in SUBSET Nat
<1>1. Len(message) \in Nat /\ message \in Seq(MessageRow)
  BY LenProperties DEF CInv, ChatShapes
<1>2. \A i \in 1..Len(message) : message[i] \in MessageRow
  BY <1>1, ElementOfSeq
<1> QED
  BY <1>1, <1>2 DEF MessageRow

LEMMA NewestOf ==
  ASSUME CInv, NEW t, OfThread(t) # {}
  PROVE  Newest(OfThread(t)) \in OfThread(t)
<1>1. OfThread(t) \in SUBSET (1..Len(message)) /\ Len(message) \in Nat
  BY MessagesNow DEF OfThread
<1>2. \E x \in OfThread(t) : \A y \in OfThread(t) : y <= x
  BY <1>1, GreatestElement
<1> QED
  BY <1>2 DEF Newest

LEMMA UnreadCounts ==
  ASSUME CInv, NEW t
  PROVE  /\ Unread(t) \in Nat
         /\ Unread(t) = 0 =>
              \A i \in FromOther(ViewerOf(t), OfThread(t)) : message[i].readAt # Never
<1> DEFINE U == {i \in FromOther(ViewerOf(t), OfThread(t)) : message[i].readAt = Never}
<1>1. U \in SUBSET (1..Len(message)) /\ Len(message) \in Nat
  BY MessagesNow DEF OfThread, FromOther
<1>2. IsFiniteSet(1..Len(message))
  BY <1>1, FS_Interval
<1>3. IsFiniteSet(U)
  <2> HIDE DEF U
  <2> QED
    BY <1>1, <1>2, FS_Subset
<1>4. Cardinality(U) \in Nat /\ (Cardinality(U) = 0 => U = {})
  <2> HIDE DEF U
  <2> QED
    BY <1>3, FS_EmptySet, FS_CardinalityType
<1> QED
  BY <1>4 DEF Unread

LEMMA NewestIsLast ==
  ASSUME CInv, NEW t, OfThread(t) # {}
  PROVE  \A i \in OfThread(t) : i <= Newest(OfThread(t))
<1>1. OfThread(t) \in SUBSET (1..Len(message)) /\ Len(message) \in Nat
  BY MessagesNow DEF OfThread
<1>2. \E x \in OfThread(t) : \A y \in OfThread(t) : y <= x
  BY <1>1, GreatestElement
<1> QED
  BY <1>2 DEF Newest

LEMMA CallOf ==
  ASSUME CInv, NEW c \in Callers
  PROVE  /\ call[c] \in CallType /\ Keeps(call[c])
         /\ call[c].op \in {"find", "create", "write", "touch"} => call[c] \in SendCall
         /\ call[c].op \in {"list", "show", "mark"} => call[c] \in ListCall
         /\ call[c].op \in {"inbox", "preview", "count"} => call[c] \in InboxCall
<1>1. call[c] \in CallType /\ Keeps(call[c])
  BY DEF CInv, ChatShapes, CallsKeep
<1> QED
  BY <1>1 DEF CallType, NoCall, SendCall, ListCall, InboxCall

LEMMA SidesOf == \A t : Parties(t) \subseteq Sides
  BY DEF Parties, Sides

-----------------------------------------------------------------------------
LEMMA ChatStarts == ChatInit => CInv
<1> SUFFICES ASSUME ChatInit PROVE CInv
  OBVIOUS
<1>1. Len(message) = 0 /\ 1..Len(message) = {} /\ message \in Seq(MessageRow)
  BY EmptySeq DEF ChatInit
<1>2. ChatTypeOK
  <2>1. 0 \in 0..MaxCalls /\ 0 \in 0..MaxBreaks
    BY ConversationAssumption
  <2>2. last \in [Threads -> 0..Len(message)]
    BY <1>1 DEF ChatInit
  <2> QED
    BY <1>1, <2>1, <2>2 DEF ChatInit, ChatTypeOK
<1>3. ChatShapes
  BY <1>1 DEF ChatInit, ChatShapes, CallType
<1>4. CallsKeep /\ OwnMessages
  BY DEF ChatInit, CallsKeep, OwnMessages, Keeps, NoCall
<1>5. LastMessageFollows
  BY <1>1 DEF ChatInit, LastMessageFollows, OfThread
<1> QED
  BY <1>1, <1>2, <1>3, <1>4, <1>5 DEF CInv, AfterSent, Previews, MarkedOnOpening, InboxHonest, ChatInit

(* A request goes on, or ends, and no message changes.                     *)
LEMMA CallGoes ==
  ASSUME CInv, NEW c \in Callers, NEW q \in CallType, call' = [call EXCEPT ![c] = q],
         q.op # "touch", Keeps(q)',
         conversation \subseteq conversation', conversation' \subseteq Threads,
         UNCHANGED <<message, last>>, begun' \in 0..MaxCalls, breaks' \in 0..MaxBreaks,
         inbox' \subseteq InboxRow, Previews', InboxHonest'
  PROVE  CInv'
<1>1. /\ call' = [d \in Callers |-> IF d = c THEN q ELSE call[d]]
  BY DEF CInv, ChatShapes
<1>2. \A t : OfThread(t)' = OfThread(t)
  BY DEF OfThread
<1>3. Sent' = Sent
  BY DEF Sent
<1>4. CallsKeep'
  <2>1. \A d \in Callers : Keeps(call[d])
    BY DEF CInv, CallsKeep
  <2>2. \A d \in Callers : d # c => Keeps(call[d])'
    BY <1>1, <1>2, <1>3, <2>1 DEF Keeps, PreviewHonest, CountHonest, FromOther
  <2> QED
    BY <1>1, <2>2 DEF CallsKeep
<1>5. OwnMessages'
  BY <1>1 DEF CInv, OwnMessages
<1>6. ChatShapes'
  BY <1>1 DEF CInv, ChatShapes
<1>7. ChatTypeOK'
  BY DEF CInv, ChatTypeOK
<1>8. AfterSent' /\ LastMessageFollows' /\ MarkedOnOpening'
  BY <1>2, <1>3 DEF CInv, AfterSent, LastMessageFollows, MarkedOnOpening
<1> QED
  BY <1>4, <1>5, <1>6, <1>7, <1>8 DEF CInv

(* The messages keep what they are, a mark and the word that they are sent.*)
Grows ==
  /\ message' \in Seq(MessageRow) /\ Len(message) <= Len(message')
  /\ \A i \in 1..Len(message) :
       /\ message'[i].thread = message[i].thread /\ message'[i].from = message[i].from
       /\ message'[i].after = message[i].after
       /\ message[i].sent => message'[i].sent
       /\ message[i].readAt # Never => message'[i].readAt # Never

LEMMA GrownThreads ==
  ASSUME CInv, Grows
  PROVE  /\ \A t : OfThread(t) \subseteq OfThread(t)'
         /\ \A t : \A i \in OfThread(t)' : i <= Len(message) => i \in OfThread(t)
         /\ Sent \subseteq Sent'
<1>1. Len(message) \in Nat /\ Len(message') \in Nat /\ Len(message) <= Len(message')
  BY MessagesNow, LenProperties DEF Grows
<1>2. 1..Len(message) \subseteq 1..Len(message')
  BY <1>1
<1> QED
  BY <1>1, <1>2 DEF Grows, OfThread, Sent

LEMMA GrownRows ==
  ASSUME CInv, Grows, NEW r, r.had \in Nat, r.had <= Len(message)
  PROVE  /\ r.had <= Len(message')
         /\ PreviewHonest(r) => PreviewHonest(r)'
         /\ CountHonest(r) => CountHonest(r)'
<1>1. Len(message) \in Nat /\ Len(message') \in Nat /\ Len(message) <= Len(message')
  BY MessagesNow, LenProperties DEF Grows
<1>2. \A i \in OfThread(r.thread)' : i \in Nat
  BY DEF OfThread
<1>3. \A i \in OfThread(r.thread)' : i <= r.had => i \in OfThread(r.thread) /\ i \in 1..Len(message)
  BY <1>1, <1>2, GrownThreads DEF OfThread
<1>4. PreviewHonest(r) => PreviewHonest(r)'
  BY <1>3 DEF PreviewHonest
<1>5. ASSUME CountHonest(r), r.unread = 0, NEW i \in OfThread(r.thread)',
             message'[i].from # ViewerOf(r.thread), i <= r.had
      PROVE  message'[i].readAt # Never
  <2>1. i \in OfThread(r.thread) /\ i \in 1..Len(message)
    BY <1>3, <1>5
  <2>2. message[i].from # ViewerOf(r.thread)
    BY <1>5, <2>1 DEF Grows
  <2>3. message[i].readAt # Never
    BY <1>5, <2>1, <2>2 DEF CountHonest, FromOther
  <2> QED
    BY <2>1, <2>3 DEF Grows
<1>6. CountHonest(r) => CountHonest(r)'
  BY <1>5 DEF CountHonest, FromOther
<1> QED
  BY <1>1, <1>4, <1>6

LEMMA GrownCalls ==
  ASSUME CInv, Grows, conversation \subseteq conversation', NEW q \in CallType, Keeps(q),
         q.op = "touch" => q.msg \notin Sent'
  PROVE  Keeps(q)'
<1>2. Len(message) \in Nat /\ Len(message') \in Nat /\ Len(message) <= Len(message')
  BY MessagesNow, LenProperties DEF Grows
<1>3. CASE q \in SendCall
  BY <1>3, GrownThreads DEF Keeps, SendCall
<1>4. CASE q \in ListCall
  <2>1. q.had \in Nat /\ q.had <= Len(message) /\ q.op \in {"list", "show", "mark"} /\ q.thread \in Threads
    BY <1>4 DEF Keeps, ListCall
  <2>2. \A i \in OfThread(q.thread)' : i \in Nat
    BY DEF OfThread
  <2>3. q.op = "mark" => \A i \in OfThread(q.thread)' : i <= q.had => i \in q.shown
    BY <1>2, <2>1, <2>2, GrownThreads DEF Keeps
  <2>4. q.op = "mark" => q.shown \subseteq OfThread(q.thread)'
    BY GrownThreads DEF Keeps
  <2>5. q.side \in Parties(q.thread) /\ q.had <= Len(message')
    BY <1>2, <2>1 DEF Keeps
  <2> QED
    BY <2>1, <2>3, <2>4, <2>5 DEF Keeps
<1>5. CASE q \in InboxCall
  <2>1. q.had \in Nat /\ q.op \in {"inbox", "preview", "count"} /\ \A r \in q.rows : r.had \in Nat
    BY <1>5 DEF InboxCall, InboxRow
  <2>2. q.op = "inbox" => q.had <= Len(message')
    BY <1>2, <2>1 DEF Keeps
  <2>3. q.op \in {"preview", "count"} =>
          \A r \in q.rows : r.had <= Len(message') /\ OfThread(r.thread)' # {}
    BY <2>1, GrownRows, GrownThreads DEF Keeps
  <2>4. q.op = "preview" /\ q.chats => \A r \in q.rows : CountHonest(r)'
    BY <2>1, GrownRows DEF Keeps
  <2>5. q.op = "count" => \A r \in q.rows : r.preview \in OfThread(r.thread)' /\ PreviewHonest(r)'
    BY <2>1, GrownRows, GrownThreads DEF Keeps
  <2> QED
    BY <2>1, <2>2, <2>3, <2>4, <2>5 DEF Keeps
<1>6. CASE q = NoCall
  BY <1>6 DEF NoCall, Keeps
<1> QED
  BY <1>3, <1>4, <1>5, <1>6 DEF CallType

(* A request that writes a message or changes some.                        *)
LEMMA Written ==
  ASSUME CInv, Grows, NEW c \in Callers, NEW p \in CallType, call' = [call EXCEPT ![c] = p], Keeps(p)',
         UNCHANGED <<conversation, inbox>>,
         \A d \in Callers : d # c /\ call[d].op = "touch" => call[d].msg \notin Sent'
  PROVE  ChatShapes' /\ CallsKeep' /\ Previews' /\ InboxHonest'
<1>1. call' = [d \in Callers |-> IF d = c THEN p ELSE call[d]]
  BY DEF CInv, ChatShapes
<1>2. ChatShapes'
  BY <1>1 DEF CInv, ChatShapes, Grows
<1>3. ASSUME NEW d \in Callers PROVE Keeps(call[d])'
  <2>1. PICK q \in CallType : q = call'[d]
    BY <1>2 DEF ChatShapes
  <2>2. CASE d = c
    <3>1. q = p
      BY <1>1, <2>1, <2>2
    <3> QED
      BY <3>1, <2>1 DEF Keeps
  <2>3. CASE d # c
    <3>1. q = call[d]
      BY <1>1, <2>1, <2>3
    <3>2. Keeps(q) /\ (q.op = "touch" => q.msg \notin Sent')
      BY <3>1, <2>3, CallOf
    <3>3. Keeps(q)'
      BY <3>2, GrownCalls
    <3> QED
      BY <3>3, <2>1 DEF Keeps
  <2> QED
    BY <2>2, <2>3
<1>4. Previews' /\ InboxHonest'
  <2> SUFFICES ASSUME NEW r \in inbox
               PROVE  /\ r.preview \in OfThread(r.thread)' /\ r.had <= Len(message')
                      /\ PreviewHonest(r)' /\ CountHonest(r)'
    BY DEF Previews, InboxHonest
  <2>1. r.had \in Nat /\ r.had <= Len(message) /\ r.preview \in OfThread(r.thread)
    BY DEF CInv, Previews, ChatShapes, InboxRow
  <2>2. PreviewHonest(r) /\ CountHonest(r)
    BY DEF CInv, InboxHonest
  <2> QED
    BY <2>1, <2>2, GrownRows, GrownThreads
<1> QED
  BY <1>2, <1>3, <1>4 DEF CallsKeep

-----------------------------------------------------------------------------
(* The requests.                                                           *)
LEMMA SendGoesOn ==
  ASSUME NEW q \in SendCall, NEW o \in {"find", "create", "write", "touch"}
  PROVE  /\ [q EXCEPT !.op = o] \in SendCall
         /\ [q EXCEPT !.op = o].op = o /\ [q EXCEPT !.op = o].thread = q.thread
         /\ [q EXCEPT !.op = o].side = q.side /\ [q EXCEPT !.op = o].msg = q.msg
         /\ [q EXCEPT !.op = o].after = q.after
  BY DEF SendCall

(* The inbox last answered stays what it was.                              *)
LEMMA InboxStands ==
  ASSUME CInv, UNCHANGED <<message, inbox>>
  PROVE  Previews' /\ InboxHonest'
BY DEF CInv, Previews, InboxHonest, PreviewHonest, CountHonest, FromOther, OfThread

(* The request ends.                                                       *)
LEMMA CallReturns ==
  ASSUME CInv, NEW c \in Callers, Return(c),
         UNCHANGED <<conversation, message, last, inbox, begun>>, breaks' \in 0..MaxBreaks
  PROVE  CInv'
<1>1. NoCall \in CallType /\ Keeps(NoCall)' /\ NoCall.op # "touch"
  BY DEF CallType, Keeps, NoCall
<1>2. \A t : OfThread(t)' = OfThread(t)
  BY DEF OfThread
<1>3. /\ inbox' \subseteq InboxRow /\ Previews' /\ InboxHonest' /\ conversation' \subseteq Threads
      /\ begun' \in 0..MaxCalls
  BY <1>2, InboxStands DEF CInv, ChatShapes, ChatTypeOK
<1> QED
  BY <1>1, <1>3, CallGoes DEF Return

LEMMA BeginKeeps ==
  ASSUME CInv, NEW c \in Callers, NEW q \in CallType, Begin(c, q), q.op # "touch", Keeps(q)
  PROVE  CInv'
<1>1. \A t : OfThread(t)' = OfThread(t)
  BY DEF OfThread, Begin
<1>2. Sent' = Sent /\ Len(message') = Len(message)
  BY DEF Sent, Begin
<1>3. Keeps(q)'
  BY <1>1, <1>2 DEF Keeps, Begin, PreviewHonest, CountHonest, FromOther
<1>4. begun' \in 0..MaxCalls
  BY ConversationAssumption DEF CInv, ChatTypeOK, Begin
<1>5. /\ inbox' \subseteq InboxRow /\ Previews' /\ InboxHonest' /\ conversation' \subseteq Threads
      /\ breaks' \in 0..MaxBreaks
  BY <1>1, InboxStands DEF CInv, ChatShapes, ChatTypeOK, Begin
<1> QED
  BY <1>3, <1>4, <1>5, CallGoes DEF Begin

LEMMA BeginsKeep ==
  ASSUME CInv, NEW c \in Callers,
         \/ \E t \in Threads : \E s \in Parties(t) : BeginSend(c, t, s) \/ BeginList(c, t, s)
         \/ \E b \in BOOLEAN : BeginInbox(c, b)
  PROVE  CInv'
<1>0. Len(message) \in Nat /\ Sent \subseteq Nat
  BY MessagesNow DEF Sent
<1>1. ASSUME NEW t \in Threads, NEW s \in Parties(t), BeginSend(c, t, s) PROVE CInv'
  <2>1. PICK q : q = [op |-> "find", thread |-> t, side |-> s, msg |-> 0, after |-> Sent]
    OBVIOUS
  <2>2. q \in SendCall /\ q.op = "find"
    BY <1>0, <2>1, SidesOf DEF SendCall
  <2>3. Keeps(q)
    BY <2>1 DEF Keeps
  <2>4. Begin(c, q)
    BY <1>1, <2>1 DEF BeginSend, Sent
  <2> QED
    BY <2>2, <2>3, <2>4, BeginKeeps DEF CallType
<1>2. ASSUME NEW t \in Threads, NEW s \in Parties(t), BeginList(c, t, s) PROVE CInv'
  <2>1. PICK q : q = [op |-> "list", thread |-> t, side |-> s, shown |-> {}, had |-> Len(message)]
    OBVIOUS
  <2>2. q \in ListCall /\ q.op = "list"
    BY <1>0, <2>1, SidesOf DEF ListCall
  <2>3. Keeps(q)
    BY <1>0, <2>1 DEF Keeps
  <2>4. Begin(c, q)
    BY <1>2, <2>1 DEF BeginList
  <2> QED
    BY <2>2, <2>3, <2>4, BeginKeeps DEF CallType
<1>3. ASSUME NEW b \in BOOLEAN, BeginInbox(c, b) PROVE CInv'
  <2>1. PICK q : q = [op |-> "inbox", chats |-> b, rows |-> {}, had |-> Len(message)]
    OBVIOUS
  <2>2. q \in InboxCall /\ q.op = "inbox"
    BY <1>0, <2>1 DEF InboxCall
  <2>3. Keeps(q)
    BY <1>0, <2>1 DEF Keeps
  <2>4. Begin(c, q)
    BY <1>3, <2>1 DEF BeginInbox
  <2> QED
    BY <2>2, <2>3, <2>4, BeginKeeps DEF CallType
<1> QED
  BY <1>1, <1>2, <1>3

(* A request that reads: what it keeps is what there is.                   *)
LEMMA ReadKeeps ==
  ASSUME CInv, NEW c \in Callers, NEW q \in CallType, call' = [call EXCEPT ![c] = q], q.op # "touch",
         Keeps(q), UNCHANGED <<conversation, message, last, inbox, begun, breaks>>
  PROVE  CInv'
<1>1. \A t : OfThread(t)' = OfThread(t)
  BY DEF OfThread
<1>2. Sent' = Sent
  BY DEF Sent
<1>3. Keeps(q)'
  BY <1>1, <1>2 DEF Keeps, PreviewHonest, CountHonest, FromOther
<1>4. /\ inbox' \subseteq InboxRow /\ Previews' /\ InboxHonest' /\ conversation' \subseteq Threads
      /\ begun' \in 0..MaxCalls /\ breaks' \in 0..MaxBreaks
  BY <1>1, InboxStands DEF CInv, ChatShapes, ChatTypeOK
<1> QED
  BY <1>3, <1>4, CallGoes

LEMMA FindKeeps ==
  ASSUME CInv, NEW c \in Callers, FindThread(c)
  PROVE  CInv'
<1>1. call[c] \in SendCall /\ Keeps(call[c]) /\ call[c].op = "find"
  BY CallOf DEF FindThread
<1>2. PICK o \in {"write", "create"} : o = IF call[c].thread \in conversation THEN "write" ELSE "create"
  OBVIOUS
<1>3. PICK q : q = [call[c] EXCEPT !.op = o]
  OBVIOUS
<1>4. /\ q \in SendCall /\ q.op = o /\ q.thread = call[c].thread /\ q.side = call[c].side
      /\ q.after = call[c].after
  BY <1>1, <1>2, <1>3 DEF SendCall
<1>5. Keeps(q)
  BY <1>1, <1>2, <1>4 DEF Keeps
<1>6. call' = [call EXCEPT ![c] = q]
  BY <1>2, <1>3 DEF FindThread, To
<1> QED
  BY <1>4, <1>5, <1>6, ReadKeeps DEF CallType, FindThread, Quiet

LEMMA CreateKeeps ==
  ASSUME CInv, NEW c \in Callers, CreateThread(c)
  PROVE  CInv'
<1>1. call[c] \in SendCall /\ Keeps(call[c]) /\ call[c].op = "create"
  BY CallOf DEF CreateThread
<1>2. CASE call[c].thread \in conversation
  <2>1. conversation' = conversation
    BY <1>2 DEF CreateThread
  <2> QED
    BY <1>2, <2>1, CallReturns DEF CreateThread, Quiet, CInv, ChatTypeOK
<1>3. CASE call[c].thread \notin conversation
  <2>1. PICK q : q = [call[c] EXCEPT !.op = "write"]
    OBVIOUS
  <2>2. /\ q \in SendCall /\ q.op = "write" /\ q.thread = call[c].thread /\ q.side = call[c].side
        /\ q.after = call[c].after
    BY <1>1, <2>1, SendGoesOn
  <2>3. \A t : OfThread(t)' = OfThread(t)
    BY DEF OfThread, CreateThread
  <2>4. Sent' = Sent
    BY DEF Sent, CreateThread
  <2>5. q.thread \in conversation'
    BY <2>2 DEF CreateThread
  <2>6. Keeps(q)'
    BY <1>1, <2>2, <2>4, <2>5 DEF Keeps
  <2>7. call' = [call EXCEPT ![c] = q]
    BY <1>3, <2>1 DEF CreateThread, To
  <2>8. /\ inbox' \subseteq InboxRow /\ Previews' /\ InboxHonest' /\ conversation' \subseteq Threads
        /\ begun' \in 0..MaxCalls /\ breaks' \in 0..MaxBreaks /\ conversation \subseteq conversation'
        /\ UNCHANGED <<message, last>>
    BY <1>1, <2>3, InboxStands DEF CInv, ChatShapes, ChatTypeOK, CreateThread, Quiet, SendCall
  <2> QED
    BY <2>2, <2>6, <2>7, <2>8, CallGoes DEF CallType
<1> QED
  BY <1>2, <1>3

LEMMA OpenThreadKeeps ==
  ASSUME CInv, NEW c \in Callers, OpenThread(c)
  PROVE  CInv'
<1>1. call[c] \in ListCall /\ Keeps(call[c]) /\ call[c].op = "list"
  BY CallOf DEF OpenThread
<1>2. CASE call[c].thread \notin conversation
  BY <1>2, CallReturns DEF OpenThread, Quiet, CInv, ChatTypeOK
<1>3. CASE call[c].thread \in conversation
  <2>1. PICK q : q = [call[c] EXCEPT !.op = "show"]
    OBVIOUS
  <2>2. /\ q \in ListCall /\ q.op = "show" /\ q.thread = call[c].thread /\ q.side = call[c].side
        /\ q.had = call[c].had
    BY <1>1, <2>1 DEF ListCall
  <2>3. Keeps(q)
    BY <1>1, <2>2 DEF Keeps
  <2>4. call' = [call EXCEPT ![c] = q]
    BY <1>3, <2>1 DEF OpenThread, To
  <2> QED
    BY <2>2, <2>3, <2>4, ReadKeeps DEF CallType, OpenThread, Quiet
<1> QED
  BY <1>2, <1>3

LEMMA ReadThreadKeeps ==
  ASSUME CInv, NEW c \in Callers, ReadThread(c)
  PROVE  CInv'
<1>1. call[c] \in ListCall /\ Keeps(call[c]) /\ call[c].op = "show"
  BY CallOf DEF ReadThread
<1>2. PICK q : q = [call[c] EXCEPT !.op = "mark", !.shown = OfThread(call[c].thread)]
  OBVIOUS
<1>3. OfThread(call[c].thread) \in SUBSET Nat
  BY MessagesNow DEF OfThread
<1>4. /\ q \in ListCall /\ q.op = "mark" /\ q.thread = call[c].thread /\ q.side = call[c].side
      /\ q.shown = OfThread(call[c].thread) /\ q.had = call[c].had
  BY <1>1, <1>2, <1>3 DEF ListCall
<1>5. Keeps(q)
  BY <1>1, <1>4 DEF Keeps
<1>6. call' = [call EXCEPT ![c] = q]
  BY <1>2 DEF ReadThread
<1> QED
  BY <1>4, <1>5, <1>6, ReadKeeps DEF CallType, ReadThread, Quiet

LEMMA ListChatsKeeps ==
  ASSUME CInv, NEW c \in Callers, ListChats(c)
  PROVE  CInv'
<1>1. call[c] \in InboxCall /\ Keeps(call[c]) /\ call[c].op = "inbox" /\ call[c].chats
  BY CallOf DEF ListChats
<1>0. call[c].had \in Nat /\ call[c].had <= Len(message)
  BY <1>1 DEF InboxCall, Keeps
<1>2. PICK rows : rows = {[RowOf(t, call[c].had) EXCEPT !.unread = Unread(t)] :
                            t \in {u \in Chats : OfThread(u) # {}}}
  OBVIOUS
<1>3. \A r \in rows : r \in InboxRow /\ r.had <= Len(message) /\ OfThread(r.thread) # {} /\ CountHonest(r)
  <2> SUFFICES ASSUME NEW t \in Chats, OfThread(t) # {}, NEW r,
                      r = [RowOf(t, call[c].had) EXCEPT !.unread = Unread(t)]
               PROVE  r \in InboxRow /\ r.had <= Len(message) /\ OfThread(r.thread) # {} /\ CountHonest(r)
    BY <1>2
  <2>1. r = [thread |-> t, preview |-> 0, unread |-> Unread(t), had |-> call[c].had]
    BY DEF RowOf
  <2>2. t \in Threads /\ Unread(t) \in Nat
    BY UnreadCounts, ConversationAssumption
  <2>3. CountHonest(r)
    BY <2>1, UnreadCounts DEF CountHonest
  <2> QED
    BY <1>0, <2>1, <2>2, <2>3 DEF InboxRow
<1>4. PICK q : q = [call[c] EXCEPT !.op = "preview", !.rows = rows]
  OBVIOUS
<1>5. q \in InboxCall /\ q.op = "preview" /\ q.rows = rows
  <2>1. rows \in SUBSET InboxRow
    BY <1>3
  <2> QED
    BY <1>1, <1>4, <2>1 DEF InboxCall
<1>6. Keeps(q)
  BY <1>3, <1>5 DEF Keeps
<1>7. call' = [call EXCEPT ![c] = q]
  BY <1>2, <1>4 DEF ListChats
<1> QED
  BY <1>5, <1>6, <1>7, ReadKeeps DEF CallType, ListChats, Quiet

LEMMA ReadInboxKeeps ==
  ASSUME CInv, NEW c \in Callers, ReadInbox(c)
  PROVE  CInv'
<1>1. call[c] \in InboxCall /\ Keeps(call[c]) /\ call[c].op = "inbox" /\ ~ call[c].chats
  BY CallOf DEF ReadInbox
<1>0. call[c].had \in Nat /\ call[c].had <= Len(message)
  BY <1>1 DEF InboxCall, Keeps
<1>2. PICK rows : rows = {RowOf(t, call[c].had) : t \in {u \in Threads \ Chats : OfThread(u) # {} /\ last[u] # 0}}
  OBVIOUS
<1>3. \A r \in rows : r \in InboxRow /\ r.had <= Len(message) /\ OfThread(r.thread) # {}
  BY <1>0, <1>2 DEF RowOf, InboxRow
<1>4. PICK q : q = [call[c] EXCEPT !.op = "preview", !.rows = rows]
  OBVIOUS
<1>5. q \in InboxCall /\ q.op = "preview" /\ q.rows = rows /\ ~ q.chats
  <2>1. rows \in SUBSET InboxRow
    BY <1>3
  <2> QED
    BY <1>1, <1>4, <2>1 DEF InboxCall
<1>6. Keeps(q)
  BY <1>3, <1>5 DEF Keeps
<1>7. call' = [call EXCEPT ![c] = q]
  BY <1>2, <1>4 DEF ReadInbox
<1> QED
  BY <1>5, <1>6, <1>7, ReadKeeps DEF CallType, ReadInbox, Quiet

(* The newest message of a thread, as the preview of its row.              *)
LEMMA PreviewOf ==
  ASSUME CInv, NEW r \in InboxRow, OfThread(r.thread) # {}, r.had <= Len(message), NEW w,
         w = [r EXCEPT !.preview = Newest(OfThread(r.thread))]
  PROVE  /\ w \in InboxRow /\ w.thread = r.thread /\ w.had = r.had /\ w.unread = r.unread
         /\ w.preview \in OfThread(w.thread) /\ PreviewHonest(w)
         /\ CountHonest(r) => CountHonest(w)
<1>1. Newest(OfThread(r.thread)) \in OfThread(r.thread)
  BY NewestOf
<1>2. Newest(OfThread(r.thread)) \in Nat
  BY <1>1, MessagesNow DEF OfThread
<1>3. /\ w \in InboxRow /\ w.thread = r.thread /\ w.had = r.had /\ w.unread = r.unread
      /\ w.preview = Newest(OfThread(r.thread))
  BY <1>2 DEF InboxRow
<1>4. PreviewHonest(w)
  BY <1>3, NewestIsLast DEF PreviewHonest
<1>5. CountHonest(r) => CountHonest(w)
  BY <1>3 DEF CountHonest
<1> QED
  BY <1>1, <1>3, <1>4, <1>5

(* An inbox is answered.                                                   *)
LEMMA InboxAnswered ==
  ASSUME CInv, NEW c \in Callers, Return(c), UNCHANGED <<conversation, message, last>>, Quiet,
         \A r \in inbox' : /\ r \in InboxRow /\ r.preview \in OfThread(r.thread) /\ r.had <= Len(message)
                           /\ PreviewHonest(r) /\ CountHonest(r)
  PROVE  CInv'
<1>1. \A t : OfThread(t)' = OfThread(t)
  BY DEF OfThread
<1>2. NoCall \in CallType /\ Keeps(NoCall)' /\ NoCall.op # "touch"
  BY DEF CallType, Keeps, NoCall
<1>3. inbox' \subseteq InboxRow /\ Previews'
  BY <1>1 DEF Previews
<1>4. InboxHonest'
  BY <1>1 DEF InboxHonest, PreviewHonest, CountHonest, FromOther
<1>5. conversation' \subseteq Threads /\ begun' \in 0..MaxCalls /\ breaks' \in 0..MaxBreaks
  BY DEF CInv, ChatTypeOK, Quiet
<1> QED
  BY <1>2, <1>3, <1>4, <1>5, CallGoes DEF Return

LEMMA PreviewChatsKeeps ==
  ASSUME CInv, NEW c \in Callers, PreviewChats(c)
  PROVE  CInv'
<1>1. call[c] \in InboxCall /\ Keeps(call[c]) /\ call[c].op = "preview" /\ call[c].chats
  BY CallOf DEF PreviewChats
<1>2. ASSUME NEW w \in inbox'
      PROVE  /\ w \in InboxRow /\ w.preview \in OfThread(w.thread) /\ w.had <= Len(message)
             /\ PreviewHonest(w) /\ CountHonest(w)
  <2>1. PICK r \in call[c].rows : w = [r EXCEPT !.preview = Newest(OfThread(r.thread))]
    BY <1>2 DEF PreviewChats, Previewed
  <2>2. r \in InboxRow /\ r.had <= Len(message) /\ OfThread(r.thread) # {} /\ CountHonest(r)
    BY <1>1 DEF Keeps, InboxCall
  <2> QED
    BY <2>1, <2>2, PreviewOf
<1> QED
  BY <1>2, InboxAnswered DEF PreviewChats

LEMMA PreviewInboxKeeps ==
  ASSUME CInv, NEW c \in Callers, PreviewInbox(c)
  PROVE  CInv'
<1>1. call[c] \in InboxCall /\ Keeps(call[c]) /\ call[c].op = "preview"
  BY CallOf DEF PreviewInbox
<1>2. PICK rows : rows = Previewed(call[c].rows)
  OBVIOUS
<1>3. ASSUME NEW w \in rows
      PROVE  /\ w \in InboxRow /\ w.preview \in OfThread(w.thread) /\ w.had <= Len(message)
             /\ PreviewHonest(w)
  <2>1. PICK r \in call[c].rows : w = [r EXCEPT !.preview = Newest(OfThread(r.thread))]
    BY <1>2, <1>3 DEF Previewed
  <2>2. r \in InboxRow /\ r.had <= Len(message) /\ OfThread(r.thread) # {}
    BY <1>1 DEF Keeps, InboxCall
  <2> QED
    BY <2>1, <2>2, PreviewOf
<1>4. PICK q : q = [call[c] EXCEPT !.op = "count", !.rows = rows]
  OBVIOUS
<1>5. q \in InboxCall /\ q.op = "count" /\ q.rows = rows
  <2>1. rows \in SUBSET InboxRow
    BY <1>3
  <2> QED
    BY <1>1, <1>4, <2>1 DEF InboxCall
<1>6. Keeps(q)
  BY <1>3, <1>5 DEF Keeps
<1>7. call' = [call EXCEPT ![c] = q]
  BY <1>2, <1>4 DEF PreviewInbox
<1> QED
  BY <1>5, <1>6, <1>7, ReadKeeps DEF CallType, PreviewInbox, Quiet

LEMMA CountKeeps ==
  ASSUME CInv, NEW c \in Callers, CountUnread(c)
  PROVE  CInv'
<1>1. call[c] \in InboxCall /\ Keeps(call[c]) /\ call[c].op = "count"
  BY CallOf DEF CountUnread
<1>2. ASSUME NEW w \in inbox'
      PROVE  /\ w \in InboxRow /\ w.preview \in OfThread(w.thread) /\ w.had <= Len(message)
             /\ PreviewHonest(w) /\ CountHonest(w)
  <2>1. PICK r \in call[c].rows : w = [r EXCEPT !.unread = Unread(r.thread)]
    BY <1>2 DEF CountUnread
  <2>2. r \in InboxRow /\ r.had <= Len(message) /\ r.preview \in OfThread(r.thread) /\ PreviewHonest(r)
    BY <1>1 DEF Keeps, InboxCall
  <2>3. Unread(r.thread) \in Nat
    BY UnreadCounts
  <2>4. /\ w \in InboxRow /\ w.thread = r.thread /\ w.had = r.had /\ w.preview = r.preview
        /\ w.unread = Unread(r.thread)
    BY <2>1, <2>2, <2>3 DEF InboxRow
  <2>5. PreviewHonest(w)
    BY <2>2, <2>4 DEF PreviewHonest
  <2>6. CountHonest(w)
    BY <2>4, UnreadCounts DEF CountHonest
  <2> QED
    BY <2>2, <2>4, <2>5, <2>6
<1> QED
  BY <1>2, InboxAnswered DEF CountUnread

-----------------------------------------------------------------------------
(* The requests that write.                                                *)
LEMMA WriteKeeps ==
  ASSUME CInv, NEW c \in Callers, WriteMessage(c)
  PROVE  CInv'
<1>0. Len(message) \in Nat /\ message \in Seq(MessageRow)
  BY MessagesNow DEF CInv, ChatShapes
<1>1. call[c] \in SendCall /\ Keeps(call[c]) /\ call[c].op = "write"
  BY CallOf DEF WriteMessage
<1>2. PICK m : m = [thread |-> call[c].thread, from |-> call[c].side, readAt |-> Never,
                    seen |-> FALSE, sent |-> FALSE, after |-> call[c].after]
  OBVIOUS
<1>3. m \in MessageRow /\ m.thread \in conversation /\ m.from \in Parties(m.thread) /\ m.after \subseteq Sent
  BY <1>1, <1>2 DEF MessageRow, Mark0, Never, SendCall, Keeps
<1>4. /\ message' = Append(message, m) /\ message' \in Seq(MessageRow) /\ Len(message') = Len(message) + 1
      /\ \A i \in 1..Len(message) : message'[i] = message[i]
      /\ message'[Len(message) + 1] = m
  <2>1. message' = Append(message, m)
    BY <1>2 DEF WriteMessage
  <2> QED
    BY <1>0, <1>3, <2>1, AppendProperties
<1>5. 1..Len(message') = 1..Len(message) \cup {Len(message) + 1}
  BY <1>0, <1>4
<1>6. Grows
  BY <1>0, <1>4 DEF Grows
<1>7. Sent' = Sent
  <2>1. m.sent = FALSE /\ ~ m.sent
    BY <1>2
  <2> QED
    BY <1>0, <1>4, <1>5, <2>1 DEF Sent
<1>8. PICK q : q = [call[c] EXCEPT !.op = "touch", !.msg = Len(message) + 1]
  OBVIOUS
<1>8a. PICK n \in Nat : n = Len(message) + 1
  BY <1>0
<1>9. /\ q \in SendCall /\ q.op = "touch" /\ q.thread = call[c].thread /\ q.side = call[c].side
      /\ q.msg = Len(message) + 1 /\ q.after = call[c].after
  <2>1. q = [call[c] EXCEPT !.op = "touch", !.msg = n]
    BY <1>8, <1>8a
  <2>2. /\ q \in SendCall /\ q.op = "touch" /\ q.thread = call[c].thread /\ q.side = call[c].side
        /\ q.msg = n /\ q.after = call[c].after
    BY <1>1, <2>1 DEF SendCall
  <2> QED
    BY <1>8a, <2>2
<1>10. q.msg \in OfThread(q.thread)' /\ q.msg \notin Sent'
  <2>1. m.thread = q.thread
    BY <1>2, <1>9
  <2>2. q.msg \in 1..Len(message')
    BY <1>0, <1>4, <1>9
  <2>3. q.msg \notin Sent
    BY <1>0, <1>9 DEF Sent
  <2> QED
    BY <1>4, <1>7, <1>9, <2>1, <2>2, <2>3 DEF OfThread
<1>11. Keeps(q)'
  <2>1. q.side \in Parties(q.thread) /\ q.after \subseteq Sent' /\ q.thread \in conversation'
    BY <1>1, <1>7, <1>9 DEF Keeps, WriteMessage
  <2> QED
    BY <1>9, <1>10, <2>1 DEF Keeps
<1>12. call' = [call EXCEPT ![c] = q]
  BY <1>8 DEF WriteMessage
<1>13. \A d \in Callers : d # c /\ call[d].op = "touch" => call[d].msg \notin Sent'
  BY <1>7, CallOf DEF Keeps
<1>14. ChatShapes' /\ CallsKeep' /\ Previews' /\ InboxHonest'
  BY <1>6, <1>9, <1>11, <1>12, <1>13, Written DEF CallType, WriteMessage
<1>15. OwnMessages'
  <2>1. call' = [d \in Callers |-> IF d = c THEN q ELSE call[d]]
    BY <1>12 DEF CInv, ChatShapes
  <2>2. \A d \in Callers : call[d].op = "touch" => call[d].msg \in 1..Len(message)
    BY CallOf DEF Keeps, OfThread
  <2>3. \A d \in Callers : call[d].op = "touch" => call[d].msg # q.msg
    BY <1>0, <1>9, <2>2
  <2> QED
    BY <2>1, <2>3 DEF CInv, OwnMessages
<1>16. ChatTypeOK'
  <2>1. ASSUME NEW i \in 1..Len(message')
        PROVE  /\ message'[i].thread \in conversation /\ message'[i].from \in Parties(message'[i].thread)
               /\ message'[i].after \subseteq 1..i - 1
    <3>1. CASE i \in 1..Len(message)
      BY <1>4, <3>1 DEF CInv, ChatTypeOK
    <3>2. CASE i = Len(message) + 1
      <4>1. Sent \subseteq 1..i - 1
        BY <1>0, <3>2 DEF Sent
      <4> QED
        BY <1>3, <1>4, <3>2, <4>1
    <3> QED
      BY <1>5, <3>1, <3>2
  <2>2. last' \in [Threads -> 0..Len(message')]
    <3>1. 0..Len(message) \subseteq 0..Len(message')
      BY <1>0, <1>4
    <3> QED
      BY <3>1 DEF CInv, ChatTypeOK, WriteMessage
  <2> QED
    BY <2>1, <2>2 DEF CInv, ChatTypeOK, WriteMessage, Quiet
<1>17. AfterSent'
  BY <1>3, <1>4, <1>5, <1>7 DEF CInv, AfterSent
<1>18. LastMessageFollows'
  <2> SUFFICES ASSUME NEW t \in Threads
               PROVE  /\ last[t] # 0 => last[t] \in OfThread(t)'
                      /\ \A i \in OfThread(t)' : message'[i].sent => last[t] # 0 /\ last[t] \notin message'[i].after
    BY DEF LastMessageFollows, WriteMessage
  <2>1. last[t] # 0 => last[t] \in OfThread(t)'
    BY <1>6, GrownThreads DEF CInv, LastMessageFollows
  <2>2. ASSUME NEW i \in OfThread(t)', message'[i].sent
        PROVE  last[t] # 0 /\ last[t] \notin message'[i].after
    <3>1. i \in 1..Len(message)
      BY <1>2, <1>4, <1>5, <2>2 DEF OfThread
    <3>2. i \in OfThread(t)
      BY <1>4, <2>2, <3>1 DEF OfThread
    <3> QED
      BY <1>4, <2>2, <3>1, <3>2 DEF CInv, LastMessageFollows
  <2> QED
    BY <2>1, <2>2
<1>19. MarkedOnOpening'
  <2>1. m.readAt = Never /\ m.seen = FALSE
    BY <1>2
  <2> QED
    BY <1>4, <1>5, <2>1 DEF CInv, MarkedOnOpening
<1> QED
  BY <1>14, <1>15, <1>16, <1>17, <1>18, <1>19 DEF CInv

(* A step that changes messages and adds none.                             *)
LEMMA ChangeKeeps ==
  ASSUME CInv, NEW c \in Callers, Return(c), Quiet, UNCHANGED <<conversation, inbox>>,
         message' \in Seq(MessageRow), Len(message') = Len(message),
         \A i \in 1..Len(message) : /\ message'[i].thread = message[i].thread /\ message'[i].from = message[i].from
                                    /\ message'[i].after = message[i].after
                                    /\ message[i].sent => message'[i].sent
                                    /\ message[i].readAt # Never => message'[i].readAt # Never,
         \A d \in Callers : d # c /\ call[d].op = "touch" => call[d].msg \notin Sent',
         last' \in [Threads -> 0..Len(message)], LastMessageFollows', MarkedOnOpening'
  PROVE  CInv'
<1>0. Len(message) \in Nat
  BY MessagesNow
<1>1. Grows
  BY <1>0 DEF Grows
<1>2. NoCall \in CallType /\ Keeps(NoCall)' /\ NoCall.op # "touch"
  BY DEF CallType, Keeps, NoCall
<1>3. call' = [call EXCEPT ![c] = NoCall]
  BY DEF Return
<1>4. ChatShapes' /\ CallsKeep' /\ Previews' /\ InboxHonest'
  BY <1>1, <1>2, <1>3, Written
<1>5. OwnMessages'
  <2>1. call' = [d \in Callers |-> IF d = c THEN NoCall ELSE call[d]]
    BY <1>3 DEF CInv, ChatShapes
  <2> QED
    BY <1>2, <2>1 DEF CInv, OwnMessages
<1>6. ChatTypeOK'
  BY DEF CInv, ChatTypeOK, Quiet
<1>7. AfterSent'
  BY <1>1, GrownThreads DEF CInv, AfterSent
<1> QED
  BY <1>4, <1>5, <1>6, <1>7 DEF CInv

LEMMA TouchKeeps ==
  ASSUME CInv, NEW c \in Callers, Touch(c)
  PROVE  CInv'
<1>0. Len(message) \in Nat /\ message \in Seq(MessageRow) /\ call[c].op = "touch"
  BY MessagesNow DEF CInv, ChatShapes, Touch
<1>1. call[c] \in SendCall /\ Keeps(call[c])
  BY <1>0, CallOf
<1>2. PICK m \in 1..Len(message) : m = call[c].msg
  BY <1>0, <1>1 DEF Keeps, OfThread
<1>3. PICK t \in Threads : t = call[c].thread
  BY <1>1 DEF SendCall
<1>4. m \in OfThread(t) /\ m \notin Sent /\ t \in conversation
  BY <1>0, <1>1, <1>2, <1>3 DEF Keeps
<1>5. PICK w : w = [message[m] EXCEPT !.sent = TRUE]
  OBVIOUS
<1>6. /\ w \in MessageRow /\ w.thread = message[m].thread /\ w.from = message[m].from
      /\ w.after = message[m].after /\ w.readAt = message[m].readAt /\ w.seen = message[m].seen /\ w.sent
  BY <1>5, MessagesNow DEF MessageRow
<1>7. /\ message' \in Seq(MessageRow) /\ Len(message') = Len(message)
      /\ \A i \in 1..Len(message) : message'[i] = IF i = m THEN w ELSE message[i]
  <2>1. message' = [message EXCEPT ![m] = w]
    BY <1>2, <1>5 DEF Touch
  <2> QED
    BY <1>0, <1>6, <2>1, ExceptSeq
<1>8. \A i \in 1..Len(message) : /\ message'[i].thread = message[i].thread /\ message'[i].from = message[i].from
                                 /\ message'[i].after = message[i].after
                                 /\ message[i].sent => message'[i].sent
                                 /\ message'[i].readAt = message[i].readAt /\ message'[i].seen = message[i].seen
  BY <1>6, <1>7
<1>9. Sent' = Sent \cup {m}
  BY <1>6, <1>7 DEF Sent
<1>10. \A t2 : OfThread(t2)' = OfThread(t2)
  BY <1>7, <1>8 DEF OfThread
<1>11. last' = [u \in Threads |-> IF u = t THEN m ELSE last[u]]
  BY <1>2, <1>3 DEF Touch, CInv, ChatTypeOK
<1>12. last' \in [Threads -> 0..Len(message)]
  BY <1>0, <1>11 DEF CInv, ChatTypeOK
<1>13. ASSUME NEW d \in Callers, d # c, call[d].op = "touch" PROVE call[d].msg \notin Sent'
  <2>1. call[d].msg \notin Sent
    BY <1>13, CallOf DEF Keeps
  <2>2. call[d].msg # m
    BY <1>0, <1>2, <1>13 DEF CInv, OwnMessages
  <2> QED
    BY <1>9, <2>1, <2>2
<1>14. LastMessageFollows'
  <2> SUFFICES ASSUME NEW u \in Threads
               PROVE  /\ last'[u] # 0 => last'[u] \in OfThread(u)
                      /\ \A i \in OfThread(u) : message'[i].sent => last'[u] # 0 /\ last'[u] \notin message'[i].after
    BY <1>10 DEF LastMessageFollows
  <2>1. CASE u = t
    <3>1. last'[u] = m /\ m # 0
      BY <1>11, <2>1
    <3>2. ASSUME NEW i \in OfThread(u) PROVE m \notin message'[i].after
      <4>1. message[i].after \subseteq Sent /\ i \in 1..Len(message)
        BY <3>2 DEF CInv, AfterSent, OfThread
      <4> QED
        BY <1>4, <1>8, <4>1
    <3> QED
      BY <1>4, <2>1, <3>1, <3>2
  <2>2. CASE u # t
    <3>1. last'[u] = last[u]
      BY <1>11, <2>2
    <3>2. ASSUME NEW i \in OfThread(u) PROVE i \in 1..Len(message) /\ message'[i] = message[i]
      BY <1>4, <1>7, <2>2, <3>2 DEF OfThread
    <3> QED
      BY <3>1, <3>2 DEF CInv, LastMessageFollows
  <2> QED
    BY <2>1, <2>2
<1>15. MarkedOnOpening'
  BY <1>7, <1>8 DEF CInv, MarkedOnOpening
<1> QED
  BY <1>7, <1>8, <1>12, <1>13, <1>14, <1>15, ChangeKeeps DEF Touch

LEMMA MarkKeeps ==
  ASSUME CInv, NEW c \in Callers, Mark(c)
  PROVE  CInv'
<1>0. Len(message) \in Nat /\ message \in Seq(MessageRow) /\ call[c].op = "mark"
  BY MessagesNow DEF CInv, ChatShapes, Mark
<1>1. call[c] \in ListCall /\ Keeps(call[c])
  BY <1>0, CallOf
<1>2. PICK t, side, shown, had : t = call[c].thread /\ side = call[c].side /\ shown = call[c].shown /\ had = call[c].had
  OBVIOUS
<1>3. /\ t \in Threads /\ side \in Sides /\ had \in Nat /\ shown \subseteq OfThread(t)
      /\ \A i \in OfThread(t) : i <= had => i \in shown
  BY <1>0, <1>1, <1>2 DEF Keeps, ListCall
<1> DEFINE unread == {i \in FromOther(side, OfThread(t)) : message[i].readAt = Never}
           rowOf(i) == [message[i] EXCEPT !.readAt = IF i \in unread THEN [by |-> side, had |-> had] ELSE @,
                                          !.seen = @ \/ (i \in shown /\ message[i].from # side)]
<1>4. message' = [i \in 1..Len(message) |-> rowOf(i)]
  BY <1>2 DEF Mark
<1>5. ASSUME NEW i \in 1..Len(message)
      PROVE  /\ rowOf(i) \in MessageRow
             /\ rowOf(i).thread = message[i].thread /\ rowOf(i).from = message[i].from
             /\ rowOf(i).after = message[i].after /\ rowOf(i).sent = message[i].sent
             /\ rowOf(i).readAt = IF i \in unread THEN [by |-> side, had |-> had] ELSE message[i].readAt
             /\ rowOf(i).seen <=> message[i].seen \/ (i \in shown /\ message[i].from # side)
  <2>1. PICK mark : mark = IF i \in unread THEN [by |-> side, had |-> had] ELSE message[i].readAt
    OBVIOUS
  <2>2. PICK seen \in BOOLEAN : seen <=> message[i].seen \/ (i \in shown /\ message[i].from # side)
    OBVIOUS
  <2>3. message[i] \in MessageRow /\ message[i].readAt \in Mark0 /\ message[i].seen \in BOOLEAN
    BY MessagesNow
  <2>4. mark \in Mark0
    BY <1>3, <2>1, <2>3 DEF Mark0
  <2>5. seen = (message[i].seen \/ (i \in shown /\ message[i].from # side))
    BY <2>2, <2>3
  <2>6. rowOf(i) = [message[i] EXCEPT !.readAt = mark, !.seen = seen]
    BY <2>1, <2>3, <2>5 DEF MessageRow
  <2> HIDE DEF rowOf
  <2>7. /\ rowOf(i) \in MessageRow
        /\ rowOf(i).thread = message[i].thread /\ rowOf(i).from = message[i].from
        /\ rowOf(i).after = message[i].after /\ rowOf(i).sent = message[i].sent
        /\ rowOf(i).readAt = mark /\ rowOf(i).seen = seen
    BY <2>2, <2>3, <2>4, <2>6 DEF MessageRow
  <2> QED
    BY <2>1, <2>2, <2>7
<1> HIDE DEF rowOf
<1>6. message' \in Seq(MessageRow) /\ Len(message') = Len(message)
  <2>1. message' \in [1..Len(message) -> MessageRow]
    BY <1>4, <1>5
  <2> QED
    BY <1>0, <2>1
<1>7. \A i \in 1..Len(message) : message'[i] = rowOf(i)
  BY <1>4
<1>8. [by |-> side, had |-> had] # Never /\ [by |-> side, had |-> had].by = side /\ [by |-> side, had |-> had].had = had
  BY <1>3 DEF Never, Sides
<1>9. \A i \in 1..Len(message) : i \in unread <=> message[i].thread = t /\ message[i].from # side /\ message[i].readAt = Never
  BY DEF FromOther, OfThread
<1>10. \A i \in 1..Len(message) : /\ message'[i].thread = message[i].thread /\ message'[i].from = message[i].from
                                  /\ message'[i].after = message[i].after /\ message'[i].sent = message[i].sent
                                  /\ message[i].readAt # Never => message'[i].readAt # Never
  BY <1>5, <1>7, <1>9
<1>11. Sent' = Sent
  BY <1>6, <1>10 DEF Sent
<1>12. \A d \in Callers : d # c /\ call[d].op = "touch" => call[d].msg \notin Sent'
  BY <1>11, CallOf DEF Keeps
<1>13. \A u : OfThread(u)' = OfThread(u)
  BY <1>6, <1>10 DEF OfThread
<1>14. LastMessageFollows'
  <2>1. \A u \in Threads : \A i \in OfThread(u) : i \in 1..Len(message)
    BY DEF OfThread
  <2> QED
    BY <1>10, <1>13, <2>1 DEF CInv, LastMessageFollows, Mark
<1>15. MarkedOnOpening'
  <2> SUFFICES ASSUME NEW i \in 1..Len(message)
               PROVE  /\ message'[i].readAt # Never => /\ message'[i].readAt.by # message'[i].from
                                                       /\ message'[i].seen \/ i > message'[i].readAt.had
                      /\ message'[i].seen => message'[i].readAt # Never
    BY <1>6 DEF MarkedOnOpening
  <2>1. /\ message[i].readAt # Never => /\ message[i].readAt.by # message[i].from
                                        /\ message[i].seen \/ i > message[i].readAt.had
        /\ message[i].seen => message[i].readAt # Never
    BY DEF CInv, MarkedOnOpening
  <2>2. /\ message'[i].readAt = IF i \in unread THEN [by |-> side, had |-> had] ELSE message[i].readAt
        /\ message'[i].seen <=> message[i].seen \/ (i \in shown /\ message[i].from # side)
        /\ message'[i].from = message[i].from
    BY <1>5, <1>7
  <2>3. i \in shown => message[i].thread = t
    BY <1>3 DEF OfThread
  <2>4. CASE i \in unread
    <3>1. message[i].thread = t /\ message[i].from # side /\ i \in OfThread(t)
      BY <1>9, <2>4 DEF OfThread
    <3>2. i <= had => i \in shown
      BY <1>3, <3>1
    <3> QED
      BY <1>3, <1>8, <2>2, <2>4, <3>1, <3>2
  <2>5. CASE i \notin unread
    BY <1>9, <2>1, <2>2, <2>3, <2>5
  <2> QED
    BY <2>4, <2>5
<1>16. last' \in [Threads -> 0..Len(message)]
  BY DEF CInv, ChatTypeOK, Mark
<1> QED
  BY <1>6, <1>10, <1>12, <1>14, <1>15, <1>16, ChangeKeeps DEF Mark

-----------------------------------------------------------------------------
LEMMA ChatStep == CInv /\ [ChatNext]_chatVars => CInv'
<1> SUFFICES ASSUME CInv, [ChatNext]_chatVars PROVE CInv'
  OBVIOUS
<1>1. ASSUME NEW c \in Callers,
             \/ \E t \in Threads : \E s \in Parties(t) : BeginSend(c, t, s) \/ BeginList(c, t, s)
             \/ \E b \in BOOLEAN : BeginInbox(c, b)
      PROVE  CInv'
  BY <1>1, BeginsKeep
<1>2. ASSUME NEW c \in Callers, FindThread(c) \/ CreateThread(c) \/ WriteMessage(c) \/ Touch(c) PROVE CInv'
  BY <1>2, FindKeeps, CreateKeeps, WriteKeeps, TouchKeeps
<1>3. ASSUME NEW c \in Callers,
             \/ OpenThread(c) \/ ReadThread(c) \/ Mark(c) \/ ListChats(c) \/ PreviewChats(c)
             \/ ReadInbox(c) \/ PreviewInbox(c) \/ CountUnread(c)
      PROVE  CInv'
  BY <1>3, OpenThreadKeeps, ReadThreadKeeps, MarkKeeps, ListChatsKeeps, PreviewChatsKeeps, ReadInboxKeeps,
     PreviewInboxKeeps, CountKeeps
<1>4. ASSUME NEW c \in Callers, Break(c) PROVE CInv'
  <2>1. breaks' \in 0..MaxBreaks
    BY <1>4, ConversationAssumption DEF CInv, ChatTypeOK, Break
  <2> QED
    BY <1>4, <2>1, CallReturns DEF Break
<1>5. CASE UNCHANGED chatVars
  BY <1>5 DEF chatVars, CInv, ChatTypeOK, ChatShapes, CallsKeep, Keeps, OwnMessages, AfterSent, Previews, Sent,
              LastMessageFollows, MarkedOnOpening, InboxHonest, OfThread, PreviewHonest, CountHonest, FromOther
<1>6. CASE ChangeFeature
  <2>1. breaks' \in 0..MaxBreaks
    BY <1>6, ConversationAssumption DEF CInv, ChatTypeOK, ChangeFeature
  <2> QED
    BY <1>6, <2>1 DEF ChangeFeature, CInv, ChatTypeOK, ChatShapes, CallsKeep, Keeps, OwnMessages, AfterSent,
                      Previews, Sent, LastMessageFollows, MarkedOnOpening, InboxHonest, OfThread,
                      PreviewHonest, CountHonest, FromOther
<1> QED
  BY <1>1, <1>2, <1>3, <1>4, <1>5, <1>6 DEF ChatNext

-----------------------------------------------------------------------------
(* What the requests carry from what they read to what they write. *)
Change      == [cost : Nat \cup {Same}, open : {"yes", "no", "same"}]
CityQuery   == [op : {"findCity", "insertCity"}, gov : Governorates, left : Seq(Offers), active : BOOLEAN]
CityNames   == [name : Names, latin : Latins]
EditQuery   == [op : {"findOther", "editCity"}, about : Cities, gov : Governorates, entry : CityNames,
                form : EditForm, active : BOOLEAN]
WideQuery   == [op : {"setWide"}, gov : Governorates, cost : Nat, row : SUBSET Rate]
PutQuery    == [op : {"put"}, targets : SUBSET [gov : Governorates, city : Cities], change : Change]
HomeQuery   == [op : {"saveHome"}, gov : Governorates, city : Cities \cup {Whole}]
OrderQuery  == [op : {"order"}, city : Cities]
Instant     == Nat \cup {NotYet}
RemoveQuery == [op : {"removeCity"}, about : Cities, rates : Instant, orders : Instant, homes : Instant]

Carries(q) ==
  /\ q.op \in {"findCity", "insertCity"} => q \in CityQuery
  /\ q.op = "insertCity" => q.left # <<>>
  /\ q.op \in {"findOther", "editCity"} => q \in EditQuery
  /\ q.op = "setWide" => q \in WideQuery
  /\ q.op = "put" => q \in PutQuery /\ \A t, u \in q.targets : t.city = u.city => t = u
  /\ q.op = "saveHome" => q \in HomeQuery
  /\ q.op = "order" => q \in OrderQuery
  /\ q.op = "removeCity" => q \in RemoveQuery

Home  == [gov : Governorates, city : Cities \cup {Whole}, at : Nat]
Order == [city : Cities \cup {Whole}, at : Nat]

Typed ==
  /\ city \in [Cities -> Row]
  /\ zones \subseteq Rate /\ ordered \subseteq Order /\ saves \in Nat
  /\ home # NoHome => home \in Home
  /\ ask = [r \in Askers |-> ask[r]]
  /\ \A r \in Askers : Carries(ask[r])

(* Every row came with a write that was made, and is told from the others. *)
Dated ==
  /\ \A z \in zones : z.at <= saves
  /\ \A o \in ordered : o.at <= saves
  /\ home # NoHome => home.at <= saves
  /\ \A y, z \in zones : SameRow(y, z) => y = z

(* What names a city that is to be deleted came after its table's count. *)
After(q) ==
  q.op = "removeCity" =>
    /\ q.rates # NotYet =>
         q.rates <= saves /\ \A z \in zones : z.city = q.about => q.rates < z.at
    /\ q.orders # NotYet =>
         q.orders <= saves /\ \A o \in ordered : o.city = q.about => q.orders < o.at
    /\ q.homes # NotYet =>
         q.homes <= saves /\ (home # NoHome /\ home.city = q.about => q.homes < home.at)
CountedFirst == \A r \in Askers : After(ask[r])

DInv == Typed /\ Dated /\ OneRatePerCity /\ CountedFirst

-----------------------------------------------------------------------------
LEMMA InitInv == DeliveryInit => DInv
<1> SUFFICES ASSUME DeliveryInit PROVE DInv
  OBVIOUS
<1> USE LocationsAssumption, DeliveryAssumption DEF DeliveryInit, CitiesInit
<1>1. Typed
  BY DEF Typed, Carries, NoAsk
<1>2. Dated
  BY DEF Dated, SameRow, Rate
<1>3. OneRatePerCity
  BY DEF OneRatePerCity
<1>4. CountedFirst
  BY DEF CountedFirst, After, NoAsk
<1> QED
  BY <1>1, <1>2, <1>3, <1>4 DEF DInv

(* A request that begins changes no row. *)
LEMMA Begins ==
  ASSUME DInv, NEW r \in Askers, NEW q, Ask(r, q), Reads, Carries(q), After(q)
  PROVE  DInv'
<1>1. ask' = [s \in Askers |-> IF s = r THEN q ELSE ask[s]]
  BY DEF Ask, DInv, Typed
<1>2. Typed'
  <2>1. \A s \in Askers : Carries(ask'[s])
    BY <1>1 DEF DInv, Typed
  <2>2. ask' = [s \in Askers |-> ask'[s]]
    BY <1>1
  <2> QED
    BY <2>1, <2>2 DEF DInv, Typed, Reads, Carries
<1>3. Dated' /\ OneRatePerCity'
  BY DEF DInv, Dated, OneRatePerCity, SameRow, Reads
<1>4. CountedFirst'
  BY <1>1 DEF DInv, CountedFirst, After, Reads
<1> QED
  BY <1>2, <1>3, <1>4 DEF DInv

(* A request that goes on with a query, and changes no row but a city's. *)
LEMMA WentOn ==
  ASSUME DInv, NEW r \in Askers, NEW q, GoOn(r, q), Carries(q), After(q),
         UNCHANGED <<zones, home, ordered, saves>>, city' \in [Cities -> Row]
  PROVE  DInv'
<1>1. ask' = [s \in Askers |-> IF s = r THEN q ELSE ask[s]]
  BY DEF GoOn, DInv, Typed
<1>2. Typed'
  <2>1. \A s \in Askers : Carries(ask'[s])
    BY <1>1 DEF DInv, Typed
  <2>2. ask' = [s \in Askers |-> ask'[s]]
    BY <1>1
  <2> QED
    BY <2>1, <2>2 DEF DInv, Typed, Carries
<1>3. Dated' /\ OneRatePerCity'
  BY DEF DInv, Dated, OneRatePerCity, SameRow
<1>4. CountedFirst'
  BY <1>1 DEF DInv, CountedFirst, After
<1> QED
  BY <1>2, <1>3, <1>4 DEF DInv

(* A request that ends without a write. *)
LEMMA Ended ==
  ASSUME DInv, NEW r \in Askers, Told(r), UNCHANGED <<zones, home, ordered, saves>>, city' \in [Cities -> Row]
  PROVE  DInv'
<1>1. ask' = [s \in Askers |-> IF s = r THEN NoAsk ELSE ask[s]]
  BY DEF Told, DInv, Typed
<1>2. Typed'
  <2>1. \A s \in Askers : Carries(ask'[s])
    BY <1>1 DEF DInv, Typed, Carries, NoAsk
  <2>2. ask' = [s \in Askers |-> ask'[s]]
    BY <1>1
  <2> QED
    BY <2>1, <2>2 DEF DInv, Typed, Carries
<1>3. Dated' /\ OneRatePerCity'
  BY DEF DInv, Dated, OneRatePerCity, SameRow
<1>4. CountedFirst'
  BY <1>1 DEF DInv, CountedFirst, After, NoAsk
<1> QED
  BY <1>2, <1>3, <1>4 DEF DInv

(* One that writes rows of this moment, or clears a city in all of them:   *)
(* what is left to show of it is the rows.                                 *)
LEMMA HomeSaved ==
  ASSUME DInv, NEW r \in Askers, Saves(r),
         city' \in [Cities -> Row], zones' \subseteq Rate, ordered' \subseteq Order,
         home' # NoHome => home' \in Home,
         \A z \in zones' : z.at = saves + 1 \/ \E y \in zones : SameRow(y, z) /\ z.city \in {y.city, Whole},
         \A o \in ordered' : o.at = saves + 1 \/ \E p \in ordered : o.at = p.at /\ o.city \in {p.city, Whole},
         home' # NoHome => \/ home'.at = saves + 1
                           \/ home # NoHome /\ home'.at = home.at /\ home'.city \in {home.city, Whole},
         \A y, z \in zones' : SameRow(y, z) => y = z,
         OneRatePerCity'
  PROVE  DInv'
<1>1. /\ ask' = [s \in Askers |-> IF s = r THEN NoAsk ELSE ask[s]]
      /\ saves' = saves + 1
  BY DEF Saves, Told, DInv, Typed
<1>2. Typed'
  <2>1. \A s \in Askers : Carries(ask'[s])
    BY <1>1 DEF DInv, Typed, Carries, NoAsk
  <2>2. ask' = [s \in Askers |-> ask'[s]]
    BY <1>1
  <2> QED
    BY <1>1, <2>1, <2>2 DEF DInv, Typed, Carries
<1>3. Dated'
  <2>1. \A z \in zones' : z.at <= saves + 1
    BY DEF DInv, Typed, Dated, SameRow, Rate
  <2>2. \A o \in ordered' : o.at <= saves + 1
    BY DEF DInv, Typed, Dated, Order
  <2>3. home' # NoHome => home'.at <= saves + 1
    BY DEF DInv, Typed, Dated, Home
  <2> QED
    BY <1>1, <2>1, <2>2, <2>3 DEF Dated, SameRow
<1>4. ASSUME NEW s \in Askers PROVE After(ask[s])'
  <2>1. CASE s = r
    BY <1>1, <2>1 DEF After, NoAsk
  <2>2. CASE s # r
    <3> DEFINE q == ask[s]
    <3> SUFFICES ASSUME q.op = "removeCity"
                 PROVE  /\ q.rates # NotYet =>
                             q.rates <= saves' /\ \A z \in zones' : z.city = q.about => q.rates < z.at
                        /\ q.orders # NotYet =>
                             q.orders <= saves' /\ \A o \in ordered' : o.city = q.about => q.orders < o.at
                        /\ q.homes # NotYet =>
                             q.homes <= saves' /\ (home' # NoHome /\ home'.city = q.about => q.homes < home'.at)
      BY <1>1, <2>2 DEF After
    <3>1. q \in RemoveQuery /\ After(q)
      BY DEF DInv, Typed, Carries, CountedFirst
    <3>2. /\ q.rates \in Instant /\ q.orders \in Instant /\ q.homes \in Instant
          /\ saves \in Nat /\ q.about # Whole
      BY <3>1, DeliveryAssumption DEF RemoveQuery, DInv, Typed
    <3> HIDE DEF q
    <3>3. q.rates # NotYet =>
            q.rates <= saves' /\ \A z \in zones' : z.city = q.about => q.rates < z.at
      BY <1>1, <3>1, <3>2 DEF SameRow, After, Instant
    <3>4. q.orders # NotYet =>
            q.orders <= saves' /\ \A o \in ordered' : o.city = q.about => q.orders < o.at
      BY <1>1, <3>1, <3>2 DEF After, Instant
    <3>5. q.homes # NotYet =>
            q.homes <= saves' /\ (home' # NoHome /\ home'.city = q.about => q.homes < home'.at)
      BY <1>1, <3>1, <3>2 DEF After, Instant
    <3> QED
      BY <3>3, <3>4, <3>5
  <2> QED
    BY <2>1, <2>2
<1>5. CountedFirst'
  BY <1>4 DEF CountedFirst
<1> QED
  BY <1>2, <1>3, <1>5 DEF DInv

-----------------------------------------------------------------------------
(* The cities' own handlers. *)
LEMMA CitiesStep ==
  ASSUME DInv, CitiesNext, UNCHANGED <<zones, home, ordered, saves>>
  PROVE  DInv'
<1> USE LocationsAssumption
<1>t. city \in [Cities -> Row] /\ \A r \in Askers : Carries(ask[r])
  BY DEF DInv, Typed
<1>1. ASSUME NEW r \in Askers, NEW g \in Governorates, NEW e \in Offers, NEW b \in BOOLEAN,
             BeginCity(r, g, e, b)
      PROVE  DInv'
  <2> DEFINE q == [op |-> "insertCity", gov |-> g, left |-> <<e>>, active |-> b]
  <2>1. <<e>> \in Seq(Offers) /\ <<e>> # <<>>
    OBVIOUS
  <2>2. Carries(q) /\ After(q)
    BY <2>1 DEF Carries, After, CityQuery
  <2>3. Ask(r, q) /\ Reads
    BY <1>1 DEF BeginCity, Reads
  <2> QED
    BY <2>2, <2>3, Begins
<1>2. ASSUME NEW r \in Askers, NEW g \in Governorates, NEW es \in Lists, BeginCities(r, g, es)
      PROVE  DInv'
  <2> DEFINE q == [op |-> "findCity", gov |-> g, left |-> es, active |-> TRUE]
  <2>1. Carries(q) /\ After(q)
    BY DEF Carries, After, CityQuery
  <2>2. Ask(r, q) /\ Reads
    BY <1>2 DEF BeginCities, Reads
  <2> QED
    BY <2>1, <2>2, Begins
<1>3. ASSUME NEW r \in Askers, NEW c \in Known, NEW f \in Edits, NEW b \in BOOLEAN,
             BeginEditCity(r, c, f, b)
      PROVE  DInv'
  <2>0. c \in Cities /\ city[c] \in Row /\ f \in EditForm
    BY <1>t DEF Known
  <2>1. PICK g \in Governorates : g = Given(f.gov, city[c].gov)
    BY <2>0 DEF EditForm, Field, Given, Row
  <2>6. Given(f.name, city[c].name) \in Names /\ Given(f.latin, city[c].latin) \in Latins
    BY <2>0 DEF EditForm, Field, Given, Row
  <2>2. PICK e \in CityNames : e = [name |-> Given(f.name, city[c].name), latin |-> Given(f.latin, city[c].latin)]
    BY <2>6 DEF CityNames
  <2>3. PICK o \in {"findOther", "editCity"} :
          Ask(r, [op |-> o, about |-> c, gov |-> g, entry |-> e, form |-> f, active |-> b])
    BY <1>3, <2>1, <2>2 DEF BeginEditCity
  <2> DEFINE q == [op |-> o, about |-> c, gov |-> g, entry |-> e, form |-> f, active |-> b]
  <2>4. Carries(q) /\ After(q)
    BY <2>0 DEF Carries, After, EditQuery
  <2>5. Reads
    BY <1>3 DEF BeginEditCity, Reads
  <2> QED
    BY <2>3, <2>4, <2>5, Begins
(* A request that goes on, as a query of the same kind. *)
<1>4. ASSUME NEW r \in Askers, NEW q \in CityQuery, GoOn(r, q), Carries(q),
             city' \in [Cities -> Row]
      PROVE  DInv'
  <2>1. After(q)
    BY <1>4 DEF CityQuery, After
  <2> QED
    BY <1>4, <2>1, WentOn
<1>5. ASSUME NEW r \in Askers, FindCity(r)
      PROVE  DInv'
  <2> DEFINE q == ask[r]
  <2>1. q \in CityQuery /\ q.op = "findCity"
    BY <1>5, <1>t DEF FindCity, Carries
  <2>2. city' = city
    BY <1>5 DEF FindCity
  <2>3. CASE q.left = <<>>
    BY <2>2, <2>3, <1>5, <1>t, Ended DEF FindCity
  <2>4. CASE q.left # <<>> /\ GoOn(r, [q EXCEPT !.left = Tail(q.left)])
    <3>1. q.left \in Seq(Offers) /\ Tail(q.left) \in Seq(Offers)
      BY <2>1, <2>4 DEF CityQuery
    <3>2. [q EXCEPT !.left = Tail(q.left)] \in CityQuery /\ Carries([q EXCEPT !.left = Tail(q.left)])
      BY <2>1, <3>1 DEF CityQuery, Carries
    <3> QED
      BY <2>2, <2>4, <3>2, <1>4, <1>t
  <2>5. CASE q.left # <<>> /\ GoOn(r, [q EXCEPT !.op = "insertCity"])
    <3>1. [q EXCEPT !.op = "insertCity"] \in CityQuery /\ Carries([q EXCEPT !.op = "insertCity"])
      BY <2>1, <2>5 DEF CityQuery, Carries
    <3> QED
      BY <2>2, <2>5, <3>1, <1>4, <1>t
  <2> QED
    BY <1>5, <2>3, <2>4, <2>5 DEF FindCity
<1>6. ASSUME NEW r \in Askers, InsertCity(r)
      PROVE  DInv'
  <2> DEFINE q == ask[r]
  <2>1. q \in CityQuery /\ q.op = "insertCity" /\ q.left # <<>>
    BY <1>6, <1>t DEF InsertCity, Carries
  <2>2. q.left \in Seq(Offers) /\ Tail(q.left) \in Seq(Offers) /\ Head(q.left) \in Offers
    BY <2>1 DEF CityQuery
  <2>3. CASE Told(r) /\ city' = city
    BY <2>3, <1>6, <1>t, Ended DEF InsertCity
  <2>4. CASE GoOn(r, [q EXCEPT !.op = "findCity", !.left = Tail(q.left)])
             /\ \E c \in Cities : city' = [city EXCEPT ![c] = [state |-> "known", gov |-> q.gov,
                  name |-> Head(q.left).name, latin |-> Head(q.left).latin, active |-> q.active]]
    <3>1. /\ [q EXCEPT !.op = "findCity", !.left = Tail(q.left)] \in CityQuery
          /\ Carries([q EXCEPT !.op = "findCity", !.left = Tail(q.left)])
      BY <2>1, <2>2 DEF CityQuery, Carries
    <3>2. Head(q.left) \in [name : Names, latin : Latins] /\ q.gov \in Governorates /\ q.active \in BOOLEAN
      BY <2>1, <2>2 DEF CityQuery
    <3>3. city' \in [Cities -> Row]
      BY <2>4, <3>2, <1>t DEF Row
    <3> QED
      BY <2>4, <3>1, <3>3, <1>4
  <2> QED
    BY <1>6, <2>3, <2>4 DEF InsertCity
<1>8. ASSUME NEW r \in Askers, FindOther(r)
      PROVE  DInv'
  <2>1. ask[r] \in EditQuery /\ city' = city
    BY <1>8, <1>t DEF FindOther, Carries
  <2>2. PICK q : q = [ask[r] EXCEPT !.op = "editCity"]
    OBVIOUS
  <2>3. q \in EditQuery /\ q.op = "editCity"
    BY <2>1, <2>2 DEF EditQuery
  <2>4. Carries(q) /\ After(q)
    BY <2>3 DEF Carries, After
  <2>5. Told(r) \/ GoOn(r, q)
    BY <1>8, <2>2 DEF FindOther
  <2> QED
    BY <2>1, <2>4, <2>5, <1>t, Ended, WentOn
<1>7. ASSUME NEW r \in Askers, EditCity(r)
      PROVE  DInv'
  <2> DEFINE q == ask[r]
  <2>1. q \in EditQuery
    BY <1>7, <1>t DEF EditCity, Carries
  <2>2. /\ q.entry.latin \in Latins /\ q.active \in BOOLEAN /\ q.about \in Cities
        /\ q.form.gov \in Field(Governorates) /\ q.form.name \in Field(Names)
    BY <2>1 DEF EditQuery, CityNames, EditForm
  <2>3. city[q.about] \in Row
    BY <2>2, <1>t
  <2>4. Edited(q) \in Row
    BY <2>2, <2>3 DEF Edited, Row, Given, Field
  <2>5. city' \in [Cities -> Row]
    BY <1>7, <2>4, <1>t DEF EditCity
  <2> QED
    BY <1>7, <2>5, Ended DEF EditCity
<1> QED
  BY <1>1, <1>2, <1>3, <1>5, <1>6, <1>7, <1>8 DEF CitiesNext

-----------------------------------------------------------------------------
(* A removal begins with no table counted, and counts each when nothing in *)
(* it names the city.                                                      *)
LEMMA RemovalBegins ==
  ASSUME DInv, NEW r \in Askers, NEW c \in Known, BeginRemoveCity(r, c)
  PROVE  DInv'
<1> DEFINE q == [op |-> "removeCity", about |-> c, rates |-> NotYet, orders |-> NotYet, homes |-> NotYet]
<1>1. Carries(q)
  BY DEF Carries, RemoveQuery, Instant, Known, DInv, Typed
<1>2. After(q)
  BY DEF After
<1>3. Ask(r, q) /\ Reads
  BY DEF BeginRemoveCity
<1> QED
  BY <1>1, <1>2, <1>3, Begins

LEMMA RemovalCounts ==
  ASSUME DInv, NEW r \in Askers, CountRates(r) \/ CountOrders(r) \/ CountHomes(r)
  PROVE  DInv'
<1> DEFINE p == ask[r]
<1>1. /\ p \in RemoveQuery /\ p.op = "removeCity" /\ After(p)
      /\ city \in [Cities -> Row] /\ saves \in Nat /\ NotYet \notin Nat
      /\ UNCHANGED <<city, zones, home, ordered, saves>>
  BY DEF DInv, Typed, CountedFirst, Carries, CountRates, CountOrders, CountHomes, Counting, NotYet
<1>2. CASE Told(r)
  BY <1>1, <1>2, Ended
<1>3. CASE CountRates(r) /\ ~ Told(r)
  <2>1. PICK q : q = [p EXCEPT !.rates = saves]
    OBVIOUS
  <2>2. /\ q \in RemoveQuery /\ q.op = "removeCity" /\ q.about = p.about
        /\ q.rates = saves /\ q.orders = p.orders /\ q.homes = p.homes
    BY <1>1, <2>1 DEF RemoveQuery, Instant
  <2>3. \A z \in zones : z.city # q.about
    BY <1>3, <2>2 DEF CountRates
  <2>4. Carries(q) /\ After(q)
    BY <1>1, <2>2, <2>3 DEF Carries, After
  <2>5. GoOn(r, q)
    BY <1>3, <2>1 DEF CountRates
  <2> QED
    BY <1>1, <2>4, <2>5, WentOn
<1>4. CASE CountOrders(r) /\ ~ Told(r)
  <2>1. PICK q : q = [p EXCEPT !.orders = saves]
    OBVIOUS
  <2>2. /\ q \in RemoveQuery /\ q.op = "removeCity" /\ q.about = p.about
        /\ q.rates = p.rates /\ q.orders = saves /\ q.homes = p.homes
    BY <1>1, <2>1 DEF RemoveQuery, Instant
  <2>3. \A o \in ordered : o.city # q.about
    BY <1>4, <2>2 DEF CountOrders
  <2>4. Carries(q) /\ After(q)
    BY <1>1, <2>2, <2>3 DEF Carries, After
  <2>5. GoOn(r, q)
    BY <1>4, <2>1 DEF CountOrders
  <2> QED
    BY <1>1, <2>4, <2>5, WentOn
<1>5. CASE CountHomes(r) /\ ~ Told(r)
  <2>1. PICK q : q = [p EXCEPT !.homes = saves]
    OBVIOUS
  <2>2. /\ q \in RemoveQuery /\ q.op = "removeCity" /\ q.about = p.about
        /\ q.rates = p.rates /\ q.orders = p.orders /\ q.homes = saves
    BY <1>1, <2>1 DEF RemoveQuery, Instant
  <2>3. ~ (home # NoHome /\ home.city = q.about)
    BY <1>5, <2>2 DEF CountHomes
  <2>4. Carries(q) /\ After(q)
    BY <1>1, <2>2, <2>3 DEF Carries, After
  <2>5. GoOn(r, q)
    BY <1>5, <2>1 DEF CountHomes
  <2> QED
    BY <1>1, <2>4, <2>5, WentOn
<1> QED
  BY <1>2, <1>3, <1>4, <1>5

LEMMA RequestBegins ==
  ASSUME DInv, NEW r \in Askers,
         \/ \E g \in Governorates, n \in Costs : BeginSetWide(r, g, n)
         \/ \E z \in zones : BeginDrop(r, z) \/ \E cs \in SUBSET Known : BeginCopy(r, z, cs)
         \/ \E cs \in SUBSET Known, ch \in Changes : BeginSetRates(r, cs, ch)
         \/ \E c \in Known : BeginSaveHome(r, c)
         \/ \E g \in Governorates : BeginMoveHome(r, g) \/ \E c \in Known : BeginOrder(r, g, c)
  PROVE  DInv'
<1> USE DeliveryAssumption
<1>t. /\ city \in [Cities -> Row] /\ zones \subseteq Rate /\ (home # NoHome => home \in Home)
      /\ Known \subseteq Cities /\ \A c \in Known : city[c].gov \in Governorates
  BY DEF DInv, Typed, Known, Row
<1>1. ASSUME NEW g \in Governorates, NEW n \in Costs, BeginSetWide(r, g, n)
      PROVE  DInv'
  <2>1. PICK row \in SUBSET Rate : Ask(r, [op |-> "setWide", gov |-> g, cost |-> n, row |-> row])
    BY <1>1, <1>t DEF BeginSetWide, Wide
  <2>2. Carries([op |-> "setWide", gov |-> g, cost |-> n, row |-> row])
    BY <2>1 DEF Carries, WideQuery
  <2> QED
    BY <1>1, <2>1, <2>2, Begins DEF BeginSetWide, After
<1>2. ASSUME NEW z \in zones, BeginDrop(r, z)
      PROVE  DInv'
  BY <1>2, Begins DEF BeginDrop, Carries, After
<1>3. ASSUME NEW cs \in SUBSET Known, NEW ch \in Change, BeginPut(r, cs, ch)
      PROVE  DInv'
  <2> DEFINE q == [op |-> "put", targets |-> Targets(cs), change |-> ch]
  <2>1. Targets(cs) \in SUBSET [gov : Governorates, city : Cities]
    BY <1>t DEF Targets
  <2>2. \A t, u \in Targets(cs) : t.city = u.city => t = u
    BY DEF Targets
  <2>3. Carries(q) /\ After(q)
    BY <2>1, <2>2 DEF Carries, After, PutQuery
  <2>4. Ask(r, q) /\ Reads
    BY <1>3 DEF BeginPut
  <2> QED
    BY <2>3, <2>4, Begins
<1>4. ASSUME NEW z \in zones, NEW cs \in SUBSET Known, BeginCopy(r, z, cs)
      PROVE  DInv'
  <2>1. [cost |-> z.cost, open |-> z.open] \in Change
    BY <1>t DEF Rate, Change
  <2> QED
    BY <1>3, <1>4, <2>1 DEF BeginCopy
<1>5. ASSUME NEW c \in Known, BeginSaveHome(r, c)
      PROVE  DInv'
  BY <1>5, <1>t, Begins DEF BeginSaveHome, Carries, After, HomeQuery
<1>6. ASSUME NEW g \in Governorates, BeginMoveHome(r, g)
      PROVE  DInv'
  BY <1>6, <1>t, Begins DEF BeginMoveHome, Carries, After, HomeQuery, Home
<1>7. ASSUME NEW g \in Governorates, NEW c \in Known, BeginOrder(r, g, c)
      PROVE  DInv'
  BY <1>7, <1>t, Begins DEF BeginOrder, Carries, After, OrderQuery
<1> QED
  BY <1>1, <1>2, <1>3, <1>4, <1>5, <1>6, <1>7 DEF BeginSetRates, Changes, Change

-----------------------------------------------------------------------------
(* An upsert writes new rows, one for a city, where there was none.        *)
LEMMA PutWrites ==
  ASSUME DInv, NEW targets \in SUBSET [gov : Governorates, city : Cities], NEW ch \in Change,
         \A t, u \in targets : t.city = u.city => t = u,
         zones' = Put(targets, ch)
  PROVE  /\ zones' \subseteq Rate
         /\ \A z \in zones' : z.at = saves + 1 \/ \E y \in zones : SameRow(y, z) /\ z.city = y.city
         /\ \A y, z \in zones' : SameRow(y, z) => y = z
         /\ OneRatePerCity'
<1> USE DeliveryAssumption
<1> DEFINE new(t) == Changed(NewRate(t.gov, t.city), ch)
           kept(z) == IF [gov |-> z.gov, city |-> z.city] \in targets THEN Changed(z, ch) ELSE z
<1>t. zones \subseteq Rate /\ saves \in Nat /\ \A z \in zones : z.at <= saves
  BY DEF DInv, Typed, Dated
<1>1. ASSUME NEW z \in Rate
      PROVE  /\ Changed(z, ch) \in Rate /\ SameRow(z, Changed(z, ch))
             /\ Changed(z, ch).city = z.city /\ Changed(z, ch).gov = z.gov
  BY DEF Changed, Rate, Change, SameRow, Same
<1>2. ASSUME NEW t \in targets
      PROVE  /\ NewRate(t.gov, t.city) \in Rate
             /\ new(t) \in Rate /\ new(t).at = saves + 1 /\ new(t).first = t.city
             /\ new(t).city = t.city /\ new(t).gov = t.gov
  <2>1. NewRate(t.gov, t.city) \in Rate
    BY <1>t DEF NewRate, Rate
  <2> QED
    BY <2>1, <1>1 DEF NewRate, SameRow
<1>3. ASSUME NEW z \in zones
      PROVE  kept(z) \in Rate /\ SameRow(z, kept(z)) /\ kept(z).city = z.city /\ kept(z).gov = z.gov
  BY <1>t, <1>1 DEF SameRow
<1>4. ASSUME NEW z \in zones'
      PROVE  \/ \E y \in zones : z = kept(y)
             \/ \E t \in targets : z = new(t) /\ RateOf(t.gov, t.city) = {}
  BY DEF Put
<1> HIDE DEF new, kept
<1>5. zones' \subseteq Rate
  BY <1>2, <1>3, <1>4
<1>6. \A z \in zones' : z.at = saves + 1 \/ \E y \in zones : SameRow(y, z) /\ z.city = y.city
  BY <1>2, <1>3, <1>4
<1>7. ASSUME NEW y \in zones', NEW z \in zones', SameRow(y, z)
      PROVE  y = z
  <2>1. CASE \E a, b \in zones : y = kept(a) /\ z = kept(b)
    <3>1. PICK a \in zones, b \in zones : y = kept(a) /\ z = kept(b)
      BY <2>1
    <3>2. SameRow(a, b)
      BY <1>3, <1>7, <3>1 DEF SameRow
    <3> QED
      BY <3>1, <3>2 DEF DInv, Dated
  <2>2. CASE \E t, u \in targets : y = new(t) /\ z = new(u)
    BY <1>2, <1>7, <2>2 DEF SameRow
  <2>3. CASE \E a \in zones, t \in targets : {y, z} = {kept(a), new(t)}
    <3>1. PICK a \in zones, t \in targets : {y, z} = {kept(a), new(t)}
      BY <2>3
    <3>2. kept(a).at # new(t).at
      BY <1>2, <1>3, <1>t DEF SameRow, Rate
    <3> QED
      BY <3>1, <3>2, <1>7 DEF SameRow
  <2> QED
    BY <1>4, <2>1, <2>2, <2>3
<1>8. ASSUME NEW y \in zones', NEW z \in zones', y.city # Whole, y.city = z.city, y.gov = z.gov
      PROVE  y = z
  <2>1. CASE \E a, b \in zones : y = kept(a) /\ z = kept(b)
    BY <2>1, <1>3, <1>8 DEF DInv, OneRatePerCity
  <2>2. CASE \E t, u \in targets : y = new(t) /\ z = new(u)
    BY <1>2, <1>8, <2>2
  <2>3. ASSUME NEW a \in zones, NEW t \in targets, {y, z} = {kept(a), new(t)}, RateOf(t.gov, t.city) = {}
        PROVE  FALSE
    <3>1. a.gov = t.gov /\ a.city = t.city
      BY <1>2, <1>3, <1>8, <2>3
    <3> QED
      BY <3>1, <2>3 DEF RateOf
  <2> QED
    BY <1>4, <2>1, <2>2, <2>3
<1> QED
  BY <1>5, <1>6, <1>7, <1>8 DEF OneRatePerCity

-----------------------------------------------------------------------------
(* The requests that write. *)
LEMMA RequestWrites ==
  ASSUME DInv, NEW r \in Askers,
         SetWide(r) \/ DropRate(r) \/ PutRates(r) \/ SaveHome(r) \/ PlaceOrder(r) \/ RemoveCity(r)
  PROVE  DInv'
<1> USE DeliveryAssumption
<1>t. /\ city \in [Cities -> Row] /\ zones \subseteq Rate /\ ordered \subseteq Order /\ saves \in Nat
      /\ home # NoHome => home \in Home
      /\ Carries(ask[r]) /\ Known \subseteq Cities
  BY DEF DInv, Typed, Known
<1>u. /\ \A z \in zones : z.at <= saves
      /\ \A y, z \in zones : SameRow(y, z) => y = z
      /\ OneRatePerCity
  BY DEF DInv, Dated
<1>v. \A z \in zones : SameRow(z, z)
  BY DEF SameRow
<1>f. ASSUME Fails(r) PROVE DInv'
  BY <1>f, <1>t, Ended DEF Fails
<1>1. CASE SetWide(r) /\ ~ Fails(r)
  <2>1. ask[r] \in WideQuery /\ Saves(r) /\ UNCHANGED <<city, home, ordered>>
    BY <1>1, <1>t DEF SetWide, Carries
  <2>2. ask[r].gov \in Governorates /\ ask[r].cost \in Nat
    BY <2>1 DEF WideQuery
  <2>3. CASE zones' = zones \cup {[NewRate(ask[r].gov, Whole) EXCEPT !.cost = ask[r].cost]}
    <3> DEFINE new == [NewRate(ask[r].gov, Whole) EXCEPT !.cost = ask[r].cost]
    <3>1. new \in Rate /\ new.at = saves + 1 /\ new.city = Whole
      BY <2>2, <1>t DEF NewRate, Rate
    <3> HIDE DEF new
    <3>2. zones' = zones \cup {new}
      BY <2>3 DEF new
    <3>3. \A z \in zones : z.at # new.at
      BY <3>1, <1>t, <1>u DEF Rate
    <3>4. zones' \subseteq Rate /\ \A y, z \in zones' : SameRow(y, z) => y = z
      BY <3>1, <3>2, <3>3, <1>t, <1>u DEF SameRow
    <3>5. OneRatePerCity'
      BY <3>1, <3>2, <1>u DEF OneRatePerCity
    <3>6. \A z \in zones' : z.at = saves + 1 \/ \E y \in zones : SameRow(y, z) /\ z.city \in {y.city, Whole}
      BY <3>1, <3>2, <1>v
    <3> QED
      BY <2>1, <3>4, <3>5, <3>6, <1>t, HomeSaved
  <2>4. CASE zones' = {IF z \in Still(ask[r].row) THEN [z EXCEPT !.cost = ask[r].cost] ELSE z : z \in zones}
    <3> DEFINE kept(z) == IF z \in Still(ask[r].row) THEN [z EXCEPT !.cost = ask[r].cost] ELSE z
    <3>1. ASSUME NEW z \in zones
          PROVE  kept(z) \in Rate /\ SameRow(z, kept(z)) /\ kept(z).city = z.city /\ kept(z).gov = z.gov
      BY <2>2, <1>t DEF Rate, SameRow
    <3>2. zones' = {kept(z) : z \in zones}
      BY <2>4
    <3> HIDE DEF kept
    <3>3. zones' \subseteq Rate /\ \A y, z \in zones' : SameRow(y, z) => y = z
      BY <3>1, <3>2, <1>u DEF SameRow
    <3>4. OneRatePerCity'
      BY <3>1, <3>2, <1>u DEF OneRatePerCity
    <3>5. \A z \in zones' : z.at = saves + 1 \/ \E y \in zones : SameRow(y, z) /\ z.city \in {y.city, Whole}
      BY <3>1, <3>2
    <3> QED
      BY <2>1, <3>3, <3>4, <3>5, <1>t, HomeSaved
  <2> QED
    BY <1>1, <2>3, <2>4 DEF SetWide
<1>2. CASE DropRate(r)
  <2>1. Saves(r) /\ UNCHANGED <<city, home, ordered>> /\ zones' \subseteq zones
    BY <1>2 DEF DropRate
  <2>2. OneRatePerCity'
    BY <2>1, <1>u DEF OneRatePerCity
  <2> QED
    BY <2>1, <2>2, <1>t, <1>u, <1>v, HomeSaved
<1>3. CASE PutRates(r) /\ ~ Fails(r)
  <2>1. /\ ask[r] \in PutQuery /\ \A t, u \in ask[r].targets : t.city = u.city => t = u
        /\ Saves(r) /\ zones' = Put(ask[r].targets, ask[r].change) /\ UNCHANGED <<city, home, ordered>>
    BY <1>3, <1>t DEF PutRates, Carries
  <2>2. ask[r].targets \in SUBSET [gov : Governorates, city : Cities] /\ ask[r].change \in Change
    BY <2>1 DEF PutQuery
  <2>3. /\ zones' \subseteq Rate
        /\ \A z \in zones' : z.at = saves + 1 \/ \E y \in zones : SameRow(y, z) /\ z.city = y.city
        /\ \A y, z \in zones' : SameRow(y, z) => y = z
        /\ OneRatePerCity'
    BY <2>1, <2>2, PutWrites
  <2>4. \A z \in zones' : z.at = saves + 1 \/ \E y \in zones : SameRow(y, z) /\ z.city \in {y.city, Whole}
    BY <2>3
  <2> QED
    BY <2>1, <2>3, <2>4, <1>t, HomeSaved
<1>4. CASE SaveHome(r) /\ ~ Fails(r)
  <2>1. /\ ask[r] \in HomeQuery /\ Saves(r) /\ UNCHANGED <<city, zones, ordered>>
        /\ home' = [gov |-> ask[r].gov, city |-> ask[r].city, at |-> saves + 1]
    BY <1>4, <1>t DEF SaveHome, Carries
  <2>2. home' \in Home /\ home'.at = saves + 1
    BY <2>1, <1>t DEF HomeQuery, Home
  <2> QED
    BY <2>1, <2>2, <1>t, <1>u, <1>v, HomeSaved DEF OneRatePerCity
<1>5. CASE PlaceOrder(r) /\ ~ Fails(r)
  <2> DEFINE new == [city |-> ask[r].city, at |-> saves + 1]
  <2>1. /\ ask[r] \in OrderQuery /\ Saves(r) /\ UNCHANGED <<city, zones, home>>
        /\ ordered' = ordered \cup {new}
    BY <1>5, <1>t DEF PlaceOrder, Carries
  <2>2. new \in Order /\ new.at = saves + 1
    BY <2>1, <1>t DEF OrderQuery, Order
  <2>3. ordered' \subseteq Order /\ \A o \in ordered' : o.at = saves + 1 \/ o \in ordered
    BY <2>1, <2>2, <1>t
  <2> QED
    BY <2>1, <2>3, <1>t, <1>u, <1>v, HomeSaved DEF OneRatePerCity
<1>6. CASE RemoveCity(r) /\ ~ Fails(r)
  <2> DEFINE c == ask[r].about
  <2>1. /\ c \in Cities /\ Saves(r) /\ city' = [city EXCEPT ![c].state = "gone"]
        /\ zones' = {Cleared(z, c) : z \in zones}
        /\ home' = IF home = NoHome THEN home ELSE Cleared(home, c)
        /\ ordered' = {Cleared(o, c) : o \in ordered}
    BY <1>6, <1>t DEF RemoveCity, Known
  <2> HIDE DEF c
  <2>2. city' \in [Cities -> Row]
    BY <2>1, <1>t DEF Row
  <2>3. ASSUME NEW z \in zones
        PROVE  /\ Cleared(z, c) \in Rate /\ SameRow(z, Cleared(z, c)) /\ Cleared(z, c).gov = z.gov
               /\ Cleared(z, c).city \in {z.city, Whole}
    BY <1>t DEF Cleared, Rate, SameRow
  <2>4. ASSUME NEW o \in ordered
        PROVE  /\ Cleared(o, c) \in Order /\ Cleared(o, c).at = o.at
               /\ Cleared(o, c).city \in {o.city, Whole}
    BY <1>t DEF Cleared, Order
  <2>5. home # NoHome => /\ Cleared(home, c) \in Home /\ Cleared(home, c).at = home.at
                         /\ Cleared(home, c).city \in {home.city, Whole}
    BY <1>t DEF Cleared, Home
  <2>6. zones' \subseteq Rate /\ \A y, z \in zones' : SameRow(y, z) => y = z
    BY <2>1, <2>3, <1>u DEF SameRow
  <2>7. OneRatePerCity'
    BY <2>1, <2>3, <1>u DEF OneRatePerCity
  <2>8. \A z \in zones' : z.at = saves + 1 \/ \E y \in zones : SameRow(y, z) /\ z.city \in {y.city, Whole}
    BY <2>1, <2>3
  <2>9. ordered' \subseteq Order
        /\ \A o \in ordered' : o.at = saves + 1 \/ \E p \in ordered : o.at = p.at /\ o.city \in {p.city, Whole}
    BY <2>1, <2>4
  <2>10. home' # NoHome => /\ home' \in Home
                           /\ home # NoHome /\ home'.at = home.at /\ home'.city \in {home.city, Whole}
    BY <2>1, <2>5
  <2> QED
    BY <2>1, <2>2, <2>6, <2>7, <2>8, <2>9, <2>10, HomeSaved
<1> QED
  BY <1>f, <1>1, <1>2, <1>3, <1>4, <1>5, <1>6

LEMMA Stutters == DInv /\ UNCHANGED deliveryVars => DInv'
BY DEF DInv, Typed, Dated, OneRatePerCity, CountedFirst, SameRow, After, Carries, deliveryVars

LEMMA StepInv == DInv /\ [DeliveryNext]_deliveryVars => DInv'
<1> SUFFICES ASSUME DInv, [DeliveryNext]_deliveryVars PROVE DInv'
  OBVIOUS
<1>1. CASE CitiesNext /\ UNCHANGED <<zones, home, ordered, saves>>
  BY <1>1, CitiesStep
<1>2. CASE UNCHANGED deliveryVars
  BY <1>2, Stutters
<1>3. ASSUME NEW r \in Askers, NEW c \in Known, BeginRemoveCity(r, c) PROVE DInv'
  BY <1>3, RemovalBegins
<1> QED
  BY <1>1, <1>2, <1>3, RequestBegins, RemovalCounts, RequestWrites DEF DeliveryNext

(* No step takes the city from a row that the count before the deletion    *)
(* had seen, or could have.                                                *)
LEMMA StepKeeps == DInv /\ [DeliveryNext]_deliveryVars => KeepsCity
<1> SUFFICES ASSUME DInv, [DeliveryNext]_deliveryVars PROVE KeepsCity
  OBVIOUS
<1> USE DeliveryAssumption
<1>t. /\ zones \subseteq Rate /\ ordered \subseteq Order /\ saves \in Nat
      /\ home # NoHome => home \in Home /\ home.at <= saves
      /\ \A z \in zones : z.at <= saves
      /\ \A y, z \in zones : SameRow(y, z) => y = z
      /\ \A r \in Askers : Carries(ask[r]) /\ After(ask[r])
  BY DEF DInv, Typed, Dated, CountedFirst
<1>1. CASE UNCHANGED <<zones, home, ordered>>
  BY <1>1, <1>t DEF KeepsCity
<1>2. ASSUME NEW r \in Askers, SetWide(r) /\ ~ Fails(r) PROVE KeepsCity
  <2>1. ask[r].cost \in Nat /\ UNCHANGED <<home, ordered>>
    BY <1>2, <1>t DEF SetWide, Carries, WideQuery
  <2>2. ASSUME NEW z \in zones, NEW y \in zones', SameRow(y, z) PROVE y.city = z.city
    <3>1. CASE y = [NewRate(ask[r].gov, Whole) EXCEPT !.cost = ask[r].cost]
      <4>1. y.at = saves + 1
        BY <3>1 DEF NewRate
      <4> QED
        BY <4>1, <2>2, <1>t DEF SameRow, Rate
    <3>2. CASE \E x \in zones : y = x \/ y = [x EXCEPT !.cost = ask[r].cost]
      <4>1. PICK x \in zones : y = x \/ y = [x EXCEPT !.cost = ask[r].cost]
        BY <3>2
      <4>2. SameRow(x, z) /\ y.city = x.city
        BY <4>1, <2>2, <1>t DEF SameRow, Rate
      <4> QED
        BY <4>2, <1>t
    <3> QED
      BY <1>2, <3>1, <3>2 DEF SetWide
  <2> QED
    BY <2>1, <2>2 DEF KeepsCity
<1>3. ASSUME NEW r \in Askers, DropRate(r) PROVE KeepsCity
  BY <1>3, <1>t DEF DropRate, KeepsCity
<1>4. ASSUME NEW r \in Askers, PutRates(r) /\ ~ Fails(r) PROVE KeepsCity
  <2>1. /\ ask[r] \in PutQuery /\ \A t, u \in ask[r].targets : t.city = u.city => t = u
        /\ zones' = Put(ask[r].targets, ask[r].change) /\ UNCHANGED <<home, ordered>>
    BY <1>4, <1>t DEF PutRates, Carries
  <2>2. ask[r].targets \in SUBSET [gov : Governorates, city : Cities] /\ ask[r].change \in Change
    BY <2>1 DEF PutQuery
  <2>3. \A z \in zones' : z.at = saves + 1 \/ \E y \in zones : SameRow(y, z) /\ z.city = y.city
    BY <2>1, <2>2, PutWrites
  <2>4. ASSUME NEW z \in zones, NEW y \in zones', SameRow(y, z) PROVE y.city = z.city
    <3>1. y.at # saves + 1
      BY <2>4, <1>t DEF SameRow, Rate
    <3>2. PICK x \in zones : SameRow(x, y) /\ y.city = x.city
      BY <2>3, <3>1
    <3>3. x = z
      BY <3>2, <2>4, <1>t DEF SameRow
    <3> QED
      BY <3>2, <3>3
  <2> QED
    BY <2>1, <2>4 DEF KeepsCity
<1>5. ASSUME NEW r \in Askers, SaveHome(r) /\ ~ Fails(r) PROVE KeepsCity
  <2>1. UNCHANGED <<zones, ordered>> /\ home'.at = saves + 1
    BY <1>5 DEF SaveHome
  <2>2. home # NoHome => home.at # saves + 1
    BY <1>t DEF Home
  <2> QED
    BY <2>1, <2>2, <1>t DEF KeepsCity
<1>6. ASSUME NEW r \in Askers, PlaceOrder(r) /\ ~ Fails(r) PROVE KeepsCity
  BY <1>6, <1>t DEF PlaceOrder, KeepsCity
<1>7. ASSUME NEW r \in Askers, RemoveCity(r) /\ ~ Fails(r) PROVE KeepsCity
  <2> DEFINE c == ask[r].about
  <2>1. /\ ask[r].op = "removeCity"
        /\ zones' = {Cleared(z, c) : z \in zones}
        /\ home' = IF home = NoHome THEN home ELSE Cleared(home, c)
        /\ ordered' = {Cleared(o, c) : o \in ordered}
    BY <1>7 DEF RemoveCity
  <2>2. /\ ask[r] \in Removing(c) /\ ask[r].rates # NotYet /\ ask[r].orders # NotYet /\ ask[r].homes # NotYet
        /\ \A z \in zones : z.city = c => ask[r].rates < z.at
        /\ \A o \in ordered : o.city = c => ask[r].orders < o.at
        /\ home # NoHome /\ home.city = c => ask[r].homes < home.at
    BY <1>7, <2>1, <1>t DEF After, Removing, RemoveCity, Asking, NoAsk
  <2>3. ASSUME NEW z \in zones, NEW y \in zones', SameRow(y, z), y.city # z.city PROVE z.city = c
    <3>1. PICK x \in zones : y = Cleared(x, c)
      BY <2>1
    <3>2. SameRow(x, z)
      BY <3>1, <2>3, <1>t DEF SameRow, Cleared, Rate
    <3>3. x = z
      BY <3>2, <1>t
    <3> QED
      BY <3>1, <3>3, <2>3 DEF Cleared
  <2>4. ASSUME NEW o \in ordered, o \notin ordered' PROVE o.city = c
    BY <2>1, <2>4 DEF Cleared
  <2>5. home # NoHome /\ home' # home => home.city = c
    BY <2>1 DEF Cleared
  <2> QED
    BY <2>2, <2>3, <2>4, <2>5 DEF KeepsCity
<1>8. ASSUME NEW r \in Askers, Fails(r) PROVE KeepsCity
  BY <1>8, <1>1 DEF Fails
<1>9. CASE CitiesNext /\ UNCHANGED <<zones, home, ordered, saves>>
  BY <1>9, <1>1
<1> QED
  BY <1>1, <1>2, <1>3, <1>4, <1>5, <1>6, <1>7, <1>8, <1>9
  DEF DeliveryNext, Reads, deliveryVars, BeginSetWide, BeginDrop, BeginCopy, BeginSetRates, BeginPut,
      BeginSaveHome, BeginMoveHome, BeginOrder, BeginRemoveCity, CountRates, CountOrders, CountHomes, Counting

-----------------------------------------------------------------------------
(* A rate, an address or an order loses its city only with the city, and   *)
(* only if it was written after the deletion had counted its table.        *)
THEOREM CitiesKept == DeliverySpec => KeepTheirCity
<1>1. DInv /\ [DeliveryNext]_deliveryVars => [KeepsCity]_deliveryVars
  BY StepKeeps
<1> QED
  BY InitInv, StepInv, <1>1, PTL DEF DeliverySpec, KeepTheirCity

-----------------------------------------------------------------------------
(* What a request that met no other read still holds when it writes: for   *)
(* of two requests both have met, and only requests write.                 *)
Current(q) ==
  /\ q.op = "insertCity" => ~ Duplicate(q.gov, Head(q.left), Known)
  /\ q.op \in {"findOther", "editCity"} /\ q.about \in Known =>
       Edited(q).gov = q.gov /\ Edited(q).name = q.entry.name
  /\ q.op = "editCity" /\ q.about \in Known =>
       \/ city[q.about].gov = q.gov /\ city[q.about].name = q.entry.name
       \/ ~ Duplicate(q.gov, q.entry, Known \ {q.about})
  /\ q.op = "setWide" /\ q.row = {} => Wide(q.gov) = {}
  /\ q.op = "removeCity" /\ q.rates # NotYet => \A z \in zones : z.city # q.about

AskAlone ==
  /\ overlapped \in BOOLEAN
  /\ met \subseteq Askers
  /\ \A r, s \in Askers : r # s /\ ask[r] # NoAsk /\ ask[s] # NoAsk => r \in met
  /\ \A r \in Askers \ met : Current(ask[r])

SInv == DInv /\ AskAlone /\ CityNamesOnce /\ OneWideRate

LEMMA InitSound == DeliveryInit => SInv
<1> SUFFICES ASSUME DeliveryInit PROVE SInv
  OBVIOUS
<1> USE LocationsAssumption, DeliveryAssumption DEF DeliveryInit, CitiesInit
<1>1. AskAlone
  BY DEF AskAlone, Current, NoAsk
<1>2. CityNamesOnce
  BY DEF CityNamesOnce, Known
<1>3. OneWideRate
  BY DEF OneWideRate, Wide
<1> QED
  BY <1>1, <1>2, <1>3, InitInv DEF SInv

(* A request that begins writes nothing. *)
LEMMA BeginsAlone ==
  ASSUME SInv, NEW r \in Askers, NEW q, Ask(r, q), Reads, Current(q)
  PROVE  AskAlone' /\ CityNamesOnce' /\ OneWideRate'
<1>1. ask' = [s \in Askers |-> IF s = r THEN q ELSE ask[s]] /\ ask[r] = NoAsk
      /\ met' = IF Asking = {} THEN {} ELSE Asking \cup {r}
  BY DEF Ask, SInv, DInv, Typed
<1>2. Known' = Known /\ \A g : Wide(g)' = Wide(g)
  BY DEF Known, Wide, Reads
<1>3. \A p : Current(p) => Current(p)'
  BY <1>2 DEF Current, Duplicate, Edited, Reads
<1>4. \A s \in Askers \ met' : Current(ask'[s])
  <2>1. ASSUME NEW s \in Askers \ met', s # r PROVE Current(ask[s])
    <3>1. ask[s] = NoAsk
      BY <1>1, <2>1 DEF Asking
    <3> QED
      BY <3>1 DEF Current, NoAsk
  <2> QED
    BY <1>1, <2>1
<1>5. AskAlone'
  <2>1. met' \subseteq Askers /\ overlapped' \in BOOLEAN
    BY <1>1 DEF Asking, Ask, SInv, AskAlone
  <2>2. ASSUME NEW s \in Askers, NEW t \in Askers, s # t, ask'[s] # NoAsk, ask'[t] # NoAsk
        PROVE  s \in met'
    <3>1. s \in Asking \/ t \in Asking
      BY <1>1, <2>2 DEF Asking
    <3> QED
      BY <1>1, <2>2, <3>1 DEF Asking
  <2>3. \A s \in Askers \ met' : Current(ask[s])'
    BY <1>3, <1>4
  <2> QED
    BY <2>1, <2>2, <2>3 DEF AskAlone
<1>6. CityNamesOnce' /\ OneWideRate'
  BY <1>2 DEF SInv, CityNamesOnce, OneWideRate, Ask, Reads
<1> QED
  BY <1>5, <1>6

(* After a request went on or was answered, the others that are left alone *)
(* are none.                                                               *)
LEMMA AskGoesOn ==
  ASSUME SInv, NEW r \in Askers, ask[r] # NoAsk,
         overlapped' \in BOOLEAN,
         Told(r) \/ \E q : GoOn(r, q) /\ (r \notin met => Current(q)')
  PROVE  AskAlone'
<1>1. PICK q : /\ ask' = [s \in Askers |-> IF s = r THEN q ELSE ask[s]]
               /\ met' \subseteq met /\ met \subseteq met' \cup {r}
               /\ q = NoAsk \/ (met' = met /\ (r \notin met => Current(q)'))
  BY DEF Told, GoOn, SInv, DInv, Typed
<1>2. Current(NoAsk)'
  BY DEF Current, NoAsk
<1>3. ASSUME NEW s \in Askers \ met' PROVE Current(ask[s])'
  <2>1. CASE s = r
    BY <1>1, <1>2, <2>1
  <2>2. CASE s # r
    <3>1. ask'[s] = NoAsk
      BY <1>1, <2>2 DEF SInv, AskAlone
    <3> QED
      BY <3>1, <1>2
  <2> QED
    BY <2>1, <2>2
<1>4. ASSUME NEW s \in Askers, NEW t \in Askers, s # t, ask'[s] # NoAsk, ask'[t] # NoAsk
      PROVE  s \in met'
  <2>1. ask[s] # NoAsk /\ ask[t] # NoAsk
    BY <1>1, <1>4
  <2>2. s \in met /\ t \in met
    BY <2>1, <1>4 DEF SInv, AskAlone
  <2> QED
    BY <1>1, <1>4, <2>2
<1> QED
  BY <1>1, <1>3, <1>4 DEF AskAlone, SInv

LEMMA OverlapStays ==
  ASSUME NEW r, overlapped \in BOOLEAN, Wrote(r) \/ UNCHANGED overlapped
  PROVE  overlapped' \in BOOLEAN /\ (overlapped => overlapped')
BY DEF Wrote

(* The requests that write cities: alone, what they looked for still is so;*)
(* the key of the table needs no such luck.                                *)
LEMMA CityWritesSound ==
  ASSUME SInv, NEW r \in Askers, FindCity(r) \/ InsertCity(r) \/ FindOther(r) \/ EditCity(r),
         UNCHANGED <<zones, home, ordered, saves>>
  PROVE  AskAlone' /\ CityNamesOnce' /\ OneWideRate'
<1>t. /\ city \in [Cities -> Row] /\ Carries(ask[r]) /\ CityNamesOnce /\ OneWideRate
      /\ r \notin met => Current(ask[r])
      /\ overlapped \in BOOLEAN
      /\ zones' = zones
  BY DEF SInv, DInv, Typed, AskAlone
<1>0. Wrote(r) \/ UNCHANGED overlapped
  BY DEF FindCity, InsertCity, FindOther, EditCity
<1>1. ask[r] # NoAsk /\ overlapped' \in BOOLEAN /\ (overlapped => overlapped')
  <2>1. ask[r] # NoAsk
    BY DEF FindCity, InsertCity, FindOther, EditCity, NoAsk
  <2> QED
    BY <2>1, <1>0, <1>t, OverlapStays
<1>2. OneWideRate'
  BY <1>t, <1>1 DEF OneWideRate, Wide
<1>3. CASE FindCity(r)
  <2> DEFINE q == ask[r]
  <2>1. UNCHANGED <<city, overlapped>> /\ q \in CityQuery /\ q.op = "findCity"
    BY <1>3, <1>t DEF FindCity, Carries
  <2>2. Told(r) \/ \E p : GoOn(r, p) /\ (r \notin met => Current(p)')
    <3>1. CASE Told(r)
      BY <3>1
    <3>2. CASE Duplicate(q.gov, Head(q.left), Known) /\ GoOn(r, [q EXCEPT !.left = Tail(q.left)])
      <4>1. PICK p : p = [q EXCEPT !.left = Tail(q.left)]
        OBVIOUS
      <4>2. p.op = "findCity"
        BY <2>1, <4>1 DEF CityQuery
      <4>3. Current(p)'
        BY <4>2 DEF Current
      <4> QED
        BY <3>2, <4>1, <4>3
    <3>3. CASE ~ Duplicate(q.gov, Head(q.left), Known) /\ GoOn(r, [q EXCEPT !.op = "insertCity"])
      <4>1. PICK p : p = [q EXCEPT !.op = "insertCity"]
        OBVIOUS
      <4>2. p.op = "insertCity" /\ p.gov = q.gov /\ p.left = q.left
        BY <2>1, <4>1 DEF CityQuery
      <4>3. ~ Duplicate(p.gov, Head(p.left), Known)'
        BY <2>1, <3>3, <4>2 DEF Known, Duplicate
      <4>4. Current(p)'
        BY <4>2, <4>3 DEF Current
      <4> QED
        BY <3>3, <4>1, <4>4
    <3> QED
      BY <1>3, <3>1, <3>2, <3>3 DEF FindCity
  <2>3. CityNamesOnce'
    BY <2>1, <1>t DEF CityNamesOnce, Known
  <2> QED
    BY <1>1, <1>2, <2>2, <2>3, AskGoesOn
<1>4. CASE InsertCity(r)
  <2> DEFINE q == ask[r]
             e == Head(q.left)
  <2>1. q \in CityQuery /\ q.op = "insertCity"
    BY <1>4, <1>t DEF InsertCity, Carries
  <2>2. CASE Told(r) /\ UNCHANGED <<city, overlapped>>
    <3>1. CityNamesOnce'
      BY <2>2, <1>t DEF CityNamesOnce, Known
    <3> QED
      BY <1>1, <1>2, <2>2, <3>1, AskGoesOn
  <2>3. CASE ~ SlugTaken(q.gov, e.latin, Known) /\ ~ (Told(r) /\ UNCHANGED <<city, overlapped>>)
    <3>1. /\ GoOn(r, [q EXCEPT !.op = "findCity", !.left = Tail(q.left)])
          /\ Wrote(r)
      BY <1>4, <2>3 DEF InsertCity
    <3>2. PICK c \in Cities :
            /\ city[c].state = "absent"
            /\ city' = [city EXCEPT ![c] = [state |-> "known", gov |-> q.gov, name |-> e.name,
                                            latin |-> e.latin, active |-> q.active]]
      BY <1>4, <2>3 DEF InsertCity
    <3>3. PICK p : p = [q EXCEPT !.op = "findCity", !.left = Tail(q.left)]
      OBVIOUS
    <3>8. Current(p)'
      <4>1. p.op = "findCity"
        BY <2>1, <3>3 DEF CityQuery
      <4> QED
        BY <4>1 DEF Current
    <3>4. /\ Known' = Known \cup {c} /\ c \notin Known
          /\ city'[c].gov = q.gov /\ city'[c].name = e.name /\ city'[c].latin = e.latin
          /\ \A d \in Known : city'[d] = city[d]
      BY <3>2, <1>t DEF Known
    <3>5. \A d \in Known : city[d].gov = q.gov => city[d].latin # e.latin
      BY <2>3 DEF SlugTaken
    <3>6. ~ overlapped' => ~ overlapped /\ \A d \in Known : city[d].gov = q.gov => city[d].name # e.name
      BY <3>1, <2>1, <1>t DEF Wrote, Current, Duplicate
    <3>7. CityNamesOnce'
      BY <3>4, <3>5, <3>6, <1>t DEF CityNamesOnce
    <3> QED
      BY <1>1, <1>2, <3>1, <3>3, <3>7, <3>8, AskGoesOn
  <2> QED
    BY <1>4, <2>2, <2>3 DEF InsertCity
<1>5. CASE EditCity(r)
  <2> DEFINE q == ask[r]
             c == q.about
  <2>1. q \in EditQuery /\ q.op = "editCity" /\ Told(r)
    BY <1>5, <1>t DEF EditCity, Carries
  <2>2. CASE UNCHANGED <<city, overlapped>>
    <3>1. CityNamesOnce'
      BY <2>2, <1>t DEF CityNamesOnce, Known
    <3> QED
      BY <1>1, <1>2, <2>1, <3>1, AskGoesOn
  <2>3. CASE c \in Known /\ ~ SlugTaken(Edited(q).gov, q.entry.latin, Known \ {c})
    <3>1. city' = [city EXCEPT ![c] = Edited(q)] /\ Wrote(r)
      BY <1>5, <2>3 DEF EditCity
    <3>2. PICK w : w = Edited(q)
      OBVIOUS
    <3>3. w.latin = q.entry.latin /\ w.state = "known"
      BY <2>3, <3>2, <1>t DEF Edited, Known, Row
    <3>4. /\ Known' = Known /\ city'[c] = w
          /\ \A d \in Known \ {c} : city'[d] = city[d]
      BY <3>1, <3>2, <3>3, <2>3, <1>t DEF Known
    <3>5. \A d \in Known \ {c} : city[d].gov = w.gov => city[d].latin # w.latin
      BY <2>3, <3>2, <3>3 DEF SlugTaken
    <3>6. ~ overlapped' => ~ overlapped /\ \A d \in Known \ {c} : city[d].gov = w.gov => city[d].name # w.name
      <4> SUFFICES ASSUME ~ overlapped', NEW d \in Known \ {c}, city[d].gov = w.gov
                   PROVE  ~ overlapped /\ city[d].name # w.name
        BY <1>1, <3>1, <1>t DEF Wrote
      <4>1. ~ overlapped /\ Current(q)
        BY <3>1, <1>t DEF Wrote
      <4>2. w.gov = q.gov /\ w.name = q.entry.name
        BY <4>1, <2>1, <2>3, <3>2 DEF Current
      <4>3. CASE city[c].gov = q.gov /\ city[c].name = q.entry.name
        BY <4>1, <4>2, <4>3, <2>3, <1>t DEF CityNamesOnce
      <4>4. CASE ~ Duplicate(q.gov, q.entry, Known \ {c})
        BY <4>1, <4>2, <4>4 DEF Duplicate
      <4> QED
        BY <4>1, <2>1, <2>3, <4>3, <4>4 DEF Current
    <3>7. CityNamesOnce'
      BY <3>4, <3>5, <3>6, <2>3, <1>t DEF CityNamesOnce
    <3> QED
      BY <1>1, <1>2, <2>1, <3>7, AskGoesOn
  <2> QED
    BY <1>5, <2>2, <2>3 DEF EditCity
<1>6. CASE FindOther(r)
  <2> DEFINE q == ask[r]
  <2>1. UNCHANGED <<city, overlapped>> /\ q \in EditQuery /\ q.op = "findOther"
    BY <1>6, <1>t DEF FindOther, Carries
  <2>2. CityNamesOnce'
    BY <2>1, <1>t DEF CityNamesOnce, Known
  <2>3. CASE Told(r)
    BY <1>1, <1>2, <2>2, <2>3, AskGoesOn
  <2>4. CASE ~ Duplicate(q.gov, q.entry, Known \ {q.about}) /\ GoOn(r, [q EXCEPT !.op = "editCity"])
    <3>1. PICK p : p = [q EXCEPT !.op = "editCity"]
      OBVIOUS
    <3>2. /\ p.op = "editCity" /\ p.about = q.about /\ p.gov = q.gov /\ p.entry = q.entry
          /\ p.form = q.form /\ p.active = q.active
      BY <2>1, <3>1 DEF EditQuery
    <3>3. Edited(p)' = Edited(q)
      BY <2>1, <3>2 DEF Edited
    <3>4. Known' = Known /\ ~ Duplicate(p.gov, p.entry, Known \ {p.about})'
      BY <2>1, <2>4, <3>2 DEF Known, Duplicate
    <3>5. r \notin met => Current(p)'
      BY <2>1, <3>2, <3>3, <3>4, <1>t DEF Current
    <3> QED
      BY <1>1, <1>2, <2>2, <2>4, <3>1, <3>5, AskGoesOn
  <2> QED
    BY <1>6, <2>3, <2>4 DEF FindOther
<1> QED
  BY <1>3, <1>4, <1>5, <1>6

(* Those that write rates: a governorate gets a rate of its own where there*)
(* was none, and a city that is deleted leaves none behind, if they were   *)
(* alone.                                                                  *)
LEMMA RateWritesSound ==
  ASSUME SInv, NEW r \in Askers,
         SetWide(r) \/ DropRate(r) \/ PutRates(r) \/ SaveHome(r) \/ PlaceOrder(r) \/ RemoveCity(r)
  PROVE  AskAlone' /\ CityNamesOnce' /\ OneWideRate'
<1> USE DeliveryAssumption
<1>t. /\ city \in [Cities -> Row] /\ Carries(ask[r]) /\ CityNamesOnce /\ OneWideRate
      /\ r \notin met => Current(ask[r])
      /\ overlapped \in BOOLEAN
      /\ zones \subseteq Rate /\ saves \in Nat
  BY DEF SInv, DInv, Typed, AskAlone
<1>0. /\ Wrote(r) \/ Fails(r)
      /\ Fails(r) => UNCHANGED overlapped
      /\ overlapped' \in BOOLEAN /\ (overlapped => overlapped')
  <2>1. Wrote(r) \/ Fails(r)
    BY DEF SetWide, DropRate, PutRates, SaveHome, PlaceOrder, RemoveCity, Saves
  <2>2. Fails(r) => UNCHANGED overlapped
    BY DEF Fails
  <2> QED
    BY <2>1, <2>2, <1>t, OverlapStays
<1>1. AskAlone'
  <2>1. ask[r] # NoAsk /\ Told(r)
    BY DEF SetWide, DropRate, PutRates, SaveHome, PlaceOrder, RemoveCity, Saves, Fails, NoAsk
  <2> QED
    BY <2>1, <1>0, AskGoesOn
<1>2. CityNamesOnce'
  <2>1. overlapped => overlapped'
    BY <1>0
  <2>2. CASE city' = city
    BY <2>1, <2>2, <1>t DEF CityNamesOnce, Known
  <2>3. CASE RemoveCity(r) /\ city' # city
    <3>1. city' = [city EXCEPT ![ask[r].about].state = "gone"]
      BY <2>3 DEF RemoveCity, Fails
    <3>2. Known' \subseteq Known /\ \A c \in Known' : city'[c] = city[c]
      BY <3>1, <1>t DEF Known, Row
    <3> QED
      BY <3>2, <2>1, <1>t DEF CityNamesOnce
  <2> QED
    BY <2>2, <2>3 DEF SetWide, DropRate, PutRates, SaveHome, PlaceOrder, Fails
<1>3. OneWideRate'
  <2> SUFFICES ASSUME ~ overlapped', NEW g \in Governorates, NEW y \in zones', NEW z \in zones',
                      y.gov = g, y.city = Whole, z.gov = g, z.city = Whole
               PROVE  y = z
    BY DEF OneWideRate, Wide
  <2>1. Fails(r) \/ r \notin met
    BY <1>0 DEF Wrote
  <2>2. ~ overlapped /\ \A a, b \in zones : a.gov = g /\ a.city = Whole /\ b.gov = g /\ b.city = Whole => a = b
    BY <1>t, <1>0 DEF OneWideRate, Wide
  <2>3. CASE zones' \subseteq zones
    BY <2>2, <2>3
  <2>4. CASE SetWide(r) /\ ~ Fails(r)
    <3>1. ask[r] \in WideQuery /\ ask[r].op = "setWide" /\ ask[r].cost \in Nat
      BY <2>4, <1>t DEF SetWide, Carries, WideQuery
    <3>2. CASE ask[r].row = {}
      <4> DEFINE new == [NewRate(ask[r].gov, Whole) EXCEPT !.cost = ask[r].cost]
      <4>1. zones' = zones \cup {new} /\ Wide(ask[r].gov) = {}
        BY <2>1, <2>4, <3>1, <3>2, <1>t DEF SetWide, Current
      <4>2. new.gov = ask[r].gov
        BY DEF NewRate
      <4> HIDE DEF new
      <4>3. \A a \in zones : ~ (a.gov = ask[r].gov /\ a.city = Whole)
        BY <4>1 DEF Wide
      <4> QED
        BY <4>1, <4>2, <4>3, <2>2
    <3>3. CASE ask[r].row # {}
      <4> DEFINE kept(a) == IF a \in Still(ask[r].row) THEN [a EXCEPT !.cost = ask[r].cost] ELSE a
      <4>1. zones' = {kept(a) : a \in zones}
        BY <2>4, <3>3 DEF SetWide
      <4>2. \A a \in zones : kept(a).gov = a.gov /\ kept(a).city = a.city
        BY <1>t DEF Rate
      <4> HIDE DEF kept
      <4> QED
        BY <4>1, <4>2, <2>2
    <3> QED
      BY <3>2, <3>3
  <2>5. CASE PutRates(r) /\ ~ Fails(r)
    <3>1. ask[r] \in PutQuery /\ zones' = Put(ask[r].targets, ask[r].change)
      BY <2>5, <1>t DEF PutRates, Carries
    <3>2. ask[r].targets \in SUBSET [gov : Governorates, city : Cities]
      BY <3>1 DEF PutQuery
    <3> DEFINE kept(a) == IF [gov |-> a.gov, city |-> a.city] \in ask[r].targets THEN Changed(a, ask[r].change) ELSE a
               new(t) == Changed(NewRate(t.gov, t.city), ask[r].change)
    <3>3. \A a \in zones : kept(a).gov = a.gov /\ kept(a).city = a.city
      BY <1>t DEF Rate, Changed
    <3>4. \A t \in ask[r].targets : new(t).city # Whole
      BY <3>2 DEF NewRate, Changed
    <3>5. \A a \in zones' : a.city = Whole => \E b \in zones : a = kept(b)
      BY <3>1, <3>4 DEF Put
    <3> HIDE DEF kept, new
    <3> QED
      BY <3>3, <3>5, <2>2
  <2>6. CASE RemoveCity(r) /\ ~ Fails(r)
    <3>1. zones' = {Cleared(a, ask[r].about) : a \in zones} /\ \A a \in zones : a.city # ask[r].about
      BY <2>1, <2>6, <1>t DEF RemoveCity, Current
    <3>2. \A a \in zones : Cleared(a, ask[r].about) = a
      BY <3>1 DEF Cleared
    <3>3. zones' = zones
      BY <3>1, <3>2
    <3> QED
      BY <2>3, <3>3
  <2> QED
    BY <2>3, <2>4, <2>5, <2>6 DEF DropRate, SaveHome, PlaceOrder, Fails
<1> QED
  BY <1>1, <1>2, <1>3

(* A removal that counts writes nothing.                                   *)
LEMMA CountsSound ==
  ASSUME SInv, NEW r \in Askers, CountRates(r) \/ CountOrders(r) \/ CountHomes(r)
  PROVE  AskAlone' /\ CityNamesOnce' /\ OneWideRate'
<1> DEFINE p == ask[r]
<1>1. /\ p \in RemoveQuery /\ p.op = "removeCity" /\ p # NoAsk /\ (r \notin met => Current(p))
      /\ overlapped \in BOOLEAN /\ saves \in Nat
      /\ UNCHANGED <<city, overlapped, zones, home, ordered, saves>>
  BY DEF SInv, AskAlone, DInv, Typed, Carries, CountRates, CountOrders, CountHomes, Counting, NoAsk
<1>2. Told(r) \/ \E q : GoOn(r, q) /\ (r \notin met => Current(q)')
  <2>1. CASE CountRates(r) /\ ~ Told(r)
    <3>1. PICK q : q = [p EXCEPT !.rates = saves]
      OBVIOUS
    <3>2. q.op = "removeCity" /\ q.about = p.about
      BY <1>1, <3>1 DEF RemoveQuery
    <3>3. GoOn(r, q) /\ \A z \in zones : z.city # q.about
      BY <2>1, <3>1, <3>2 DEF CountRates
    <3>4. Current(q)'
      BY <1>1, <3>2, <3>3 DEF Current
    <3> QED
      BY <3>3, <3>4
  <2>2. ASSUME NEW q, GoOn(r, q), q.op = "removeCity", q.about = p.about, q.rates = p.rates
        PROVE  GoOn(r, q) /\ (r \notin met => Current(q)')
    BY <1>1, <2>2 DEF Current
  <2>3. CASE CountOrders(r) /\ ~ Told(r)
    <3>1. PICK q : q = [p EXCEPT !.orders = saves]
      OBVIOUS
    <3>2. GoOn(r, q) /\ q.op = "removeCity" /\ q.about = p.about /\ q.rates = p.rates
      BY <1>1, <2>3, <3>1 DEF RemoveQuery, CountOrders
    <3> QED
      BY <2>2, <3>2
  <2>4. CASE CountHomes(r) /\ ~ Told(r)
    <3>1. PICK q : q = [p EXCEPT !.homes = saves]
      OBVIOUS
    <3>2. GoOn(r, q) /\ q.op = "removeCity" /\ q.about = p.about /\ q.rates = p.rates
      BY <1>1, <2>4, <3>1 DEF RemoveQuery, CountHomes
    <3> QED
      BY <2>2, <3>2
  <2> QED
    BY <2>1, <2>3, <2>4
<1>3. AskAlone'
  BY <1>1, <1>2, AskGoesOn
<1>4. CityNamesOnce' /\ OneWideRate'
  BY <1>1 DEF SInv, CityNamesOnce, OneWideRate, Known, Wide
<1> QED
  BY <1>3, <1>4

LEMMA StepSound == SInv /\ [DeliveryNext]_deliveryVars => SInv'
<1> SUFFICES ASSUME SInv, [DeliveryNext]_deliveryVars PROVE AskAlone' /\ CityNamesOnce' /\ OneWideRate'
  BY StepInv DEF SInv
<1>t. SInv
  OBVIOUS
<1>1. CASE UNCHANGED deliveryVars
  BY <1>1, <1>t DEF SInv, AskAlone, CityNamesOnce, OneWideRate, Current, Duplicate, Edited, Known, Wide, deliveryVars
(* The requests that begin. *)
<1>2. ASSUME NEW r \in Askers, NEW q, Ask(r, q), Reads,
             q.op \notin {"insertCity", "findOther", "editCity", "setWide", "removeCity"}
      PROVE  AskAlone' /\ CityNamesOnce' /\ OneWideRate'
  BY <1>2, BeginsAlone DEF Current
<1>3. ASSUME NEW r \in Askers, NEW c \in Known, BeginRemoveCity(r, c)
      PROVE  AskAlone' /\ CityNamesOnce' /\ OneWideRate'
  <2> DEFINE q == [op |-> "removeCity", about |-> c, rates |-> NotYet, orders |-> NotYet, homes |-> NotYet]
  <2>1. Current(q)
    BY DEF Current
  <2> QED
    BY <1>3, <2>1, BeginsAlone DEF BeginRemoveCity
<1>4. ASSUME NEW r \in Askers, NEW g \in Governorates, NEW n \in Costs, BeginSetWide(r, g, n)
      PROVE  AskAlone' /\ CityNamesOnce' /\ OneWideRate'
  <2>1. PICK row : /\ Ask(r, [op |-> "setWide", gov |-> g, cost |-> n, row |-> row])
                   /\ row = {} => Wide(g) = {}
    BY <1>4 DEF BeginSetWide
  <2>2. Current([op |-> "setWide", gov |-> g, cost |-> n, row |-> row])
    BY <2>1 DEF Current
  <2> QED
    BY <1>4, <2>1, <2>2, BeginsAlone DEF BeginSetWide
<1>5. ASSUME NEW r \in Askers, NEW g \in Governorates, NEW e \in Offers, NEW b \in BOOLEAN,
             UNCHANGED <<zones, home, ordered, saves>>, BeginCity(r, g, e, b)
      PROVE  AskAlone' /\ CityNamesOnce' /\ OneWideRate'
  <2>1. Current([op |-> "insertCity", gov |-> g, left |-> <<e>>, active |-> b])
    BY <1>5 DEF BeginCity, Current
  <2> QED
    BY <1>5, <2>1, BeginsAlone DEF BeginCity, Reads
<1>8. ASSUME NEW r \in Askers, NEW c \in Known, NEW f \in Edits, NEW b \in BOOLEAN,
             UNCHANGED <<zones, home, ordered, saves>>, BeginEditCity(r, c, f, b)
      PROVE  AskAlone' /\ CityNamesOnce' /\ OneWideRate'
  <2>1. PICK g, n, l : g = Given(f.gov, city[c].gov) /\ n = Given(f.name, city[c].name) /\ l = Given(f.latin, city[c].latin)
    OBVIOUS
  <2>2. PICK o : o = IF g = city[c].gov /\ n = city[c].name /\ l = city[c].latin THEN "editCity" ELSE "findOther"
    OBVIOUS
  <2> DEFINE q == [op |-> o, about |-> c, gov |-> g, entry |-> [name |-> n, latin |-> l], form |-> f, active |-> b]
  <2>3. Ask(r, q) /\ Reads
    BY <1>8, <2>1, <2>2 DEF BeginEditCity, Reads
  <2>4. c \in Cities /\ city[c] \in Row
    BY DEF SInv, DInv, Typed, Known
  <2>5. Edited(q).gov = g /\ Edited(q).name = n
    BY <2>1, <2>4 DEF Edited, Row
  <2>6. Current(q)
    BY <2>2, <2>5 DEF Current
  <2> QED
    BY <2>3, <2>6, BeginsAlone
<1>6. CASE CitiesNext /\ UNCHANGED <<zones, home, ordered, saves>>
  <2>1. ASSUME NEW r \in Askers, NEW g \in Governorates, NEW es \in Lists, BeginCities(r, g, es)
        PROVE  AskAlone' /\ CityNamesOnce' /\ OneWideRate'
    BY <1>2, <1>6, <2>1 DEF BeginCities, Reads
  <2> QED
    BY <1>5, <1>6, <1>8, <2>1, CityWritesSound DEF CitiesNext
<1>7. ASSUME NEW r \in Askers,
             \/ \E z \in zones : BeginDrop(r, z) \/ \E cs \in SUBSET Known : BeginCopy(r, z, cs)
             \/ \E cs \in SUBSET Known, ch \in Changes : BeginSetRates(r, cs, ch)
             \/ \E c \in Known : BeginSaveHome(r, c)
             \/ \E g \in Governorates : BeginMoveHome(r, g) \/ \E c \in Known : BeginOrder(r, g, c)
      PROVE  AskAlone' /\ CityNamesOnce' /\ OneWideRate'
  <2>1. CASE \E z \in zones : BeginDrop(r, z)
    BY <1>2, <2>1 DEF BeginDrop
  <2>2. ASSUME NEW cs, NEW ch, BeginPut(r, cs, ch)
        PROVE  AskAlone' /\ CityNamesOnce' /\ OneWideRate'
    BY <1>2, <2>2 DEF BeginPut
  <2>3. CASE \E c \in Known : BeginSaveHome(r, c)
    BY <1>2, <2>3 DEF BeginSaveHome
  <2>4. CASE \E g \in Governorates : BeginMoveHome(r, g)
    BY <1>2, <2>4 DEF BeginMoveHome
  <2>5. CASE \E g \in Governorates, c \in Known : BeginOrder(r, g, c)
    BY <1>2, <2>5 DEF BeginOrder
  <2> QED
    BY <1>7, <2>1, <2>2, <2>3, <2>4, <2>5 DEF BeginCopy, BeginSetRates
<1> QED
  BY <1>1, <1>3, <1>4, <1>6, <1>7, CountsSound, RateWritesSound DEF DeliveryNext

(* The queries that quote a rate agree in every state in which the cities  *)
(* and the rates are rows of their tables.                                 *)
LEMMA QuotesOfRows == DInv => QuotesAgree
<1> SUFFICES ASSUME DInv PROVE QuotesAgree
  OBVIOUS
<1>1. ASSUME NEW g \in Governorates, NEW c \in ListedCities(g)
      PROVE  Quoted(g, c) = Charge(g, c) /\ Charge(g, c) \subseteq Configured(g)
  <2>1. c \in Known /\ city[c].gov = g
    BY DEF ListedCities
  <2>2. Charge(g, c) = {z \in RateOf(g, c) : z.open = "yes"}
    BY <2>1 DEF Charge
  <2>3. Quoted(g, c) = {z \in RateOf(g, c) : z.open = "yes"}
    BY DEF Quoted, OpenCities
  <2>4. RateOf(g, c) \subseteq Configured(g)
    BY DEF Configured
  <2> QED
    BY <2>2, <2>3, <2>4
<1>2. ASSUME Revalidated # {}, city[home.city].gov = home.gov PROVE Charge(home.gov, home.city) = Revalidated
  BY <1>2 DEF Revalidated, Charge
<1>3. ASSUME home # NoHome, Charge(home.gov, home.city) # {}, city[home.city].active
      PROVE  Revalidated = Charge(home.gov, home.city)
  BY <1>3 DEF Revalidated, Charge
<1> QED
  BY <1>1, <1>2, <1>3 DEF QuotesAgree

(* Cities and rates stay single and the quotes agree (locations, shipping, *)
(* listCitiesForStore, revalidateAddressForStore, createOrder): what a key *)
(* of a table keeps, always, what a look before a write keeps, as long as  *)
(* no request that wrote met another.                                      *)
THEOREM DeliveryKept == DeliverySpec => []DeliverySound
<1>1. SInv => DeliverySound
  BY QuotesOfRows DEF SInv, DInv, DeliverySound
<1> QED
  BY InitSound, StepSound, <1>1, PTL DEF DeliverySpec

-----------------------------------------------------------------------------
(* A step of the account is a step of each of its parts, or none of it.    *)
LEMMA AccountParts ==
  /\ Init => BInv /\ CInv /\ DInv /\ SInv
  /\ [Next]_vars => [BookNext]_bookVars /\ [ChatNext]_chatVars /\ [DeliveryNext]_deliveryVars
  BY BookStarts, ChatStarts, InitInv, InitSound DEF Init, Next, vars

(* Requests of one book that do not overlap keep one default               *)
(* (account.service.ts).                                                   *)
THEOREM BookKept == Spec => []BookSound
<1>1. BInv => BookSound
  BY BookOfRows DEF BookSound
<1> QED
  BY AccountParts, BookStep, <1>1, PTL DEF Spec

(* lastMessageAt, readAt and the unread counts, whatever overlaps          *)
(* (messaging.service.ts, customer-chat.service.ts).                       *)
THEOREM ThreadsKept == Spec => []ThreadsSound
<1>1. CInv => ThreadsSound
  BY DEF CInv, ThreadsSound
<1> QED
  BY AccountParts, ChatStep, <1>1, PTL DEF Spec

(* The account delivers as Delivery alone does: both theorems above hold   *)
(* of it.                                                                  *)
THEOREM AccountDelivers == Spec => DeliverySpec
  BY AccountParts, PTL DEF Spec, DeliverySpec, Init

THEOREM AccountRatesKept == Spec => []DeliverySound /\ KeepTheirCity
  BY AccountDelivers, DeliveryKept, CitiesKept, PTL
=============================================================================
