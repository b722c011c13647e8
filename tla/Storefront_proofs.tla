-------------------------- MODULE Storefront_proofs --------------------------
(***************************************************************************)
(* Proofs about Catalogue and Storefront: nothing an order, the ledger or  *)
(* an image row refers to is stranded, the plan's limit of products is     *)
(* overrun by concurrent creations only, and the shop's caches and ratings *)
(* are as fresh as the handlers allow.                                     *)
(***************************************************************************)
EXTENDS Storefront, FiniteSetTheorems, TLAPS

-----------------------------------------------------------------------------
(* What the requests carry from what they read to what they write.         *)
VariantsOf(p) == {v \in Variants : VariantOf[v] = p}
FilesOf(p)    == {f \in Files : FileOf[f] = p}
AnyForm       == [variants : SUBSET Variants, images : SUBSET Files]
Reviews       == [Customers -> Ratings \cup {0}]

FormReq    == [kind : {"create", "update", "saving"}, id : Products, form : AnyForm]
CountedReq == [kind : {"counted"}, id : Products, form : AnyForm, drop : SUBSET Variants, seen : SUBSET Variants]
RemoveReq  == [kind : {"remove"}, id : Products, files : SUBSET Files]
CleanReq   == [kind : {"cleanup"}, files : SUBSET Files, at : Nat]
VariantReq == [kind : {"buying", "selling", "adjusting"}, variant : Variants]
SoldReq    == [kind : {"sold"}, order : Orders]
NameReq    == [kind : {"naming", "named"}, filter : Filters]
AwaitReq   == [kind : {"awaiting"}, filter : Filters, on : Requests \cup {Nobody}]
ResolveReq == [kind : {"resolving"}, read : 0..TTL + 1]
FetchReq   == [kind : {"fetching"}, filter : Filters, floor : SUBSET Orders]
WaitReq    == [kind : {"waiting"}, filter : Filters, floor : SUBSET Orders, on : Requests \cup {Nobody},
               age : Nat]
ServedReq  == [kind : {"served"}, filter : Filters, floor : SUBSET Orders, rows : SUBSET Orders, from : Filters,
               age : Nat]
ReviewReq  == [kind : {"reviewed"}, product : Products]
AggReq     == [kind : {"aggregated"}, product : Products, seen : Reviews]

CatalogueReq  == FormReq \cup CountedReq \cup RemoveReq \cup CleanReq \cup VariantReq \cup SoldReq
StorefrontReq == NameReq \cup AwaitReq \cup ResolveReq \cup FetchReq \cup WaitReq \cup ServedReq \cup ReviewReq \cup AggReq
AnyRequest    == {Idle} \cup CatalogueReq \cup StorefrontReq

(* Rows that answer a request: the placed orders of the filter, at least   *)
(* those of the floor.                                                     *)
Sound(floor, from, rows) ==
  /\ floor \cap Listed(from) \subseteq rows
  /\ \A o \in rows : o \in Placed /\ ProductOf(o) \in Matching[from]

(* What a request has read is still so: a form holds the product's row, so *)
(* that no sale of a variant it will drop commits; a sale or an adjustment *)
(* holds the variant's; image rows newer than a clean-up are told by their *)
(* commit.                                                                 *)
Knows(r) ==
  /\ r.kind \in {"create", "update", "saving", "counted"} =>
       r.form \in FormOf(r.id) /\ Cardinality(r.form.images) <= ImageLimit
  /\ r.kind \in {"saving", "counted"} => product[r.id] = "row"
  /\ r.kind = "counted" => /\ r.drop \subseteq VariantsOf(r.id) \ r.form.variants
                           /\ r.drop \cap Sold = {} /\ r.drop \cap r.seen = {}
  /\ r.kind = "remove" => r.files \subseteq FilesOf(r.id)
  /\ r.kind = "cleanup" => /\ r.at <= handled
                           /\ \A f \in r.files : \A p \in Products : image[p][f] = 0 \/ image[p][f] > r.at
  /\ r.kind \in {"selling", "adjusting"} => variant[r.variant] # "gone"
  /\ r.kind = "sold" => r.order \in Placed
  /\ r.kind \in {"fetching", "waiting", "served"} => r.floor \subseteq Placed
  /\ r.kind = "served" => Sound(r.floor, r.from, r.rows) /\ r.age < TTL

OwnFiles == \A p \in Products : Images(p) \subseteq FilesOf(p)

(* Every creation under way found room for one product more.               *)
Creating    == {q \in Requests : request[q].kind = "create"}
CreateBound == /\ IsFiniteSet(Existing)
               /\ Cardinality(Existing) + Cardinality(Creating) < MaxProducts + Cardinality(Requests)

KInv ==
  /\ CatalogueTypeOK
  /\ request \in [Requests -> AnyRequest]
  /\ \A q \in Requests : Knows(request[q])
  /\ OwnFiles /\ LinesResolve /\ CreateBound

(* The caches and the ratings.                                             *)
IdEntry  == [by : Requests \cup {Nobody}, age : 0..TTL, lag : 0..TTL + 1]
CacheInv ==
  /\ open \in BOOLEAN /\ closedFor \in 0..TTL + 1
  /\ idCache = NoEntry \/ idCache \in IdEntry
  /\ ClosedStoreHidden
  /\ \A q \in Requests : request[q].kind = "resolving" =>
       request[q] \in ResolveReq /\ (~ open => closedFor <= request[q].read)

Entry == [by : Requests \cup {Nobody}, filter : Filters, age : 0..TTL, rows : SUBSET Placed]
EntryInv ==
  /\ bestsellers = NoEntry \/ bestsellers \in Entry
  /\ invalidated \subseteq Placed
  /\ bestsellers # NoEntry /\ bestsellers.by = Nobody => Sound(invalidated, bestsellers.filter, bestsellers.rows)

Aggregates == [sum : Nat, count : Nat]
RatingOK(a) == a.count \in 0..Cardinality(Customers) /\ a.sum \in a.count..5 * a.count
RatingInv ==
  /\ review \in [Products -> Reviews]
  /\ rating \in [Products -> Aggregates]
  /\ \A p \in Products : RatingOK(rating[p])
  /\ missed \subseteq Products
  /\ \A p \in Products : product[p] # "gone" => rating[p] = Agg(review[p]) \/ Recomputing(p) \/ p \in missed

ShopInv == KInv /\ CacheInv /\ EntryInv /\ RatingInv

-----------------------------------------------------------------------------
LEMMA RequestOf ==
  ASSUME KInv, NEW q \in Requests
  PROVE  /\ request[q] \in AnyRequest /\ Knows(request[q])
         /\ request[q].kind = "idle" => request[q] = Idle
         /\ request[q].kind \in {"create", "update", "saving"} => request[q] \in FormReq
         /\ request[q].kind = "counted" => request[q] \in CountedReq
         /\ request[q].kind = "remove" => request[q] \in RemoveReq
         /\ request[q].kind = "cleanup" => request[q] \in CleanReq
         /\ request[q].kind \in {"buying", "selling", "adjusting"} => request[q] \in VariantReq
         /\ request[q].kind = "sold" => request[q] \in SoldReq
         /\ request[q].kind \in {"naming", "named"} => request[q] \in NameReq
         /\ request[q].kind = "awaiting" => request[q] \in AwaitReq
         /\ request[q].kind = "resolving" => request[q] \in ResolveReq
         /\ request[q].kind = "fetching" => request[q] \in FetchReq
         /\ request[q].kind = "waiting" => request[q] \in WaitReq
         /\ request[q].kind = "served" => request[q] \in ServedReq
         /\ request[q].kind = "reviewed" => request[q] \in ReviewReq
         /\ request[q].kind = "aggregated" => request[q] \in AggReq
<1>1. request[q] \in AnyRequest /\ Knows(request[q])
  BY DEF KInv
<1> QED
  BY <1>1 DEF AnyRequest, CatalogueReq, StorefrontReq, Idle, FormReq, CountedReq, RemoveReq, CleanReq, VariantReq,
              SoldReq, NameReq, AwaitReq, ResolveReq, FetchReq, WaitReq, ServedReq, ReviewReq, AggReq

LEMMA IdleKnown == Idle \in AnyRequest /\ Knows(Idle) /\ Knows(Idle)' /\ Idle.kind = "idle"
  BY DEF Idle, AnyRequest, Knows

(* A placed order keeps its line, and a product that is gone stays so.     *)
Steady ==
  /\ Placed \subseteq Placed'
  /\ \A o \in Placed : line'[o] = line[o]
  /\ \A p \in Products : product'[p] # "gone" => product[p] # "gone"

LEMMA SoundStays ==
  ASSUME KInv, Steady, NEW floor, NEW from \in Filters, NEW rows, floor \subseteq Placed, Sound(floor, from, rows)
  PROVE  Sound(floor, from, rows)'
<1>1. \A o \in Placed : ProductOf(o)' = ProductOf(o) /\ ProductOf(o) \in Products
  BY RowsAssumption DEF Steady, ProductOf, Placed, KInv, CatalogueTypeOK
<1>2. \A o \in Placed : o \in Listed(from)' => o \in Listed(from)
  BY <1>1 DEF Steady, Listed
<1> QED
  BY <1>1, <1>2 DEF Sound, Steady

(* A step that leaves every request what it has read.                      *)
Gentle ==
  /\ handled <= handled'
  /\ \A p \in Products : product[p] = "row" /\ Locked(p) => product'[p] = "row"
  /\ \A v \in Variants : Locked(VariantOf[v]) /\ v \in Sold' => v \in Sold
  /\ \A p \in Products, f \in Files : \/ image'[p][f] = image[p][f] \/ image'[p][f] = 0
                                      \/ image'[p][f] > handled
  /\ \A v \in Variants : Held(v) /\ variant[v] # "gone" => variant'[v] # "gone"
  /\ Steady

LEMMA GentleKnows ==
  ASSUME KInv, Gentle, NEW q \in Requests, NEW r, r = request[q], handled \in Nat, handled' \in Nat,
         \A p \in Products, f \in Files : image'[p][f] \in Nat
  PROVE  Knows(r)'
<1>1. Knows(r) /\ r \in AnyRequest
  BY RequestOf
<1>2. ASSUME r.kind \in {"create", "update", "saving"} PROVE Knows(r)'
  <2>1. r \in FormReq
    BY <1>2, RequestOf
  <2>2. r.kind = "saving" => Locked(r.id)
    BY DEF Locked
  <2> QED
    BY <1>1, <1>2, <2>1, <2>2 DEF Knows, FormReq, Gentle
<1>3. ASSUME r.kind = "counted" PROVE Knows(r)'
  <2>1. r \in CountedReq
    BY <1>3, RequestOf
  <2>2. Locked(r.id)
    BY <1>3 DEF Locked
  <2>3. \A v \in r.drop : v \in Variants /\ VariantOf[v] = r.id
    BY <1>1, <1>3 DEF Knows, VariantsOf
  <2>4. r.drop \cap Sold' = {}
    BY <1>1, <1>3, <2>2, <2>3 DEF Knows, Gentle
  <2>5. product'[r.id] = "row"
    BY <1>1, <1>3, <2>1, <2>2 DEF Knows, Gentle, CountedReq
  <2> QED
    BY <1>1, <1>3, <2>4, <2>5 DEF Knows
<1>4. ASSUME r.kind = "remove" PROVE Knows(r)'
  BY <1>1, <1>4 DEF Knows
<1>5. ASSUME r.kind = "cleanup" PROVE Knows(r)'
  <2>1. r \in CleanReq
    BY <1>5, RequestOf
  <2>2. r.at \in Nat /\ r.at <= handled /\ r.at <= handled' /\ r.files \subseteq Files
    BY <1>1, <1>5, <2>1 DEF Knows, CleanReq, Gentle
  <2>3. ASSUME NEW f \in r.files, NEW p \in Products PROVE image'[p][f] = 0 \/ image'[p][f] > r.at
    <3>1. image[p][f] = 0 \/ image[p][f] > r.at
      BY <1>1, <1>5 DEF Knows
    <3>2. image'[p][f] = image[p][f] \/ image'[p][f] = 0 \/ image'[p][f] > handled
      BY <2>2 DEF Gentle
    <3> QED
      BY <2>2, <3>1, <3>2
  <2> QED
    BY <1>5, <2>2, <2>3 DEF Knows
<1>6. ASSUME r.kind \in {"buying", "selling", "adjusting"} PROVE Knows(r)'
  <2>1. r \in VariantReq
    BY <1>6, RequestOf
  <2>2. r.kind \in {"selling", "adjusting"} => Held(r.variant)
    BY DEF Held
  <2> QED
    BY <1>1, <1>6, <2>1, <2>2 DEF Knows, VariantReq, Gentle
<1>7. ASSUME r.kind = "sold" PROVE Knows(r)'
  BY <1>1, <1>7 DEF Knows, Gentle, Steady
<1>8. ASSUME r.kind \in {"fetching", "waiting", "served"} PROVE Knows(r)'
  <2>1. r.floor \subseteq Placed /\ r.floor \subseteq Placed'
    BY <1>1, <1>8 DEF Knows, Gentle, Steady
  <2>2. r.kind = "served" => Sound(r.floor, r.from, r.rows)' /\ r.age < TTL
    <3> SUFFICES ASSUME r.kind = "served" PROVE Sound(r.floor, r.from, r.rows)' /\ r.age < TTL
      OBVIOUS
    <3>1. r.from \in Filters
      BY RequestOf DEF ServedReq
    <3>2. Sound(r.floor, r.from, r.rows) /\ r.age < TTL
      BY <1>1 DEF Knows
    <3> QED
      BY <2>1, <3>1, <3>2, SoundStays DEF Gentle
  <2> QED
    BY <1>8, <2>1, <2>2 DEF Knows
<1>9. ASSUME r.kind \in {"idle", "naming", "named", "awaiting", "resolving", "reviewed", "aggregated"} PROVE Knows(r)'
  BY <1>9 DEF Knows
<1> QED
  BY <1>1, <1>2, <1>3, <1>4, <1>5, <1>6, <1>7, <1>8, <1>9
  DEF AnyRequest, CatalogueReq, StorefrontReq, Idle, FormReq, CountedReq, RemoveReq, CleanReq, VariantReq,
      SoldReq, NameReq, AwaitReq, ResolveReq, FetchReq, WaitReq, ServedReq, ReviewReq, AggReq

(* Fewer products and fewer creations keep the bound.                      *)
LEMMA BoundKept ==
  ASSUME CreateBound, Existing' \subseteq Existing, Creating' \subseteq Creating
  PROVE  CreateBound'
<1>1. IsFiniteSet(Requests) /\ IsFiniteSet(Creating)
  <2>1. Creating \in SUBSET Requests
    BY DEF Creating
  <2> QED
    BY <2>1, BoundAssumption, FS_Subset
<1>2. /\ IsFiniteSet(Existing') /\ Cardinality(Existing') <= Cardinality(Existing)
      /\ Cardinality(Creating') <= Cardinality(Creating) /\ IsFiniteSet(Creating')
  BY <1>1, FS_Subset DEF CreateBound
<1>3. /\ Cardinality(Existing) \in Nat /\ Cardinality(Existing') \in Nat
      /\ Cardinality(Creating) \in Nat /\ Cardinality(Creating') \in Nat
      /\ Cardinality(Requests) \in Nat
  BY <1>1, <1>2, FS_CardinalityType DEF CreateBound
<1> QED
  BY <1>2, <1>3, PlanAssumption DEF CreateBound

(* One request goes on and the rows change gently.                         *)
LEMMA RequestGoes ==
  ASSUME KInv, Gentle, NEW q \in Requests, NEW r \in AnyRequest, request' = [request EXCEPT ![q] = r],
         r.kind # "create", Knows(r)', Existing' \subseteq Existing, CatalogueTypeOK', OwnFiles', LinesResolve'
  PROVE  KInv'
<1>1. request' = [w \in Requests |-> IF w = q THEN r ELSE request[w]]
  BY DEF KInv
<1>2. request' \in [Requests -> AnyRequest]
  BY <1>1 DEF KInv
<1>3. ASSUME NEW w \in Requests PROVE Knows(request[w])'
  <2>0. /\ handled \in Nat /\ handled' \in Nat
        /\ \A p \in Products, f \in Files : image'[p][f] \in Nat
    BY BoundAssumption DEF KInv, CatalogueTypeOK
  <2>1. PICK x : x = request'[w]
    OBVIOUS
  <2>2. CASE w = q
    <3>1. x = r
      BY <1>1, <2>1, <2>2
    <3>2. Knows(x)'
      BY <3>1
    <3> QED
      BY <2>1, <3>2 DEF Knows
  <2>3. CASE w # q
    <3>1. x = request[w]
      BY <1>1, <2>1, <2>3
    <3>2. Knows(x)'
      BY <2>0, <3>1, GentleKnows
    <3> QED
      BY <2>1, <3>2 DEF Knows
  <2> QED
    BY <2>2, <2>3
<1>4. Creating' \subseteq Creating
  BY <1>1 DEF Creating
<1>5. CreateBound'
  BY <1>4, BoundKept DEF KInv
<1> QED
  BY <1>2, <1>3, <1>5 DEF KInv

Unmoved == UNCHANGED <<product, variant, image, remote, line, moved, handled>>

LEMMA UnmovedRows ==
  ASSUME KInv, Unmoved
  PROVE  /\ Gentle /\ Existing' = Existing /\ CatalogueTypeOK' /\ OwnFiles' /\ LinesResolve'
         /\ Placed' = Placed /\ Sold' = Sold
         /\ \A r : Knows(r) <=> Knows(r)'
<1>1. Placed' = Placed /\ Sold' = Sold /\ Existing' = Existing
  BY DEF Unmoved, Placed, Sold, Existing
<1>2. Gentle
  <2>1. handled <= handled'
    BY BoundAssumption DEF Unmoved, KInv, CatalogueTypeOK
  <2> QED
    BY <1>1, <2>1 DEF Unmoved, Gentle, Steady
<1>3. CatalogueTypeOK' /\ OwnFiles' /\ LinesResolve'
  BY DEF Unmoved, KInv, CatalogueTypeOK, OwnFiles, LinesResolve, Rows, Images
<1>4. \A r : Knows(r) <=> Knows(r)'
  BY <1>1 DEF Unmoved, Knows, Sound, Listed, ProductOf
<1> QED
  BY <1>1, <1>2, <1>3, <1>4

LEMMA ReadKeeps ==
  ASSUME KInv, NEW q \in Requests, NEW r \in AnyRequest, request' = [request EXCEPT ![q] = r],
         r.kind # "create", Knows(r), Unmoved
  PROVE  KInv'
  BY UnmovedRows, RequestGoes

-----------------------------------------------------------------------------
(* The forms.                                                              *)
LEMMA FormsOf ==
  ASSUME NEW p \in Products, NEW form \in FormOf(p)
  PROVE  form \in AnyForm /\ form.variants \subseteq VariantsOf(p) /\ form.images \subseteq FilesOf(p)
  BY DEF FormOf, AnyForm, VariantsOf, FilesOf

LEMMA ReadsForm ==
  ASSUME KInv, NEW q \in Requests, NEW p \in Products, NEW form \in FormOf(p),
         ReadForCreate(q, p, form) \/ ReadForUpdate(q, p, form)
  PROVE  KInv'
<1>1. Unmoved
  BY DEF ReadForCreate, ReadForUpdate, Look, Unmoved
<1>2. CASE ReadForUpdate(q, p, form)
  <2>1. PICK r : r = [kind |-> "update", id |-> p, form |-> form]
    OBVIOUS
  <2>2. r \in AnyRequest /\ r.kind = "update" /\ Knows(r)
    BY <1>2, <2>1, FormsOf DEF AnyRequest, CatalogueReq, FormReq, Knows, ReadForUpdate
  <2> QED
    BY <1>1, <1>2, <2>1, <2>2, ReadKeeps DEF ReadForUpdate, Look, Goto
<1>3. CASE ReadForCreate(q, p, form)
  <2>1. PICK r : r = [kind |-> "create", id |-> p, form |-> form]
    OBVIOUS
  <2>2. r \in AnyRequest /\ r.kind = "create" /\ Knows(r)
    BY <1>3, <2>1, FormsOf DEF AnyRequest, CatalogueReq, FormReq, Knows, ReadForCreate
  <2>3. request' = [w \in Requests |-> IF w = q THEN r ELSE request[w]]
    BY <1>3, <2>1 DEF ReadForCreate, Look, Goto, KInv
  <2>4. request' \in [Requests -> AnyRequest]
    BY <2>2, <2>3 DEF KInv
  <2>5. ASSUME NEW w \in Requests PROVE Knows(request[w])'
    <3>1. PICK x : x = request'[w]
      OBVIOUS
    <3>2. Knows(x)
      BY <2>2, <2>3, <3>1, RequestOf
    <3>3. Knows(x)'
      BY <1>1, <3>2, UnmovedRows
    <3> QED
      BY <3>1, <3>3 DEF Knows
  <2>6. CreateBound'
    <3>1. IsFiniteSet(Requests) /\ Creating' \in SUBSET Requests
      BY BoundAssumption DEF Creating
    <3>2. Cardinality(Creating') <= Cardinality(Requests) /\ IsFiniteSet(Creating')
      BY <3>1, FS_Subset
    <3>3. Cardinality(Creating') \in Nat /\ Cardinality(Requests) \in Nat /\ Cardinality(Existing) \in Nat
      BY <3>1, <3>2, FS_CardinalityType DEF KInv, CreateBound
    <3>4. Cardinality(Existing) < MaxProducts /\ Existing' = Existing
      BY <1>1, <1>3, UnmovedRows DEF ReadForCreate
    <3> QED
      BY <3>2, <3>3, <3>4, PlanAssumption DEF CreateBound, KInv
  <2> QED
    BY <1>1, <2>4, <2>5, <2>6, UnmovedRows DEF KInv
<1> QED
  BY <1>2, <1>3

LEMMA CardinalityOfNone == Cardinality({}) = 0
  BY FS_EmptySet

(* The images of a product after all of its rows are written again.        *)
LEMMA WrittenImages ==
  ASSUME KInv, NEW p \in Products, NEW fs \in SUBSET FilesOf(p), Cardinality(fs) <= ImageLimit,
         handled < MaxHandled, handled' = handled + 1, image' = [image EXCEPT ![p] = Written(fs)]
  PROVE  /\ image' \in [Products -> [Files -> 0..MaxHandled]]
         /\ \A u \in Products : Cardinality(Images(u))' <= ImageLimit /\ Images(u)' \subseteq FilesOf(u)
         /\ \A u \in Products, f \in Files : \/ image'[u][f] = image[u][f] \/ image'[u][f] = 0
                                             \/ image'[u][f] > handled
         /\ \A f \in Files : f \notin fs => image'[p][f] = 0
         /\ handled' \in 0..MaxHandled /\ handled \in Nat
<1>0. handled \in Nat /\ handled + 1 \in 0..MaxHandled /\ 0 \in 0..MaxHandled /\ fs \subseteq Files
  BY BoundAssumption DEF KInv, CatalogueTypeOK, FilesOf
<1>1. Written(fs) \in [Files -> 0..MaxHandled] /\ \A f \in Files : Written(fs)[f] = IF f \in fs THEN handled + 1 ELSE 0
  BY <1>0 DEF Written
<1>2. \A u \in Products : image'[u] = IF u = p THEN Written(fs) ELSE image[u]
  BY DEF KInv, CatalogueTypeOK
<1>3. image' \in [Products -> [Files -> 0..MaxHandled]]
  BY <1>1 DEF KInv, CatalogueTypeOK
<1>4. Images(p)' = fs
  BY <1>0, <1>1, <1>2 DEF Images
<1>5. \A u \in Products : u # p => Images(u)' = Images(u)
  BY <1>2 DEF Images
<1>6. \A u \in Products : Cardinality(Images(u))' <= ImageLimit /\ Images(u)' \subseteq FilesOf(u)
  BY <1>4, <1>5 DEF KInv, CatalogueTypeOK, OwnFiles
<1> QED
  BY <1>0, <1>1, <1>2, <1>3, <1>6

LEMMA CreateKeeps ==
  ASSUME KInv, NEW q \in Requests, CreateProduct(q)
  PROVE  KInv'
<1>1. request[q] \in FormReq /\ Knows(request[q]) /\ request[q].kind = "create"
  BY RequestOf DEF CreateProduct
<1>2. PICK p \in Products, form \in AnyForm : p = request[q].id /\ form = request[q].form
  BY <1>1 DEF FormReq
<1>2a. form \in FormOf(p)
  BY <1>1, <1>2 DEF Knows
<1>3. /\ product[p] = "none" /\ product' = [product EXCEPT ![p] = "row"]
      /\ variant' = [v \in Variants |-> IF v \in form.variants THEN "active" ELSE variant[v]]
      /\ image' = [image EXCEPT ![p] = Written(form.images)]
      /\ handled < MaxHandled /\ handled' = handled + 1 /\ request' = [request EXCEPT ![q] = Idle]
      /\ UNCHANGED <<remote, line, moved>>
  BY <1>2 DEF CreateProduct, Commit, Goto
<1>4. /\ form.variants \subseteq VariantsOf(p) /\ form.images \in SUBSET FilesOf(p)
      /\ Cardinality(form.images) <= ImageLimit
  BY <1>1, <1>2, <1>2a, FormsOf DEF Knows
<1>5. /\ product' \in [Products -> {"none", "row", "gone"}]
      /\ \A u \in Products : product'[u] = IF u = p THEN "row" ELSE product[u]
  BY <1>3 DEF KInv, CatalogueTypeOK
<1>6. variant' \in [Variants -> {"none", "active", "inactive", "gone"}]
  BY <1>3 DEF KInv, CatalogueTypeOK
<1>7. \A v \in Variants : v \in Rows(VariantOf[v])' => product'[VariantOf[v]] = "row"
  BY <1>3, <1>4, <1>5, RowsAssumption DEF KInv, CatalogueTypeOK, Rows, VariantsOf
<1>8. CatalogueTypeOK' /\ OwnFiles'
  BY <1>3, <1>4, <1>5, <1>6, <1>7, WrittenImages DEF KInv, CatalogueTypeOK, OwnFiles
<1>9. Placed' = Placed /\ Sold' = Sold
  BY <1>3 DEF Placed, Sold
<1>10. Gentle
  <2>1. handled <= handled'
    BY <1>3, BoundAssumption DEF KInv, CatalogueTypeOK
  <2>2. \A u \in Products, f \in Files : image'[u][f] = image[u][f] \/ image'[u][f] = 0 \/ image'[u][f] > handled
    BY <1>3, <1>4, WrittenImages
  <2>3. \A v \in Variants : variant[v] # "gone" => variant'[v] # "gone"
    BY <1>3
  <2> QED
    BY <1>3, <1>5, <1>9, <2>1, <2>2, <2>3 DEF Gentle, Steady
<1>11. LinesResolve'
  <2>1. \A v \in Variants : variant[v] # "gone" => variant'[v] # "gone"
    BY <1>3
  <2> QED
    BY <1>3, <1>5, <2>1, RowsAssumption DEF KInv, LinesResolve, CatalogueTypeOK
<1>12. request' = [w \in Requests |-> IF w = q THEN Idle ELSE request[w]]
  BY <1>3 DEF KInv
<1>13. request' \in [Requests -> AnyRequest]
  BY <1>12, IdleKnown DEF KInv
<1>14. ASSUME NEW w \in Requests PROVE Knows(request[w])'
  <2>0. /\ handled \in Nat /\ handled' \in Nat
        /\ \A u \in Products, f \in Files : image'[u][f] \in Nat
    BY <1>8, BoundAssumption DEF KInv, CatalogueTypeOK
  <2>1. PICK x : x = request'[w]
    OBVIOUS
  <2>2. CASE w = q
    BY <1>12, <2>2, IdleKnown DEF Knows
  <2>3. CASE w # q
    <3>1. x = request[w]
      BY <1>12, <2>1, <2>3
    <3>2. Knows(x)'
      BY <1>10, <2>0, <3>1, GentleKnows
    <3> QED
      BY <2>1, <3>2 DEF Knows
  <2> QED
    BY <2>2, <2>3
<1>15. CreateBound'
  <2>1. Existing' = Existing \cup {p} /\ p \notin Existing
    BY <1>3, <1>5 DEF Existing
  <2>2. Creating' = Creating \ {q} /\ q \in Creating
    BY <1>1, <1>12, IdleKnown DEF Creating
  <2>3. IsFiniteSet(Creating) /\ IsFiniteSet(Existing)
    <3>1. Creating \in SUBSET Requests
      BY DEF Creating
    <3> QED
      BY <3>1, BoundAssumption, FS_Subset DEF KInv, CreateBound
  <2>4. IsFiniteSet(Existing') /\ Cardinality(Existing') = Cardinality(Existing) + 1
    BY <2>1, <2>3, FS_AddElement
  <2>5. Cardinality(Creating') = Cardinality(Creating) - 1
    BY <2>2, <2>3, FS_RemoveElement
  <2>6. /\ Cardinality(Creating) \in Nat /\ Cardinality(Existing) \in Nat /\ Cardinality(Requests) \in Nat
    BY <2>3, BoundAssumption, FS_CardinalityType
  <2> QED
    BY <2>4, <2>5, <2>6, PlanAssumption DEF CreateBound, KInv
<1> QED
  BY <1>8, <1>11, <1>13, <1>14, <1>15 DEF KInv

LEMMA LockKeeps ==
  ASSUME KInv, NEW q \in Requests, LockProduct(q)
  PROVE  KInv'
<1>1. request[q] \in FormReq /\ Knows(request[q]) /\ request[q].kind = "update"
  BY RequestOf DEF LockProduct
<1>2. PICK r : r = [request[q] EXCEPT !.kind = "saving"]
  OBVIOUS
<1>3. r \in FormReq /\ r.kind = "saving" /\ r.id = request[q].id /\ r.form = request[q].form
  BY <1>1, <1>2 DEF FormReq
<1>4. Knows(r)
  BY <1>1, <1>3 DEF Knows, LockProduct
<1>5. r \in AnyRequest /\ r.kind # "create"
  BY <1>3 DEF AnyRequest, CatalogueReq
<1>6. request' = [request EXCEPT ![q] = r] /\ Unmoved
  BY <1>2 DEF LockProduct, Look, Goto, Unmoved
<1> QED
  BY <1>4, <1>5, <1>6, ReadKeeps

LEMMA CountKeeps ==
  ASSUME KInv, NEW q \in Requests, CountHistory(q)
  PROVE  KInv'
<1>1. request[q] \in FormReq /\ Knows(request[q]) /\ request[q].kind = "saving"
  BY RequestOf DEF CountHistory
<1>2. PICK drop : drop = {v \in Omitted(q) : NoHistory(v)}
  OBVIOUS
<1>3. /\ drop \subseteq VariantsOf(request[q].id) \ request[q].form.variants
      /\ drop \cap Sold = {} /\ drop \cap moved = {}
  BY <1>2 DEF Omitted, Rows, VariantsOf, NoHistory
<1>4. PICK r : r = [kind |-> "counted", id |-> request[q].id, form |-> request[q].form, drop |-> drop, seen |-> moved]
  OBVIOUS
<1>5. r \in CountedReq /\ r.kind = "counted"
  BY <1>1, <1>3, <1>4 DEF FormReq, CountedReq, KInv, CatalogueTypeOK, VariantsOf
<1>6. Knows(r)
  BY <1>1, <1>3, <1>4 DEF Knows
<1>7. r \in AnyRequest
  BY <1>5 DEF AnyRequest, CatalogueReq
<1>8. request' = [request EXCEPT ![q] = r] /\ Unmoved
  BY <1>2, <1>4 DEF CountHistory, Look, Goto, Unmoved
<1> QED
  BY <1>5, <1>6, <1>7, <1>8, ReadKeeps

LEMMA SaveKeeps ==
  ASSUME KInv, NEW q \in Requests, SaveProduct(q)
  PROVE  KInv'
<1>1. request[q] \in CountedReq /\ Knows(request[q]) /\ request[q].kind = "counted"
  BY RequestOf DEF SaveProduct
<1>2. PICK p \in Products, form \in AnyForm, drop \in SUBSET Variants :
        p = request[q].id /\ form = request[q].form /\ drop = request[q].drop
  BY <1>1 DEF CountedReq
<1>3. /\ form \in FormOf(p) /\ Cardinality(form.images) <= ImageLimit /\ product[p] = "row"
      /\ drop \subseteq VariantsOf(p) \ form.variants /\ drop \cap Sold = {}
  BY <1>1, <1>2 DEF Knows
<1>4. form.variants \subseteq VariantsOf(p) /\ form.images \in SUBSET FilesOf(p)
  BY <1>3, FormsOf
<1>5. /\ \A v \in form.variants : variant[v] # "gone"
      /\ \A v \in drop : ~ Held(v)
      /\ variant' = [v \in Variants |-> CASE v \in form.variants    -> "active"
                                          [] v \in drop             -> "gone"
                                          [] v \in Omitted(q) \ drop -> "inactive"
                                          [] OTHER                  -> variant[v]]
      /\ image' = [image EXCEPT ![p] = Written(form.images)]
      /\ handled < MaxHandled /\ handled' = handled + 1
      /\ UNCHANGED <<product, remote, line, moved>>
  BY <1>2 DEF SaveProduct, Commit
<1>6. PICK r : r = [kind |-> "cleanup", files |-> Discarded(q), at |-> handled + 1]
  OBVIOUS
<1>7. request' = [request EXCEPT ![q] = r]
  BY <1>6 DEF SaveProduct, Commit, Goto
<1>8. /\ image' \in [Products -> [Files -> 0..MaxHandled]]
      /\ \A u \in Products : Cardinality(Images(u)') <= ImageLimit /\ Images(u)' \subseteq FilesOf(u)
      /\ \A u \in Products, f \in Files : image'[u][f] = image[u][f] \/ image'[u][f] = 0 \/ image'[u][f] > handled
      /\ \A f \in Files : f \notin form.images => image'[p][f] = 0
      /\ handled' \in 0..MaxHandled /\ handled \in Nat
  BY <1>3, <1>4, <1>5, WrittenImages
<1>9. \A v \in Variants : variant'[v] = "gone" => variant[v] = "gone" \/ (v \in drop /\ v \notin form.variants)
  <2> SUFFICES ASSUME NEW v \in Variants
               PROVE  variant'[v] = "gone" => variant[v] = "gone" \/ (v \in drop /\ v \notin form.variants)
    OBVIOUS
  <2>1. CASE v \in form.variants
    BY <1>3, <1>5, <2>1 DEF Omitted
  <2>2. CASE v \notin form.variants /\ v \in drop
    BY <2>2
  <2>3. CASE v \notin form.variants /\ v \notin drop
    BY <1>2, <1>5, <2>3 DEF Omitted
  <2> QED
    BY <2>1, <2>2, <2>3
<1>10. \A v \in Variants : variant'[v] \in {"active", "inactive"} => v \in VariantsOf(p) \/ variant'[v] = variant[v]
  BY <1>2, <1>4, <1>5 DEF Omitted, Rows, VariantsOf
<1>11. variant' \in [Variants -> {"none", "active", "inactive", "gone"}]
  <2> SUFFICES ASSUME NEW v \in Variants PROVE variant'[v] \in {"none", "active", "inactive", "gone"}
    BY <1>5
  <2> QED
    BY <1>5 DEF KInv, CatalogueTypeOK
<1>12. \A v \in Variants : v \in Rows(VariantOf[v])' => product'[VariantOf[v]] = "row"
  <2> SUFFICES ASSUME NEW v \in Variants, variant'[v] \in {"active", "inactive"}
               PROVE  product[VariantOf[v]] = "row"
    BY <1>5 DEF Rows
  <2>1. CASE v \in VariantsOf(p)
    BY <1>3, <2>1 DEF VariantsOf
  <2>2. CASE variant'[v] = variant[v]
    BY <2>2 DEF KInv, CatalogueTypeOK, Rows
  <2> QED
    BY <1>10, <2>1, <2>2
<1>13. CatalogueTypeOK' /\ OwnFiles'
  BY <1>5, <1>8, <1>11, <1>12 DEF KInv, CatalogueTypeOK, OwnFiles
<1>14. Placed' = Placed /\ Sold' = Sold /\ Existing' = Existing
  BY <1>5 DEF Placed, Sold, Existing
<1>15. Gentle
  <2>1. handled <= handled'
    BY <1>5, <1>8
  <2>2. \A v \in Variants : Held(v) /\ variant[v] # "gone" => variant'[v] # "gone"
    BY <1>5, <1>9
  <2> QED
    BY <1>5, <1>8, <1>14, <2>1, <2>2 DEF Gentle, Steady
<1>16. LinesResolve'
  <2> SUFFICES ASSUME NEW o \in Orders, line[o] # NoVariant
               PROVE  variant'[line[o]] # "gone" \/ product[VariantOf[line[o]]] = "gone"
    BY <1>5 DEF LinesResolve
  <2>1. line[o] \in Variants /\ line[o] \in Sold
    BY DEF KInv, CatalogueTypeOK, Sold
  <2> QED
    BY <1>3, <1>9, <2>1 DEF KInv, LinesResolve
<1>17. r \in CleanReq /\ r.kind = "cleanup" /\ r.files = Discarded(q) /\ r.at = handled + 1
  BY <1>6, <1>8 DEF CleanReq, Discarded, Images
<1>18. Knows(r)'
  <2>1. ASSUME NEW f \in r.files, NEW u \in Products PROVE image'[u][f] = 0
    <3>1. f \in Files /\ f \notin form.images /\ f \in FilesOf(p)
      BY <1>2, <1>17 DEF Discarded, Images, KInv, OwnFiles
    <3>2. CASE u = p
      BY <1>8, <3>1, <3>2
    <3>3. CASE u # p
      <4>1. f \notin Images(u)' /\ image'[u][f] \in Nat
        BY <1>8, <3>1, <3>3, BoundAssumption DEF FilesOf
      <4> QED
        BY <3>1, <4>1 DEF Images
    <3> QED
      BY <3>2, <3>3
  <2>2. r.at <= handled'
    BY <1>5, <1>8, <1>17
  <2> QED
    BY <1>17, <2>1, <2>2 DEF Knows
<1>19. r \in AnyRequest /\ r.kind # "create"
  BY <1>17 DEF AnyRequest, CatalogueReq
<1> QED
  BY <1>7, <1>13, <1>14, <1>15, <1>16, <1>18, <1>19, RequestGoes

LEMMA CleanupKeeps ==
  ASSUME KInv, NEW q \in Requests, Cleanup(q)
  PROVE  KInv'
<1>1. /\ remote' = [f \in Files |-> IF f \in request[q].files THEN "deleted" ELSE remote[f]]
      /\ request' = [request EXCEPT ![q] = Idle] /\ UNCHANGED <<product, variant, image, line, moved, handled>>
  BY DEF Cleanup, Goto
<1>2. Placed' = Placed /\ Sold' = Sold /\ Existing' = Existing
  BY <1>1 DEF Placed, Sold, Existing
<1>3. Gentle
  <2>1. handled <= handled'
    BY <1>1, BoundAssumption DEF KInv, CatalogueTypeOK
  <2> QED
    BY <1>1, <1>2, <2>1 DEF Gentle, Steady
<1>4. CatalogueTypeOK' /\ OwnFiles' /\ LinesResolve'
  BY <1>1 DEF KInv, CatalogueTypeOK, OwnFiles, LinesResolve, Rows, Images
<1> QED
  BY <1>1, <1>2, <1>3, <1>4, IdleKnown, RequestGoes

LEMMA ReadForRemoveKeeps ==
  ASSUME KInv, NEW q \in Requests, NEW p \in Products, ReadForRemove(q, p)
  PROVE  KInv'
<1>1. PICK r : r = [kind |-> "remove", id |-> p, files |-> Images(p)]
  OBVIOUS
<1>2. r \in RemoveReq /\ r.kind = "remove"
  BY <1>1 DEF RemoveReq, Images
<1>3. Knows(r)
  BY <1>1 DEF Knows, KInv, OwnFiles
<1>4. r \in AnyRequest
  BY <1>2 DEF AnyRequest, CatalogueReq
<1> QED
  BY <1>1, <1>2, <1>3, <1>4, ReadKeeps DEF ReadForRemove, Look, Goto, Unmoved

LEMMA RemoveKeeps ==
  ASSUME KInv, NEW q \in Requests, RemoveProduct(q)
  PROVE  KInv'
<1>1. request[q] \in RemoveReq /\ Knows(request[q]) /\ request[q].kind = "remove"
  BY RequestOf DEF RemoveProduct
<1>2. PICK p \in Products, files \in SUBSET Files : p = request[q].id /\ files = request[q].files
  BY <1>1 DEF RemoveReq
<1>3. /\ product[p] = "row" /\ ~ Locked(p) /\ \A v \in Rows(p) : ~ Held(v)
      /\ product' = [product EXCEPT ![p] = "gone"]
      /\ variant' = [v \in Variants |-> IF v \in Rows(p) THEN "gone" ELSE variant[v]]
      /\ image' = [image EXCEPT ![p] = Written({})]
      /\ handled < MaxHandled /\ handled' = handled + 1
      /\ UNCHANGED <<remote, line, moved>>
  BY <1>2 DEF RemoveProduct, Commit, Cascaded
<1>4. PICK r : r = [kind |-> "cleanup", files |-> files, at |-> handled + 1]
  OBVIOUS
<1>5. request' = [request EXCEPT ![q] = r]
  BY <1>2, <1>4 DEF RemoveProduct, Commit, Goto
<1>6. /\ image' \in [Products -> [Files -> 0..MaxHandled]]
      /\ \A u \in Products : Cardinality(Images(u)') <= ImageLimit /\ Images(u)' \subseteq FilesOf(u)
      /\ \A u \in Products, f \in Files : image'[u][f] = image[u][f] \/ image'[u][f] = 0 \/ image'[u][f] > handled
      /\ \A f \in Files : image'[p][f] = 0
      /\ handled' \in 0..MaxHandled /\ handled \in Nat
  <2>1. Cardinality({}) <= ImageLimit /\ {} \in SUBSET FilesOf(p)
    BY CardinalityOfNone, PlanAssumption
  <2> QED
    BY <1>3, <2>1, WrittenImages
<1>7. /\ product' \in [Products -> {"none", "row", "gone"}]
      /\ \A u \in Products : product'[u] = IF u = p THEN "gone" ELSE product[u]
  BY <1>3 DEF KInv, CatalogueTypeOK
<1>8. variant' \in [Variants -> {"none", "active", "inactive", "gone"}]
  BY <1>3 DEF KInv, CatalogueTypeOK
<1>9. \A v \in Variants : v \in Rows(VariantOf[v])' => product'[VariantOf[v]] = "row"
  BY <1>3, <1>7, RowsAssumption DEF KInv, CatalogueTypeOK, Rows
<1>10. CatalogueTypeOK' /\ OwnFiles'
  BY <1>3, <1>6, <1>7, <1>8, <1>9 DEF KInv, CatalogueTypeOK, OwnFiles
<1>11. Placed' = Placed /\ Sold' = Sold /\ Existing' \subseteq Existing
  BY <1>3, <1>7 DEF Placed, Sold, Existing
<1>12. Gentle
  <2>1. handled <= handled'
    BY <1>3, <1>6
  <2>2. \A u \in Products : product[u] = "row" /\ Locked(u) => product'[u] = "row"
    BY <1>3, <1>7
  <2>3. \A v \in Variants : Held(v) /\ variant[v] # "gone" => variant'[v] # "gone"
    BY <1>3
  <2> QED
    BY <1>3, <1>6, <1>7, <1>11, <2>1, <2>2, <2>3 DEF Gentle, Steady
<1>13. LinesResolve'
  <2> SUFFICES ASSUME NEW o \in Orders, line[o] # NoVariant
               PROVE  variant'[line[o]] # "gone" \/ product'[VariantOf[line[o]]] = "gone"
    BY <1>3 DEF LinesResolve
  <2>1. line[o] \in Variants /\ VariantOf[line[o]] \in Products
    BY RowsAssumption DEF KInv, CatalogueTypeOK
  <2> QED
    BY <1>3, <1>7, <2>1 DEF KInv, LinesResolve, Rows
<1>14. r \in CleanReq /\ r.kind = "cleanup" /\ r.files = files /\ r.at = handled + 1
  BY <1>2, <1>4, <1>6 DEF CleanReq
<1>15. Knows(r)'
  <2>1. ASSUME NEW f \in r.files, NEW u \in Products PROVE image'[u][f] = 0
    <3>1. f \in Files /\ f \in FilesOf(p)
      BY <1>1, <1>2, <1>14 DEF Knows
    <3>2. CASE u = p
      BY <1>6, <3>1, <3>2
    <3>3. CASE u # p
      <4>1. f \notin Images(u)' /\ image'[u][f] \in Nat
        BY <1>6, <3>1, <3>3, BoundAssumption DEF FilesOf
      <4> QED
        BY <3>1, <4>1 DEF Images
    <3> QED
      BY <3>2, <3>3
  <2>2. r.at <= handled'
    BY <1>3, <1>6, <1>14
  <2> QED
    BY <1>14, <2>1, <2>2 DEF Knows
<1>16. r \in AnyRequest /\ r.kind # "create"
  BY <1>14 DEF AnyRequest, CatalogueReq
<1> QED
  BY <1>5, <1>10, <1>11, <1>12, <1>13, <1>15, <1>16, RequestGoes

-----------------------------------------------------------------------------
(* Sales and adjustments.                                                  *)
LEMMA ReadsVariant ==
  ASSUME KInv, NEW q \in Requests, NEW v \in Variants, ReadForSale(q, v) \/ WriteMovement(q, v)
  PROVE  KInv'
<1>1. Unmoved
  BY DEF ReadForSale, WriteMovement, Look, Unmoved
<1>2. CASE ReadForSale(q, v)
  <2>1. PICK r : r = [kind |-> "buying", variant |-> v]
    OBVIOUS
  <2>2. r \in AnyRequest /\ r.kind = "buying" /\ Knows(r)
    BY <2>1 DEF AnyRequest, CatalogueReq, VariantReq, Knows
  <2> QED
    BY <1>1, <1>2, <2>1, <2>2, ReadKeeps DEF ReadForSale, Look, Goto
<1>3. CASE WriteMovement(q, v)
  <2>1. PICK r : r = [kind |-> "adjusting", variant |-> v]
    OBVIOUS
  <2>2. variant[v] # "gone"
    BY <1>3 DEF WriteMovement, Rows
  <2>3. r \in AnyRequest /\ r.kind = "adjusting" /\ Knows(r)
    BY <2>1, <2>2 DEF AnyRequest, CatalogueReq, VariantReq, Knows
  <2> QED
    BY <1>1, <1>3, <2>1, <2>3, ReadKeeps DEF WriteMovement, Look, Goto
<1> QED
  BY <1>2, <1>3

LEMMA WriteLineKeeps ==
  ASSUME KInv, NEW q \in Requests, WriteLine(q)
  PROVE  KInv'
<1>1. request[q] \in VariantReq /\ request[q].kind = "buying"
  BY RequestOf DEF WriteLine
<1>2. PICK r : r = [request[q] EXCEPT !.kind = "selling"]
  OBVIOUS
<1>3. r \in VariantReq /\ r.kind = "selling" /\ r.variant = request[q].variant
  BY <1>1, <1>2 DEF VariantReq
<1>4. Knows(r)
  BY <1>3 DEF Knows, WriteLine
<1>5. r \in AnyRequest /\ r.kind # "create"
  BY <1>3 DEF AnyRequest, CatalogueReq
<1>6. request' = [request EXCEPT ![q] = r] /\ Unmoved
  BY <1>2 DEF WriteLine, Look, Goto, Unmoved
<1> QED
  BY <1>4, <1>5, <1>6, ReadKeeps

(* What Commit does of itself.                                             *)
LEMMA Commits ==
  ASSUME KInv, NEW q \in Requests, NEW r, Commit(q, r)
  PROVE  /\ handled' \in 0..MaxHandled /\ handled < handled' /\ handled \in Nat /\ handled' = handled + 1
         /\ request' = [request EXCEPT ![q] = r]
  BY BoundAssumption DEF Commit, Goto, KInv, CatalogueTypeOK

LEMMA SaleKeeps ==
  ASSUME KInv, NEW q \in Requests, NEW o \in Orders, CommitSale(q, o)
  PROVE  KInv'
<1>1. request[q] \in VariantReq /\ Knows(request[q]) /\ request[q].kind = "selling"
  BY RequestOf DEF CommitSale
<1>2. PICK v \in Variants : v = request[q].variant
  BY <1>1 DEF VariantReq
<1>3. PICK r : r = [kind |-> "sold", order |-> o]
  OBVIOUS
<1>4. /\ handled' \in 0..MaxHandled /\ handled < handled' /\ request' = [request EXCEPT ![q] = r]
      /\ line[o] = NoVariant /\ ~ Locked(VariantOf[v]) /\ line' = [line EXCEPT ![o] = v]
      /\ UNCHANGED <<product, variant, image, remote, moved>>
  BY <1>2, <1>3, Commits DEF CommitSale
<1>5. /\ line' \in [Orders -> Variants \cup {NoVariant}]
      /\ \A w \in Orders : line'[w] = IF w = o THEN v ELSE line[w]
  BY <1>4 DEF KInv, CatalogueTypeOK
<1>6. Placed' = Placed \cup {o} /\ Sold' = Sold \cup {v}
  <2>1. Placed' = Placed \cup {o}
    BY <1>5, NoVariantAssumption DEF Placed
  <2>2. Sold' = Sold \cup {v}
    <3>1. \A w \in Orders : line'[w] \in Sold \cup {v, NoVariant}
      BY <1>5 DEF Sold
    <3>2. \A w \in Orders : w # o => line[w] = line'[w]
      BY <1>5
    <3> QED
      BY <1>4, <1>5, <3>1, <3>2, NoVariantAssumption DEF Sold
  <2> QED
    BY <2>1, <2>2
<1>7. CatalogueTypeOK' /\ OwnFiles' /\ Existing' = Existing
  BY <1>4, <1>5 DEF KInv, CatalogueTypeOK, OwnFiles, Rows, Images, Existing
<1>8. Gentle
  <2>1. handled <= handled'
    BY <1>4, BoundAssumption DEF KInv, CatalogueTypeOK
  <2>2. \A w \in Variants : Locked(VariantOf[w]) /\ w \in Sold' => w \in Sold
    BY <1>4, <1>6
  <2>3. \A w \in Placed : line'[w] = line[w]
    BY <1>4, <1>5 DEF Placed
  <2> QED
    BY <1>4, <1>6, <2>1, <2>2, <2>3 DEF Gentle, Steady
<1>9. LinesResolve'
  <2>1. variant[v] # "gone"
    BY <1>1, <1>2 DEF Knows
  <2> QED
    BY <1>4, <1>5, <2>1 DEF KInv, LinesResolve
<1>10. r \in AnyRequest /\ r.kind = "sold" /\ Knows(r)'
  BY <1>3, <1>6 DEF AnyRequest, CatalogueReq, SoldReq, Knows
<1> QED
  BY <1>4, <1>7, <1>8, <1>9, <1>10, RequestGoes

(* A commit that moves neither a product, a variant, an image nor a line.  *)
LEMMA StillRows ==
  ASSUME KInv, handled < handled', handled' \in 0..MaxHandled, moved' \subseteq Variants,
         UNCHANGED <<product, variant, image, remote, line>>
  PROVE  /\ Gentle /\ Existing' = Existing /\ CatalogueTypeOK' /\ OwnFiles' /\ LinesResolve' /\ Placed' = Placed
<1>1. Placed' = Placed /\ Sold' = Sold /\ Existing' = Existing
  BY DEF Placed, Sold, Existing
<1>2. Gentle
  <2>1. handled <= handled'
    BY BoundAssumption DEF KInv, CatalogueTypeOK
  <2> QED
    BY <1>1, <2>1 DEF Gentle, Steady
<1>3. CatalogueTypeOK' /\ OwnFiles' /\ LinesResolve'
  BY DEF KInv, CatalogueTypeOK, OwnFiles, LinesResolve, Rows, Images
<1> QED
  BY <1>1, <1>2, <1>3

LEMMA AdjustmentKeeps ==
  ASSUME KInv, NEW q \in Requests, CommitAdjustment(q)
  PROVE  KInv'
<1>1. request[q] \in VariantReq
  BY RequestOf DEF CommitAdjustment
<1>2. /\ handled' \in 0..MaxHandled /\ handled < handled' /\ request' = [request EXCEPT ![q] = Idle]
      /\ moved' \subseteq Variants /\ UNCHANGED <<product, variant, image, remote, line>>
  BY <1>1, Commits DEF CommitAdjustment, VariantReq, KInv, CatalogueTypeOK
<1> QED
  BY <1>2, StillRows, IdleKnown, RequestGoes

LEMMA FailKeeps ==
  ASSUME KInv, NEW q \in Requests, Fail(q)
  PROVE  KInv'
  BY IdleKnown, ReadKeeps DEF Fail, Goto, Unmoved

LEMMA CatalogueKeeps ==
  ASSUME KInv, NEW q \in Requests, CatalogueStep(q) \/ Fail(q)
  PROVE  KInv'
  BY ReadsForm, CreateKeeps, LockKeeps, CountKeeps, SaveKeeps, CleanupKeeps, ReadForRemoveKeeps, RemoveKeeps,
     ReadsVariant, WriteLineKeeps, SaleKeeps, AdjustmentKeeps, FailKeeps DEF CatalogueStep

LEMMA CatalogueStarts == CatalogueInit => KInv
<1> SUFFICES ASSUME CatalogueInit PROVE KInv
  OBVIOUS
<1>1. /\ \A p \in Products : Images(p) = {}
      /\ \A v \in Variants : v \in Rows(VariantOf[v]) => product[VariantOf[v]] = "row"
  BY RowsAssumption DEF CatalogueInit, Images, Rows
<1>2. 0 \in 0..MaxHandled
  BY BoundAssumption
<1>3. \A p \in Products : Cardinality(Images(p)) <= ImageLimit
  BY <1>1, CardinalityOfNone, PlanAssumption
<1>4. CatalogueTypeOK
  BY <1>1, <1>2, <1>3 DEF CatalogueInit, CatalogueTypeOK
<1>5. request \in [Requests -> AnyRequest] /\ \A q \in Requests : Knows(request[q])
  BY IdleKnown DEF CatalogueInit
<1>6. OwnFiles /\ LinesResolve
  BY <1>1 DEF OwnFiles, LinesResolve, CatalogueInit
<1>7. CreateBound
  <2>0. PICK first \in FirstProducts : product = [p \in Products |-> IF p \in first THEN "row" ELSE "none"]
    BY DEF CatalogueInit
  <2>1. Existing = first /\ Creating = {}
    BY <2>0, RowsAssumption, IdleKnown DEF CatalogueInit, Existing, Creating
  <2>2. Cardinality(Requests) \in Nat /\ Cardinality(Requests) # 0 /\ Cardinality(first) \in Nat
    BY BoundAssumption, PlanAssumption, FS_CardinalityType, FS_EmptySet
  <2> QED
    BY <2>1, <2>2, CardinalityOfNone, PlanAssumption DEF CreateBound
<1> QED
  BY <1>4, <1>5, <1>6, <1>7 DEF KInv

-----------------------------------------------------------------------------
(* The requests of the shop's visitors write no row of the catalogue.      *)
LEMMA CataloguedUnmoved ==
  ASSUME UNCHANGED Catalogued
  PROVE  UNCHANGED <<product, variant, image, remote, line, moved>>
  BY DEF Catalogued

LEMMA BestsellersKeep ==
  ASSUME KInv, EntryInv, NEW q \in Requests, NEW filter \in Filters, Bestsellers(q, filter)
  PROVE  KInv'
<1>1. Unmoved
  BY DEF Bestsellers, Handle, Catalogued, Unmoved
<1>2. TTL \in Nat /\ TTL > 0 /\ Placed \subseteq Orders
  BY StorefrontAssumption DEF Placed
<1>3. CASE ~ Young(bestsellers)
  <2>1. PICK r : r = Fetching(filter)
    OBVIOUS
  <2>2. r \in AnyRequest /\ r.kind = "fetching" /\ Knows(r)
    BY <1>2, <2>1 DEF Fetching, AnyRequest, StorefrontReq, FetchReq, Knows, EntryInv
  <2> QED
    BY <1>1, <1>3, <2>1, <2>2, ReadKeeps DEF Bestsellers, Handle
<1>4. CASE Young(bestsellers)
  <2>0. bestsellers \in Entry /\ bestsellers # NoEntry /\ bestsellers.age < TTL
    BY <1>4 DEF EntryInv, Young
  <2>1. CASE bestsellers.by = Nobody
    <3>1. PICK r : r = Served(filter, invalidated, bestsellers)
      OBVIOUS
    <3>2. /\ r.kind = "served" /\ r.floor = invalidated /\ r.rows = bestsellers.rows
          /\ r.from = bestsellers.filter /\ r.age = bestsellers.age
      BY <3>1 DEF Served
    <3>3. r \in AnyRequest
      BY <1>2, <2>0, <3>1 DEF Served, AnyRequest, StorefrontReq, ServedReq, EntryInv, Entry
    <3>4. Knows(r)
      BY <2>0, <2>1, <3>2 DEF Knows, EntryInv
    <3> QED
      BY <1>1, <1>4, <2>1, <3>1, <3>2, <3>3, <3>4, ReadKeeps DEF Bestsellers, Handle
  <2>2. CASE bestsellers.by # Nobody
    <3>1. PICK r : r = [kind |-> "waiting", filter |-> filter, floor |-> invalidated,
                        on |-> bestsellers.by, age |-> bestsellers.age]
      OBVIOUS
    <3>2. r \in AnyRequest /\ r.kind = "waiting" /\ Knows(r)
      BY <1>2, <2>0, <3>1 DEF AnyRequest, StorefrontReq, WaitReq, Knows, EntryInv, Entry
    <3> QED
      BY <1>1, <1>4, <2>2, <3>1, <3>2, ReadKeeps DEF Bestsellers, Handle
  <2> QED
    BY <2>1, <2>2
<1> QED
  BY <1>3, <1>4

(* A request asks for the store, or has read it.                           *)
LEMMA AsksKeep ==
  ASSUME KInv, CacheInv, NEW q \in Requests, NEW filter \in Filters, ListProducts(q, filter)
  PROVE  KInv'
<1>1. Unmoved
  BY DEF ListProducts, Handle, Catalogued, Unmoved
<1>2. ASSUME NEW r, r \in NameReq \cup AwaitReq, request' = [request EXCEPT ![q] = r] PROVE KInv'
  <2>1. r \in AnyRequest /\ r.kind # "create" /\ Knows(r)
    BY <1>2 DEF AnyRequest, StorefrontReq, NameReq, AwaitReq, Knows
  <2> QED
    BY <1>1, <1>2, <2>1, ReadKeeps
<1>3. Young(idCache) => idCache.by \in Requests \cup {Nobody}
  BY DEF Young, CacheInv, IdEntry
<1>4. \/ request' = [request EXCEPT ![q] = Named(filter)]
      \/ Young(idCache) /\ request' = [request EXCEPT ![q] = [kind |-> "awaiting", filter |-> filter, on |-> idCache.by]]
      \/ request' = [request EXCEPT ![q] = [kind |-> "naming", filter |-> filter]]
  BY DEF ListProducts, Handle
<1>5. Named(filter) \in NameReq /\ [kind |-> "naming", filter |-> filter] \in NameReq
  BY DEF Named, NameReq
<1>6. Young(idCache) => [kind |-> "awaiting", filter |-> filter, on |-> idCache.by] \in AwaitReq
  BY <1>3 DEF AwaitReq
<1> QED
  BY <1>2, <1>4, <1>5, <1>6

LEMMA ResolveKeeps ==
  ASSUME KInv, NEW q \in Requests, ResolveStore(q)
  PROVE  KInv'
<1>1. PICK r : r = [kind |-> "resolving", read |-> 0]
  OBVIOUS
<1>2. r \in AnyRequest /\ r.kind = "resolving" /\ Knows(r)
  BY <1>1, StorefrontAssumption DEF AnyRequest, StorefrontReq, ResolveReq, Knows
<1>3. request' = [request EXCEPT ![q] = r] /\ Unmoved
  BY <1>1 DEF ResolveStore, Handle, Catalogued, Unmoved
<1> QED
  BY <1>2, <1>3, ReadKeeps

(* Several requests at once, each of which stays, is answered or ends.     *)
LEMMA ManyGo ==
  ASSUME KInv, Unmoved, request' \in [Requests -> AnyRequest],
         \A w \in Requests : \/ request'[w] = request[w]
                             \/ Knows(request'[w]) /\ request'[w].kind # "create"
  PROVE  KInv'
<1>1. ASSUME NEW w \in Requests PROVE Knows(request[w])'
  <2>1. PICK x : x = request'[w]
    OBVIOUS
  <2>2. Knows(x)
    BY <2>1, RequestOf
  <2>3. Knows(x)'
    BY <2>2, UnmovedRows
  <2> QED
    BY <2>1, <2>3 DEF Knows
<1>2. Creating' \subseteq Creating
  BY DEF Creating
<1>3. CreateBound'
  BY <1>2, UnmovedRows, BoundKept DEF KInv
<1> QED
  BY <1>1, <1>3, UnmovedRows DEF KInv

LEMMA RunQueryKeeps ==
  ASSUME KInv, NEW q \in Requests, RunQuery(q)
  PROVE  KInv'
<1>1. Unmoved
  BY DEF RunQuery, Handle, Catalogued, Unmoved
<1> DEFINE entry == [rows |-> Listed(request[q].filter), filter |-> request[q].filter, age |-> 0]
<1>2. request' = [w \in Requests |-> IF w = q \/ Waits(w, q) THEN Served(request[w].filter, request[w].floor, entry)
                                     ELSE request[w]]
  BY DEF RunQuery, Handle
<1>3. entry.rows = Listed(entry.filter) /\ entry.filter \in Filters /\ entry.age = 0 /\ TTL > 0
  BY RequestOf, StorefrontAssumption DEF RunQuery, FetchReq
<1>3a. entry.rows \in SUBSET Orders /\ \A floor : Sound(floor, entry.filter, entry.rows)
  BY <1>3 DEF Listed, Placed, Sound
<1> HIDE DEF entry
<1>4. ASSUME NEW w \in Requests, w = q \/ Waits(w, q)
      PROVE  /\ Served(request[w].filter, request[w].floor, entry) \in AnyRequest
             /\ Served(request[w].filter, request[w].floor, entry).kind = "served"
             /\ Knows(Served(request[w].filter, request[w].floor, entry))
  <2>1. PICK filter, floor : filter = request[w].filter /\ floor = request[w].floor
    OBVIOUS
  <2>2. filter \in Filters /\ floor \in SUBSET Orders /\ floor \subseteq Placed
    BY <1>4, <2>1, RequestOf DEF RunQuery, Waits, FetchReq, WaitReq, Knows
  <2>3. PICK r : r = Served(filter, floor, entry)
    OBVIOUS
  <2>4. r \in ServedReq /\ r.kind = "served" /\ Sound(r.floor, r.from, r.rows) /\ r.age < TTL /\ r.floor = floor
    BY <1>3, <1>3a, <2>2, <2>3 DEF Served, ServedReq
  <2>5. Knows(r)
    BY <2>2, <2>4 DEF Knows
  <2>6. r \in AnyRequest
    BY <2>4 DEF AnyRequest, StorefrontReq
  <2> QED
    BY <2>1, <2>3, <2>4, <2>5, <2>6
<1>5. request' \in [Requests -> AnyRequest]
  BY <1>2, <1>4, RequestOf
<1>6. \A w \in Requests : request'[w] = request[w] \/ (Knows(request'[w]) /\ request'[w].kind # "create")
  BY <1>2, <1>4
<1> QED
  BY <1>1, <1>5, <1>6, ManyGo

LEMMA QueryFailsKeeps ==
  ASSUME KInv, NEW q \in Requests, QueryFails(q)
  PROVE  KInv'
<1>1. Unmoved
  BY DEF QueryFails, Handle, Catalogued, Unmoved
<1>2. request' = [w \in Requests |-> IF w = q \/ Waits(w, q) THEN Idle ELSE request[w]]
  BY DEF QueryFails, Handle
<1>3. request' \in [Requests -> AnyRequest]
  BY <1>2, IdleKnown, RequestOf
<1>4. \A w \in Requests : request'[w] = request[w] \/ (Knows(request'[w]) /\ request'[w].kind # "create")
  BY <1>2, IdleKnown
<1> QED
  BY <1>1, <1>3, <1>4, ManyGo

LEMMA NamingKeeps ==
  ASSUME KInv, NEW q \in Requests, NameStore(q) \/ NamingFails(q)
  PROVE  KInv'
<1>1. Unmoved
  BY DEF NameStore, NamingFails, Handle, Catalogued, Unmoved
<1>2. \A w \in Requests : w = q \/ Awaits(w, q) => request[w].filter \in Filters
  BY RequestOf DEF NameStore, NamingFails, Awaits, NameReq, AwaitReq
<1>3. \A filter \in Filters :
        Named(filter) \in AnyRequest /\ Named(filter).kind = "named" /\ Knows(Named(filter))
  BY DEF Named, AnyRequest, StorefrontReq, NameReq, Knows
<1>4. \/ request' = [w \in Requests |-> IF w = q \/ Awaits(w, q) THEN Named(request[w].filter) ELSE request[w]]
      \/ request' = [w \in Requests |-> IF w = q \/ Awaits(w, q) THEN Idle ELSE request[w]]
  BY DEF NameStore, NamingFails, Handle
<1>5. request' \in [Requests -> AnyRequest]
  BY <1>2, <1>3, <1>4, IdleKnown, RequestOf
<1>6. \A w \in Requests : request'[w] = request[w] \/ (Knows(request'[w]) /\ request'[w].kind # "create")
  BY <1>2, <1>3, <1>4, IdleKnown
<1> QED
  BY <1>1, <1>5, <1>6, ManyGo

LEMMA TickKeeps ==
  ASSUME KInv, Tick
  PROVE  KInv'
<1>1. Unmoved
  BY DEF Tick, Handle, Catalogued, Unmoved
<1>2. request' = [w \in Requests |->
         IF request[w].kind = "resolving" THEN [request[w] EXCEPT !.read = Older(@)] ELSE request[w]]
  BY DEF Tick, Handle
<1>3. ASSUME NEW w \in Requests, request[w].kind = "resolving"
      PROVE  request'[w] \in ResolveReq /\ request'[w].kind = "resolving"
  <2>1. request[w] \in ResolveReq
    BY <1>3, RequestOf
  <2> QED
    BY <1>2, <1>3, <2>1, StorefrontAssumption DEF ResolveReq, Older
<1>4. request' \in [Requests -> AnyRequest]
  BY <1>2, <1>3, RequestOf DEF AnyRequest, StorefrontReq
<1>5. \A w \in Requests : request'[w] = request[w] \/ (Knows(request'[w]) /\ request'[w].kind # "create")
  BY <1>2, <1>3 DEF Knows
<1> QED
  BY <1>1, <1>4, <1>5, ManyGo

LEMMA EndsKeep ==
  ASSUME KInv, NEW q \in Requests, Respond(q) \/ InvalidateCache(q) \/ ReviewFails(q) \/ WriteRating(q)
  PROVE  KInv'
<1>1. Unmoved /\ request' = [request EXCEPT ![q] = Idle]
  BY DEF Respond, InvalidateCache, ReviewFails, WriteRating, Handle, Catalogued, Unmoved
<1> QED
  BY <1>1, IdleKnown, ReadKeeps

LEMMA ReviewKeeps ==
  ASSUME KInv, NEW q \in Requests, NEW p \in Products, NEW c \in Customers, NEW stars \in Ratings \cup {0},
         WriteReview(q, p, c, stars)
  PROVE  KInv'
<1>1. PICK r : r = [kind |-> "reviewed", product |-> p]
  OBVIOUS
<1>2. r \in AnyRequest /\ r.kind = "reviewed" /\ Knows(r)'
  BY <1>1 DEF AnyRequest, StorefrontReq, ReviewReq, Knows
<1>3. Commit(q, r) /\ UNCHANGED <<product, variant, image, remote, line, moved>>
  BY <1>1 DEF WriteReview, Write, Catalogued
<1>4. /\ handled' \in 0..MaxHandled /\ handled < handled' /\ request' = [request EXCEPT ![q] = r]
      /\ moved' \subseteq Variants
  BY <1>3, Commits DEF KInv, CatalogueTypeOK
<1> QED
  BY <1>2, <1>3, <1>4, StillRows, RequestGoes

LEMMA AggregateKeeps ==
  ASSUME KInv, RatingInv, NEW q \in Requests, Aggregate(q)
  PROVE  KInv'
<1>1. request[q] \in ReviewReq
  BY RequestOf DEF Aggregate
<1>2. PICK p \in Products, seen \in Reviews : p = request[q].product /\ seen = review[p]
  BY <1>1 DEF ReviewReq, RatingInv
<1>3. PICK r : r = [kind |-> "aggregated", product |-> p, seen |-> seen]
  OBVIOUS
<1>4. r \in AnyRequest /\ r.kind = "aggregated" /\ Knows(r)
  BY <1>3 DEF AnyRequest, StorefrontReq, AggReq, Knows
<1>5. request' = [request EXCEPT ![q] = r] /\ Unmoved
  BY <1>2, <1>3 DEF Aggregate, Handle, Catalogued, Unmoved
<1> QED
  BY <1>4, <1>5, ReadKeeps

LEMMA StillKeeps ==
  ASSUME KInv, UNCHANGED request, UNCHANGED Catalogued,
         handled' = handled \/ (handled < MaxHandled /\ handled' = handled + 1)
  PROVE  KInv'
<1>1. /\ handled' \in 0..MaxHandled /\ handled <= handled' /\ handled \in Nat /\ handled' \in Nat
  BY BoundAssumption DEF KInv, CatalogueTypeOK
<1>2. UNCHANGED <<product, variant, image, remote, line, moved>>
  BY DEF Catalogued
<1>3. Placed' = Placed /\ Sold' = Sold /\ Existing' = Existing
  BY <1>2 DEF Placed, Sold, Existing
<1>4. Gentle
  BY <1>1, <1>2, <1>3 DEF Gentle, Steady
<1>5. CatalogueTypeOK' /\ OwnFiles' /\ LinesResolve'
  BY <1>1, <1>2 DEF KInv, CatalogueTypeOK, OwnFiles, LinesResolve, Rows, Images
<1>6. ASSUME NEW w \in Requests PROVE Knows(request[w])'
  <2>0. \A p \in Products, f \in Files : image'[p][f] \in Nat
    BY <1>5, BoundAssumption DEF CatalogueTypeOK
  <2>1. PICK x : x = request[w]
    OBVIOUS
  <2>2. Knows(x)'
    BY <1>1, <1>4, <2>0, <2>1, GentleKnows
  <2> QED
    BY <2>1, <2>2 DEF Knows
<1>7. CreateBound'
  <2>1. Creating' = Creating
    BY DEF Creating
  <2> QED
    BY <1>3, <2>1, BoundKept DEF KInv
<1> QED
  BY <1>5, <1>6, <1>7 DEF KInv

LEMMA KStep == ShopInv /\ [Next]_vars => KInv'
<1> SUFFICES ASSUME ShopInv, [Next]_vars PROVE KInv'
  OBVIOUS
<1>0. KInv /\ CacheInv /\ EntryInv /\ RatingInv
  BY DEF ShopInv
<1>0a. CASE Tick
  BY <1>0, <1>0a, TickKeeps
<1>1. CASE ChangeStatus \/ UNCHANGED vars
  <2>1. UNCHANGED request /\ UNCHANGED Catalogued /\ (handled' = handled \/ (handled < MaxHandled /\ handled' = handled + 1))
    BY <1>1 DEF ChangeStatus, vars, catalogueVars, Catalogued
  <2> QED
    BY <1>0, <2>1, StillKeeps
<1>2. ASSUME NEW q \in Requests, CatalogueMoves(q) PROVE KInv'
  BY <1>0, <1>2, CatalogueKeeps DEF CatalogueMoves
<1>3. ASSUME NEW q \in Requests, LookUp(q) \/ Warm(q) PROVE KInv'
  <2>1. LookUp(q) => request[q].filter \in Filters
    BY <1>0, RequestOf DEF LookUp, NameReq
  <2> QED
    BY <1>0, <1>3, <2>1, BestsellersKeep, StorefrontAssumption DEF LookUp, Warm
<1>3a. ASSUME NEW q \in Requests,
              (\E filter \in Filters : ListProducts(q, filter)) \/ NameStore(q) \/ NamingFails(q) \/ ResolveStore(q)
       PROVE  KInv'
  BY <1>0, <1>3a, AsksKeep, NamingKeeps, ResolveKeeps
<1>4. ASSUME NEW q \in Requests, RunQuery(q) \/ QueryFails(q) \/ Respond(q) \/ InvalidateCache(q) PROVE KInv'
  BY <1>0, <1>4, RunQueryKeeps, QueryFailsKeeps, EndsKeep
<1>5. ASSUME NEW q \in Requests, NEW p \in Products, NEW c \in Customers, NEW stars \in Ratings \cup {0},
             WriteReview(q, p, c, stars)
      PROVE  KInv'
  BY <1>0, <1>5, ReviewKeeps
<1>6. ASSUME NEW q \in Requests, Aggregate(q) \/ WriteRating(q) \/ ReviewFails(q) PROVE KInv'
  BY <1>0, <1>6, AggregateKeeps, EndsKeep
<1> QED
  BY <1>0a, <1>1, <1>2, <1>3, <1>3a, <1>4, <1>5, <1>6 DEF Next

-----------------------------------------------------------------------------
(* One request goes on, and not to the read of resolveStore.               *)
Turns(q) == \E r : request' = [request EXCEPT ![q] = r] /\ r.kind # "resolving"

LEMMA Turning ==
  ASSUME NEW q, NEW r, request' = [request EXCEPT ![q] = r], r.kind # "resolving"
  PROVE  Turns(q)
  BY DEF Turns

LEMMA CatalogueMovesRequest ==
  ASSUME KInv, NEW q \in Requests, CatalogueMoves(q)
  PROVE  /\ Turns(q)
         /\ request[q].kind \notin {"reviewed", "aggregated"}
         /\ \A p \in Products : product'[p] # "gone" => product[p] # "gone"
<1> USE IdleKnown DEF CatalogueMoves, Goto, Look, Commit
<1>1. ASSUME NEW p \in Products, NEW form \in FormOf(p), ReadForCreate(q, p, form) \/ ReadForUpdate(q, p, form)
      PROVE  Turns(q) /\ request[q].kind = "idle" /\ product' = product
  BY <1>1 DEF ReadForCreate, ReadForUpdate, Turns
<1>2. ASSUME NEW p \in Products, ReadForRemove(q, p)
      PROVE  Turns(q) /\ request[q].kind = "idle" /\ product' = product
  <2>0. PICK r : r = [kind |-> "remove", id |-> p, files |-> Images(p)]
    OBVIOUS
  <2>1. /\ request' = [request EXCEPT ![q] = r] /\ r.kind = "remove"
        /\ request[q].kind = "idle" /\ product' = product
    BY <2>0, <1>2 DEF ReadForRemove
  <2> QED
    BY <2>1, Turning
<1>3. ASSUME CreateProduct(q)
      PROVE  /\ Turns(q)
             /\ request[q].kind = "create"
             /\ \A p \in Products : product'[p] # "gone" => product[p] # "gone"
  <2>1. product' = [product EXCEPT ![request[q].id] = "row"] /\ product[request[q].id] = "none"
    BY <1>3 DEF CreateProduct
  <2> QED
    BY <1>3, <2>1 DEF CreateProduct, KInv, CatalogueTypeOK, Turns
<1>4. ASSUME RemoveProduct(q)
      PROVE  /\ Turns(q)
             /\ request[q].kind = "remove"
             /\ \A p \in Products : product'[p] # "gone" => product[p] # "gone"
  <2>0. PICK r : r = [kind |-> "cleanup", files |-> request[q].files, at |-> handled + 1]
    OBVIOUS
  <2>1. /\ request' = [request EXCEPT ![q] = r] /\ r.kind = "cleanup"
        /\ request[q].kind = "remove" /\ product' = [product EXCEPT ![request[q].id] = "gone"]
    BY <2>0, <1>4 DEF RemoveProduct
  <2> QED
    BY <2>1, Turning DEF KInv, CatalogueTypeOK
<1>5. ASSUME LockProduct(q) \/ CountHistory(q) \/ SaveProduct(q) \/ Cleanup(q) \/ WriteLine(q) \/ CommitAdjustment(q)
      PROVE  Turns(q) /\ request[q].kind \notin {"reviewed", "aggregated"}
             /\ product' = product
  <2>1. LockProduct(q) => [request[q] EXCEPT !.kind = "saving"].kind = "saving"
    BY RequestOf DEF LockProduct, FormReq
  <2>2. WriteLine(q) => [request[q] EXCEPT !.kind = "selling"].kind = "selling"
    BY RequestOf DEF WriteLine, VariantReq
  <2> QED
    BY <1>5, <2>1, <2>2 DEF LockProduct, CountHistory, SaveProduct, Cleanup, WriteLine, CommitAdjustment, Turns
<1>6. ASSUME NEW v \in Variants, ReadForSale(q, v) \/ WriteMovement(q, v)
      PROVE  Turns(q) /\ request[q].kind = "idle" /\ product' = product
  BY <1>6 DEF ReadForSale, WriteMovement, Turns
<1>7. ASSUME NEW o \in Orders, CommitSale(q, o)
      PROVE  Turns(q) /\ request[q].kind = "selling" /\ product' = product
  <2>0. PICK r : r = [kind |-> "sold", order |-> o]
    OBVIOUS
  <2>1. /\ request' = [request EXCEPT ![q] = r] /\ r.kind = "sold"
        /\ request[q].kind = "selling" /\ product' = product
    BY <2>0, <1>7 DEF CommitSale
  <2> QED
    BY <2>1, Turning
<1>8. ASSUME Fail(q), request[q].kind \notin {"reviewed", "aggregated"}
      PROVE  Turns(q) /\ product' = product
  BY <1>8 DEF Fail, Turns
<1> QED
  BY <1>1, <1>2, <1>3, <1>4, <1>5, <1>6, <1>7, <1>8 DEF CatalogueStep

(* A visitor's step is one of the request's own, and no review.            *)
LEMMA VisitsAreNotReviews ==
  ASSUME KInv, NEW q \in Requests,
         \/ (\E filter : Bestsellers(q, filter)) /\ request[q].kind \in {"named", "resolving"}
         \/ (\E filter : ListProducts(q, filter)) \/ Respond(q) \/ InvalidateCache(q)
  PROVE  /\ Turns(q)
         /\ request[q].kind \notin {"reviewed", "aggregated"}
         /\ product' = product
<1>1. ASSUME NEW filter, Bestsellers(q, filter)
      PROVE  Turns(q) /\ product' = product
  <2>1. \/ request' = [request EXCEPT ![q] = Served(filter, invalidated, bestsellers)]
        \/ request' = [request EXCEPT ![q] = [kind |-> "waiting", filter |-> filter, floor |-> invalidated,
                                             on |-> bestsellers.by, age |-> bestsellers.age]]
        \/ request' = [request EXCEPT ![q] = Fetching(filter)]
    BY <1>1 DEF Bestsellers, Handle
  <2>2. product' = product
    BY <1>1 DEF Bestsellers, Handle, Catalogued
  <2>3. Served(filter, invalidated, bestsellers).kind = "served" /\ Fetching(filter).kind = "fetching"
    BY DEF Served, Fetching
  <2> QED
    BY <2>1, <2>2, <2>3, Turning
<1>2. ASSUME NEW filter, ListProducts(q, filter)
      PROVE  Turns(q) /\ product' = product
             /\ request[q] = Idle
  <2>1. \/ request' = [request EXCEPT ![q] = [kind |-> "named", filter |-> filter]]
        \/ request' = [request EXCEPT ![q] = [kind |-> "awaiting", filter |-> filter, on |-> idCache.by]]
        \/ request' = [request EXCEPT ![q] = [kind |-> "naming", filter |-> filter]]
    BY <1>2 DEF ListProducts, Handle, Named
  <2>2. product' = product /\ request[q] = Idle
    BY <1>2 DEF ListProducts, Handle, Catalogued
  <2>3. \E x : request' = [request EXCEPT ![q] = x] /\ x.kind \in {"named", "awaiting", "naming"}
    <3>1. PICK a, b, c : /\ a = [kind |-> "named", filter |-> filter]
                         /\ b = [kind |-> "awaiting", filter |-> filter, on |-> idCache.by]
                         /\ c = [kind |-> "naming", filter |-> filter]
      OBVIOUS
    <3>2. a.kind = "named" /\ b.kind = "awaiting" /\ c.kind = "naming"
      BY <3>1
    <3> QED
      BY <2>1, <3>1, <3>2
  <2> QED
    BY <2>2, <2>3, Turning
<1>3. ASSUME Respond(q) \/ InvalidateCache(q)
      PROVE  /\ Turns(q)
             /\ request[q].kind \notin {"reviewed", "aggregated"} /\ product' = product
  BY <1>3, IdleKnown DEF Respond, InvalidateCache, Handle, Catalogued, Turns
<1> QED
  BY <1>1, <1>2, <1>3, IdleKnown

-----------------------------------------------------------------------------
(* The cache of the store's id.                                            *)
LEMMA CacheStays ==
  ASSUME CacheInv, UNCHANGED <<open, closedFor, idCache>>,
         \A w \in Requests : request'[w].kind = "resolving" => request'[w] = request[w]
  PROVE  CacheInv'
  BY DEF CacheInv, ClosedStoreHidden, Young

LEMMA OneReads ==
  ASSUME KInv, NEW q \in Requests, NEW r, request' = [request EXCEPT ![q] = r], r.kind # "resolving"
  PROVE  \A w \in Requests : request'[w].kind = "resolving" => request'[w] = request[w]
<1>1. request' = [w \in Requests |-> IF w = q THEN r ELSE request[w]]
  BY DEF KInv
<1> QED
  BY <1>1

LEMMA TickAges ==
  ASSUME KInv, CacheInv, Tick
  PROVE  CacheInv'
<1>0. TTL \in Nat /\ TTL > 0
  BY StorefrontAssumption
<1>1. closedFor' = (IF open THEN closedFor ELSE Older(closedFor)) /\ idCache' = Aged(idCache) /\ open' = open
  BY DEF Tick
<1>2. open' \in BOOLEAN /\ closedFor' \in 0..TTL + 1 /\ closedFor \in 0..TTL + 1
  BY <1>0, <1>1 DEF CacheInv, Older
<1>3. ASSUME idCache # NoEntry, idCache.age + 1 < TTL
      PROVE  idCache' \in IdEntry /\ ClosedStoreHidden'
  <2>1. idCache \in IdEntry
    BY <1>3 DEF CacheInv
  <2>2. idCache' = [idCache EXCEPT !.age = idCache.age + 1]
    BY <1>1, <1>3 DEF Aged
  <2>3. /\ idCache' \in IdEntry /\ idCache'.age = idCache.age + 1
        /\ idCache'.by = idCache.by /\ idCache'.lag = idCache.lag
    BY <1>0, <1>3, <2>1, <2>2 DEF IdEntry
  <2>4. ~ open /\ idCache.by = Nobody => closedFor <= idCache.age + idCache.lag
    BY <1>0, <1>3, <2>1 DEF CacheInv, ClosedStoreHidden, Young, IdEntry
  <2>5. ClosedStoreHidden'
    BY <1>0, <1>1, <1>2, <2>1, <2>3, <2>4 DEF ClosedStoreHidden, Older, IdEntry
  <2> QED
    BY <2>3, <2>5
<1>4. ASSUME ~ (idCache # NoEntry /\ idCache.age + 1 < TTL)
      PROVE  idCache' = NoEntry /\ ClosedStoreHidden'
  BY <1>1, <1>4 DEF Aged, ClosedStoreHidden, Young
<1>5. ASSUME NEW w \in Requests, request'[w].kind = "resolving"
      PROVE  request'[w] \in ResolveReq /\ (~ open' => closedFor' <= request'[w].read)
  <2>1. request'[w] = IF request[w].kind = "resolving" THEN [request[w] EXCEPT !.read = Older(request[w].read)]
                      ELSE request[w]
    BY DEF Tick, Handle
  <2>2. request[w].kind = "resolving"
    BY <1>5, <2>1
  <2>3. request[w] \in ResolveReq /\ (~ open => closedFor <= request[w].read)
    BY <2>2 DEF CacheInv
  <2>4. PICK read \in 0..TTL + 1 : read = request[w].read
    BY <2>3 DEF ResolveReq
  <2>5. request'[w] \in ResolveReq /\ request'[w].read = Older(read)
    BY <1>0, <2>1, <2>2, <2>3, <2>4 DEF ResolveReq, Older
  <2> QED
    BY <1>0, <1>1, <1>2, <2>3, <2>4, <2>5 DEF Older
<1> QED
  BY <1>2, <1>3, <1>4, <1>5 DEF CacheInv

(* An id is written by a request that has just found the store active, or  *)
(* that found it so when it read.                                          *)
LEMMA WarmSets ==
  ASSUME KInv, CacheInv, NEW q \in Requests, Warm(q)
  PROVE  CacheInv'
<1>0. TTL \in Nat /\ TTL > 0
  BY StorefrontAssumption
<1>1. request[q] \in ResolveReq /\ (~ open => closedFor <= request[q].read)
  BY DEF CacheInv, Warm
<1>2. PICK read \in 0..TTL + 1 : read = request[q].read
  BY <1>1 DEF ResolveReq
<1>3. idCache' = [by |-> Nobody, age |-> 0, lag |-> read] /\ UNCHANGED <<open, closedFor>>
  BY <1>2 DEF Warm
<1>4. idCache' \in IdEntry
  BY <1>0, <1>3 DEF IdEntry
<1>5. ClosedStoreHidden'
  BY <1>0, <1>1, <1>2, <1>3 DEF ClosedStoreHidden, CacheInv
<1>6. \A w \in Requests : request'[w].kind = "resolving" => request'[w] = request[w]
  BY VisitsAreNotReviews, OneReads DEF Warm, Turns
<1> QED
  BY <1>3, <1>4, <1>5, <1>6 DEF CacheInv

LEMMA ListSets ==
  ASSUME KInv, CacheInv, NEW q \in Requests, NEW filter \in Filters, ListProducts(q, filter)
  PROVE  CacheInv'
<1>0. TTL \in Nat /\ TTL > 0 /\ q # Nobody
  BY StorefrontAssumption DEF Nobody
<1>1. \A w \in Requests : request'[w].kind = "resolving" => request'[w] = request[w]
  BY VisitsAreNotReviews, OneReads DEF Turns
<1>2. UNCHANGED <<open, closedFor>>
  BY DEF ListProducts
<1>3. CASE UNCHANGED idCache
  BY <1>1, <1>2, <1>3, CacheStays
<1>4. CASE idCache' = [by |-> q, age |-> 0, lag |-> 0]
  <2>1. idCache' \in IdEntry
    BY <1>0, <1>4 DEF IdEntry
  <2>2. ClosedStoreHidden'
    BY <1>0, <1>4 DEF ClosedStoreHidden
  <2> QED
    BY <1>1, <1>2, <2>1, <2>2 DEF CacheInv
<1> QED
  BY <1>3, <1>4 DEF ListProducts

LEMMA NamingSets ==
  ASSUME KInv, CacheInv, NEW q \in Requests, NameStore(q) \/ NamingFails(q)
  PROVE  CacheInv'
<1>1. \A w \in Requests : request'[w].kind = "resolving" => request'[w] = request[w]
  BY IdleKnown DEF NameStore, NamingFails, Handle, Named
<1>2. UNCHANGED <<open, closedFor>>
  BY DEF NameStore, NamingFails
<1>3. CASE UNCHANGED idCache
  BY <1>1, <1>2, <1>3, CacheStays
<1>4. CASE idCache' = NoEntry
  BY <1>1, <1>2, <1>4 DEF CacheInv, ClosedStoreHidden, Young
<1>5. CASE open /\ idCache.by = q /\ idCache' = [idCache EXCEPT !.by = Nobody]
  <2>1. q # Nobody
    BY StorefrontAssumption DEF Nobody
  <2>2. idCache \in IdEntry
    BY <1>5, <2>1 DEF CacheInv, NoEntry
  <2>3. idCache' \in IdEntry
    BY <1>5, <2>2 DEF IdEntry
  <2>4. ClosedStoreHidden'
    BY <1>2, <1>5 DEF ClosedStoreHidden
  <2> QED
    BY <1>1, <1>2, <2>3, <2>4 DEF CacheInv
<1> QED
  BY <1>3, <1>4, <1>5 DEF NameStore, NamingFails

LEMMA CacheStep == KInv /\ CacheInv /\ [Next]_vars => CacheInv'
<1> SUFFICES ASSUME KInv, CacheInv, [Next]_vars PROVE CacheInv'
  OBVIOUS
<1>0. TTL \in Nat /\ TTL > 0
  BY StorefrontAssumption
<1>1. CASE ChangeStatus
  <2>1. open' = ~ open /\ closedFor' = 0 /\ UNCHANGED <<idCache, request>>
    BY <1>1 DEF ChangeStatus
  <2>2. ClosedStoreHidden'
    <3>1. Young(idCache) => idCache.age + idCache.lag >= 0
      BY <1>0 DEF CacheInv, Young, IdEntry
    <3> QED
      BY <2>1, <3>1 DEF ClosedStoreHidden, Young
  <2>3. \A w \in Requests : request[w] \in ResolveReq => request[w].read >= 0
    BY <1>0 DEF ResolveReq
  <2> QED
    BY <1>0, <2>1, <2>2, <2>3 DEF CacheInv
<1>2. CASE Tick
  BY <1>2, TickAges
<1>3. CASE UNCHANGED vars
  BY <1>3, CacheStays DEF vars, catalogueVars, storefrontVars
<1>4. ASSUME NEW q \in Requests, Warm(q) \/ NameStore(q) \/ NamingFails(q) PROVE CacheInv'
  BY <1>4, WarmSets, NamingSets
<1>5. ASSUME NEW q \in Requests, NEW filter \in Filters, ListProducts(q, filter) PROVE CacheInv'
  BY <1>5, ListSets
<1>6. ASSUME NEW q \in Requests, ResolveStore(q) PROVE CacheInv'
  <2>1. /\ open /\ UNCHANGED <<open, closedFor, idCache>>
        /\ request' = [w \in Requests |-> IF w = q THEN [kind |-> "resolving", read |-> 0] ELSE request[w]]
    BY <1>6 DEF ResolveStore, Handle, storefrontVars, KInv
  <2>2. [kind |-> "resolving", read |-> 0] \in ResolveReq
    BY <1>0 DEF ResolveReq
  <2> QED
    BY <2>1, <2>2 DEF CacheInv, ClosedStoreHidden, Young
<1>7. ASSUME NEW q \in Requests,
             CatalogueMoves(q) \/ LookUp(q) \/ Respond(q) \/ InvalidateCache(q)
      PROVE  CacheInv'
  <2>1. UNCHANGED <<open, closedFor, idCache>>
    BY <1>7 DEF CatalogueMoves, LookUp, Respond, InvalidateCache, storefrontVars
  <2>2. \E r : request' = [request EXCEPT ![q] = r] /\ r.kind # "resolving"
    BY <1>7, CatalogueMovesRequest, VisitsAreNotReviews DEF LookUp, Turns
  <2> QED
    BY <2>1, <2>2, OneReads, CacheStays
<1>8. ASSUME NEW q \in Requests, RunQuery(q) \/ QueryFails(q) PROVE CacheInv'
  <2>1. \A w \in Requests : request'[w].kind = "resolving" => request'[w] = request[w]
    BY <1>8, IdleKnown DEF RunQuery, QueryFails, Handle, Served
  <2> QED
    BY <1>8, <2>1, CacheStays DEF RunQuery, QueryFails
<1>9. ASSUME NEW q \in Requests,
             \/ Aggregate(q) \/ WriteRating(q) \/ ReviewFails(q)
             \/ \E p \in Products, c \in Customers, stars \in Ratings \cup {0} : WriteReview(q, p, c, stars)
      PROVE  CacheInv'
  <2>1. UNCHANGED <<open, closedFor, idCache>>
    BY <1>9 DEF Aggregate, WriteRating, ReviewFails, WriteReview, storefrontVars
  <2>2. \E r : request' = [request EXCEPT ![q] = r] /\ r.kind # "resolving"
    BY <1>9, IdleKnown DEF Aggregate, WriteRating, ReviewFails, WriteReview, Handle, Write, Commit, Goto
  <2> QED
    BY <2>1, <2>2, OneReads, CacheStays
<1> QED
  BY <1>1, <1>2, <1>3, <1>4, <1>5, <1>6, <1>7, <1>8, <1>9 DEF Next

-----------------------------------------------------------------------------
(* The bestsellers.  A placed order keeps its line.                        *)
LEMMA SteadyStep ==
  ASSUME KInv, [Next]_vars
  PROVE  Steady /\ Placed' \subseteq Orders
<1>1. CASE UNCHANGED <<line, product>>
  BY <1>1 DEF Placed, Steady
<1>2. ASSUME NEW q \in Requests, NEW o \in Orders, CommitSale(q, o) PROVE Steady
  <2>1. line[o] = NoVariant /\ line' = [line EXCEPT ![o] = request[q].variant] /\ UNCHANGED product
    BY <1>2 DEF CommitSale
  <2> QED
    BY <2>1 DEF Placed, Steady, KInv, CatalogueTypeOK
<1>3. ASSUME NEW q \in Requests, CatalogueMoves(q) PROVE Steady
  <2>1. UNCHANGED line \/ \E o \in Orders : CommitSale(q, o)
    BY <1>3 DEF CatalogueMoves, CatalogueStep, ReadForCreate, ReadForUpdate, ReadForRemove, CreateProduct,
                RemoveProduct, LockProduct, CountHistory, SaveProduct, Cleanup, ReadForSale, WriteMovement, WriteLine,
                CommitAdjustment, Fail, Look
  <2>2. CASE UNCHANGED line
    BY <1>3, <2>2, CatalogueMovesRequest DEF Placed, Steady
  <2> QED
    BY <1>2, <2>1, <2>2
<1>4. ASSUME NEW q \in Requests,
             \/ \E filter \in Filters : ListProducts(q, filter)
             \/ NameStore(q) \/ NamingFails(q) \/ LookUp(q) \/ ResolveStore(q) \/ Warm(q)
             \/ RunQuery(q) \/ QueryFails(q) \/ Respond(q) \/ InvalidateCache(q)
             \/ \E p \in Products, c \in Customers, stars \in Ratings \cup {0} : WriteReview(q, p, c, stars)
             \/ Aggregate(q) \/ WriteRating(q) \/ ReviewFails(q)
      PROVE  UNCHANGED <<line, product>>
  BY <1>4 DEF ListProducts, NameStore, NamingFails, LookUp, ResolveStore, Warm, Bestsellers, RunQuery, QueryFails,
              Respond, InvalidateCache, WriteReview, Aggregate, WriteRating, ReviewFails, Handle, Write, Catalogued
<1>5. CASE ChangeStatus \/ Tick \/ UNCHANGED vars
  BY <1>1, <1>5 DEF ChangeStatus, Tick, Handle, vars, catalogueVars, Catalogued
<1>6. Placed' \subseteq Orders
  BY DEF Placed
<1> QED
  BY <1>1, <1>3, <1>4, <1>5, <1>6 DEF Next

LEMMA EntryStays ==
  ASSUME KInv, EntryInv, Steady, UNCHANGED <<bestsellers, invalidated>>
  PROVE  EntryInv'
<1>1. (bestsellers = NoEntry \/ bestsellers \in Entry)' /\ (invalidated \subseteq Placed)'
  BY DEF EntryInv, Entry, Steady
<1>2. ASSUME bestsellers # NoEntry, bestsellers.by = Nobody
      PROVE  Sound(invalidated, bestsellers.filter, bestsellers.rows)'
  <2>1. PICK floor, from, rows : floor = invalidated /\ from = bestsellers.filter /\ rows = bestsellers.rows
    OBVIOUS
  <2>2. from \in Filters /\ floor \subseteq Placed /\ Sound(floor, from, rows)
    BY <1>2, <2>1 DEF EntryInv, Entry
  <2>3. Sound(floor, from, rows)'
    BY <2>2, SoundStays
  <2> QED
    BY <2>1, <2>3 DEF Sound
<1> QED
  BY <1>1, <1>2 DEF EntryInv

LEMMA EntryStep == KInv /\ EntryInv /\ [Next]_vars => EntryInv'
<1> SUFFICES ASSUME KInv, EntryInv, [Next]_vars PROVE EntryInv'
  OBVIOUS
<1>0. TTL \in Nat /\ TTL > 0 /\ Steady /\ Nobody \notin Requests
  BY SteadyStep, StorefrontAssumption DEF Nobody
<1>0a. ASSUME bestsellers' = NoEntry, invalidated' \subseteq Placed PROVE EntryInv'
  BY <1>0, <1>0a DEF EntryInv, Steady
<1>1. CASE ChangeStatus \/ UNCHANGED vars
  BY <1>0, <1>1, EntryStays DEF ChangeStatus, vars, storefrontVars
<1>2. CASE Tick
  <2>1. bestsellers' = Aged(bestsellers) /\ invalidated' = invalidated /\ invalidated \subseteq Placed
    BY <1>2 DEF Tick, EntryInv
  <2>2. CASE ~ (bestsellers # NoEntry /\ bestsellers.age + 1 < TTL)
    BY <1>0a, <2>1, <2>2 DEF Aged
  <2>3. CASE bestsellers # NoEntry /\ bestsellers.age + 1 < TTL
    <3>1. bestsellers \in Entry /\ bestsellers' = [bestsellers EXCEPT !.age = bestsellers.age + 1]
      BY <2>1, <2>3 DEF EntryInv, Aged
    <3>2. PICK rows, from : rows = bestsellers.rows /\ from = bestsellers.filter
      OBVIOUS
    <3>3. /\ bestsellers' \in Entry /\ bestsellers'.rows = rows /\ bestsellers'.filter = from
          /\ bestsellers'.by = bestsellers.by
      BY <1>0, <2>3, <3>1, <3>2 DEF Entry
    <3>4. bestsellers' \in Entry' /\ invalidated \subseteq Placed'
      BY <1>0, <2>1, <3>3 DEF Entry, Steady
    <3>5. PICK floor : floor = invalidated
      OBVIOUS
    <3>6. ASSUME bestsellers.by = Nobody PROVE Sound(floor, from, rows)'
      <4>1. Sound(floor, from, rows) /\ floor \subseteq Placed /\ from \in Filters
        BY <2>3, <3>1, <3>2, <3>5, <3>6 DEF EntryInv, Entry
      <4> QED
        BY <1>0, <4>1, SoundStays
    <3> QED
      BY <2>1, <3>3, <3>4, <3>5, <3>6 DEF EntryInv, Sound
  <2> QED
    BY <2>2, <2>3
<1>3. ASSUME NEW q \in Requests, NEW filter \in Filters, Bestsellers(q, filter), UNCHANGED invalidated PROVE EntryInv'
  <2>1. CASE UNCHANGED bestsellers
    BY <1>0, <1>3, <2>1, EntryStays
  <2>2. CASE bestsellers' = [by |-> q, filter |-> filter, age |-> 0, rows |-> {}]
    BY <1>0, <1>3, <2>2 DEF EntryInv, Entry, Steady
  <2> QED
    BY <1>3, <2>1, <2>2 DEF Bestsellers
<1>4. ASSUME NEW q \in Requests, LookUp(q) \/ Warm(q) PROVE EntryInv'
  <2>1. LookUp(q) => request[q].filter \in Filters
    BY RequestOf DEF LookUp, NameReq
  <2> QED
    BY <1>3, <1>4, <2>1, StorefrontAssumption DEF LookUp, Warm
<1>5. ASSUME NEW q \in Requests, RunQuery(q) PROVE EntryInv'
  <2>1. CASE bestsellers.by # q
    BY <1>0, <1>5, <2>1, EntryStays DEF RunQuery
  <2>2. CASE bestsellers.by = q
    <3>1. bestsellers \in Entry
      BY <1>0, <2>2 DEF EntryInv, NoEntry
    <3>2. PICK from \in Filters : from = request[q].filter
      BY <1>5, RequestOf DEF RunQuery, FetchReq
    <3>3. PICK rows : rows = Listed(from)
      OBVIOUS
    <3>4. bestsellers' = [bestsellers EXCEPT !.by = Nobody, !.filter = from, !.rows = rows]
      BY <1>5, <2>2, <3>2, <3>3 DEF RunQuery
    <3>5. rows \subseteq Placed
      BY <3>3 DEF Listed
    <3>6. /\ bestsellers' \in Entry /\ bestsellers'.rows = rows /\ bestsellers'.filter = from
          /\ invalidated' = invalidated
      BY <1>5, <3>1, <3>4, <3>5 DEF Entry, RunQuery
    <3>7. bestsellers' \in Entry' /\ invalidated' \subseteq Placed'
      BY <1>0, <3>6 DEF Entry, EntryInv, Steady
    <3>8. PICK floor : floor = invalidated
      OBVIOUS
    <3>9. Sound(floor, from, rows)'
      <4>1. Sound(floor, from, rows) /\ floor \subseteq Placed
        BY <3>3, <3>8 DEF Sound, Listed, EntryInv
      <4> QED
        BY <1>0, <4>1, SoundStays
    <3> QED
      BY <3>6, <3>7, <3>8, <3>9 DEF EntryInv, Sound
  <2> QED
    BY <2>1, <2>2
<1>6. ASSUME NEW q \in Requests, QueryFails(q) PROVE EntryInv'
  BY <1>0a, <1>6 DEF QueryFails, EntryInv
<1>7. ASSUME NEW q \in Requests, InvalidateCache(q) PROVE EntryInv'
  <2>1. request[q].order \in Placed
    BY <1>7, RequestOf DEF InvalidateCache, Knows
  <2> QED
    BY <1>0a, <1>7, <2>1 DEF InvalidateCache, EntryInv
<1>8. ASSUME NEW q \in Requests,
             \/ CatalogueMoves(q) \/ (\E filter \in Filters : ListProducts(q, filter))
             \/ NameStore(q) \/ NamingFails(q) \/ ResolveStore(q)
             \/ Respond(q) \/ Aggregate(q) \/ WriteRating(q) \/ ReviewFails(q)
      PROVE  EntryInv'
  <2>1. UNCHANGED <<bestsellers, invalidated>>
    BY <1>8 DEF CatalogueMoves, ListProducts, NameStore, NamingFails, ResolveStore, Respond, Aggregate, WriteRating,
                ReviewFails, storefrontVars
  <2> QED
    BY <1>0, <2>1, EntryStays
<1>9. ASSUME NEW q \in Requests, NEW p \in Products, NEW c \in Customers, NEW stars \in Ratings \cup {0},
             WriteReview(q, p, c, stars)
      PROVE  EntryInv'
  BY <1>0, <1>9, EntryStays DEF WriteReview
<1> QED
  BY <1>1, <1>2, <1>4, <1>5, <1>6, <1>7, <1>8, <1>9 DEF Next

-----------------------------------------------------------------------------
(* The ratings.  A customer gives between one and five stars.              *)
LEMMA OneToFive == IsFiniteSet(1..5) /\ Cardinality(1..5) = 5
<1>1. 1 \in Int /\ 5 \in Int
  OBVIOUS
<1>2. IsFiniteSet(1..5) /\ Cardinality(1..5) = IF 1 > 5 THEN 0 ELSE 5 - 1 + 1
  BY <1>1, FS_Interval
<1> QED
  BY <1>2

LEMMA OnlyOne == IsFiniteSet({1}) /\ Cardinality({1}) = 1
  BY FS_Singleton, Zenon

LEMMA Aggregated ==
  ASSUME NEW r \in Reviews
  PROVE  Agg(r) \in Aggregates /\ RatingOK(Agg(r))
<1> DEFINE C == Raters(r)
           T == Stars(r)
<1>1. C \in SUBSET Customers /\ IsFiniteSet(Customers)
  BY StorefrontAssumption DEF Raters
<1>2. IsFiniteSet(C) /\ Cardinality(C) \in Nat /\ Cardinality(C) <= Cardinality(Customers) /\ Cardinality(Customers) \in Nat
  <2> HIDE DEF C
  <2> QED
    BY <1>1, FS_Subset, FS_CardinalityType
<1>3. IsFiniteSet(C \X (1..5)) /\ Cardinality(C \X (1..5)) = Cardinality(C) * 5
  <2> HIDE DEF C
  <2> QED
    BY <1>2, OneToFive, FS_Product
<1>4. IsFiniteSet(C \X {1}) /\ Cardinality(C \X {1}) = Cardinality(C) * 1
  <2> HIDE DEF C
  <2> QED
    BY <1>2, OnlyOne, FS_Product
<1>5. T \in SUBSET (C \X (1..5))
  BY DEF Stars
<1>6. C \X {1} \in SUBSET T
  <2>1. \A c \in C : r[c] \in Nat /\ r[c] >= 1
    <3>1. \A c \in C : c \in Customers /\ r[c] > 0
      BY DEF Raters
    <3>2. \A c \in Customers : r[c] \in Ratings \cup {0}
      BY DEF Reviews
    <3>3. \A n \in Ratings \cup {0} : n \in Nat
      BY StorefrontAssumption
    <3> QED
      BY <3>1, <3>2, <3>3
  <2>2. \A s \in C \X {1} : s[1] \in C /\ s[2] = 1 /\ s \in C \X (1..5)
    OBVIOUS
  <2> QED
    BY <2>1, <2>2 DEF Stars
<1>7. IsFiniteSet(T) /\ Cardinality(T) \in Nat /\ Cardinality(T) <= Cardinality(C) * 5
  <2> HIDE DEF T, C
  <2>1. IsFiniteSet(T) /\ Cardinality(T) <= Cardinality(C \X (1..5))
    BY <1>3, <1>5, FS_Subset
  <2>2. Cardinality(T) \in Nat
    BY <2>1, FS_CardinalityType
  <2> QED
    BY <1>3, <2>1, <2>2
<1>8. Cardinality(C) <= Cardinality(T)
  <2> HIDE DEF T, C
  <2>1. Cardinality(C \X {1}) <= Cardinality(T)
    BY <1>6, <1>7, FS_Subset
  <2> QED
    BY <1>2, <1>4, <2>1
<1> HIDE DEF T, C
<1>9. Agg(r) = [sum |-> Cardinality(T), count |-> Cardinality(C)]
  BY DEF Agg, T, C
<1> QED
  BY <1>2, <1>7, <1>8, <1>9 DEF Aggregates, RatingOK

LEMMA NoRating ==
  LET r == [c \in Customers |-> 0] IN r \in Reviews /\ Agg(r) = [sum |-> 0, count |-> 0]
<1> DEFINE r == [c \in Customers |-> 0]
<1>1. Raters(r) = {} /\ r \in Reviews
  BY DEF Raters, Reviews
<1>2. Stars(r) = {}
  BY <1>1 DEF Stars
<1> QED
  BY <1>1, <1>2, CardinalityOfNone DEF Agg

(* The ratings stay, and every product somebody recomputes is still that   *)
(* or missed.                                                              *)
LEMMA RatingsStay ==
  ASSUME RatingInv, UNCHANGED rating, missed' \subseteq Products, missed \subseteq missed',
         review' \in [Products -> Reviews],
         \A p \in Products : product'[p] # "gone" =>
           /\ product[p] # "gone"
           /\ review'[p] = review[p] \/ Recomputing(p)'
           /\ Recomputing(p) => Recomputing(p)' \/ p \in missed'
  PROVE  RatingInv'
  BY DEF RatingInv

LEMMA OthersRecompute ==
  ASSUME KInv, NEW q \in Requests, NEW r, request' = [request EXCEPT ![q] = r],
         request[q].kind \notin {"reviewed", "aggregated"}, NEW p, Recomputing(p)
  PROVE  Recomputing(p)'
<1>1. request' = [w \in Requests |-> IF w = q THEN r ELSE request[w]]
  BY DEF KInv
<1> QED
  BY <1>1 DEF Recomputing

LEMMA RatingStep == KInv /\ RatingInv /\ [Next]_vars => RatingInv'
<1> SUFFICES ASSUME KInv, RatingInv, [Next]_vars PROVE RatingInv'
  OBVIOUS
<1>0. /\ request \in [Requests -> AnyRequest] /\ review \in [Products -> Reviews] /\ missed \subseteq Products
      /\ rating \in [Products -> Aggregates]
  BY DEF KInv, RatingInv
<1>1. ASSUME UNCHANGED <<review, rating, missed, product, request>> PROVE RatingInv'
  <2>1. \A p : Recomputing(p)' <=> Recomputing(p)
    BY <1>1 DEF Recomputing
  <2> QED
    BY <1>0, <1>1, <2>1, RatingsStay
<1>2. ASSUME UNCHANGED <<review, rating, missed, product>>, NEW q \in Requests,
             \E r : request' = [request EXCEPT ![q] = r], request[q].kind \notin {"reviewed", "aggregated"}
      PROVE  RatingInv'
  <2>1. \A p \in Products : Recomputing(p) => Recomputing(p)'
    BY <1>2, OthersRecompute
  <2> QED
    BY <1>0, <1>2, <2>1, RatingsStay
<1>3. CASE ChangeStatus \/ UNCHANGED vars
  BY <1>1, <1>3 DEF ChangeStatus, vars, catalogueVars, storefrontVars, Catalogued
<1>4. ASSUME NEW q \in Requests,
             \/ \E filter \in Filters : ListProducts(q, filter)
             \/ LookUp(q) \/ Warm(q) \/ Respond(q) \/ InvalidateCache(q)
      PROVE  RatingInv'
  <2>1. UNCHANGED <<review, rating, missed>>
    BY <1>4 DEF ListProducts, LookUp, Warm, Respond, InvalidateCache, storefrontVars
  <2>2. /\ \E r : request' = [request EXCEPT ![q] = r]
        /\ request[q].kind \notin {"reviewed", "aggregated"} /\ product' = product
    BY <1>4, VisitsAreNotReviews DEF LookUp, Warm, Turns
  <2> QED
    BY <1>2, <2>1, <2>2
<1>4a. ASSUME NEW q \in Requests, ResolveStore(q) PROVE RatingInv'
  <2>1. /\ request' = [request EXCEPT ![q] = [kind |-> "resolving", read |-> 0]]
        /\ request[q] = Idle /\ UNCHANGED <<review, rating, missed, product>>
    BY <1>4a DEF ResolveStore, Handle, Catalogued, storefrontVars
  <2> QED
    BY <1>2, <2>1, IdleKnown
<1>5. ASSUME Tick \/ \E q \in Requests : NameStore(q) \/ NamingFails(q) \/ RunQuery(q) \/ QueryFails(q)
      PROVE  RatingInv'
  <2>1. \A w \in Requests : request[w].kind \in {"reviewed", "aggregated"} => request'[w] = request[w]
    BY <1>5 DEF Tick, NameStore, NamingFails, RunQuery, QueryFails, Handle, Waits, Awaits
  <2>2. \A p \in Products : Recomputing(p) => Recomputing(p)'
    BY <2>1 DEF Recomputing
  <2>3. UNCHANGED <<review, rating, missed, product>>
    BY <1>5 DEF Tick, NameStore, NamingFails, RunQuery, QueryFails, Handle, Catalogued
  <2> QED
    BY <1>0, <2>2, <2>3, RatingsStay
<1>6. ASSUME NEW q \in Requests, CatalogueMoves(q) PROVE RatingInv'
  <2>1. /\ \E r : request' = [request EXCEPT ![q] = r]
        /\ request[q].kind \notin {"reviewed", "aggregated"}
        /\ \A p \in Products : product'[p] # "gone" => product[p] # "gone"
    BY <1>6, CatalogueMovesRequest DEF Turns
  <2>2. \A p \in Products : Recomputing(p) => Recomputing(p)'
    BY <2>1, OthersRecompute
  <2>3. /\ review' = [p \in Products |-> IF product'[p] = "gone" THEN [c \in Customers |-> 0] ELSE review[p]]
        /\ UNCHANGED <<rating, missed>>
    BY <1>6 DEF CatalogueMoves
  <2>4. [c \in Customers |-> 0] \in Reviews
    BY DEF Reviews
  <2>5. /\ review' \in [Products -> Reviews]
        /\ \A p \in Products : product'[p] # "gone" => review'[p] = review[p]
    BY <1>0, <2>3, <2>4
  <2> QED
    BY <1>0, <2>1, <2>2, <2>3, <2>5, RatingsStay
<1>7. ASSUME NEW q \in Requests, NEW p \in Products, NEW c \in Customers, NEW stars \in Ratings \cup {0},
             WriteReview(q, p, c, stars)
      PROVE  RatingInv'
  <2>1. /\ review' = [review EXCEPT ![p][c] = stars] /\ UNCHANGED <<rating, missed, product>>
        /\ request[q] = Idle /\ request' = [request EXCEPT ![q] = [kind |-> "reviewed", product |-> p]]
    BY <1>7 DEF WriteReview, Write, Commit, Goto, Catalogued
  <2>2. [review[p] EXCEPT ![c] = stars] \in Reviews
    BY <1>0 DEF Reviews
  <2>3. review' = [review EXCEPT ![p] = [review[p] EXCEPT ![c] = stars]]
    BY <2>1
  <2>4. review' \in [Products -> Reviews] /\ \A u \in Products : u # p => review'[u] = review[u]
    BY <1>0, <2>2, <2>3
  <2>5. \A u \in Products : Recomputing(u) => Recomputing(u)'
    BY <2>1, IdleKnown, OthersRecompute
  <2>6. Recomputing(p)'
    <3>1. request'[q] = [kind |-> "reviewed", product |-> p]
      BY <1>0, <2>1
    <3> QED
      BY <3>1 DEF Recomputing
  <2> QED
    BY <1>0, <2>1, <2>4, <2>5, <2>6, RatingsStay
<1>8. ASSUME NEW q \in Requests, Aggregate(q) PROVE RatingInv'
  <2>1. request[q] \in ReviewReq
    BY <1>8, RequestOf DEF Aggregate
  <2>2. PICK p \in Products : p = request[q].product
    BY <2>1 DEF ReviewReq
  <2>3. /\ request' = [w \in Requests |-> IF w = q THEN [kind |-> "aggregated", product |-> p, seen |-> review[p]]
                                          ELSE request[w]]
        /\ UNCHANGED <<review, rating, missed, product>>
    BY <1>0, <1>8, <2>2 DEF Aggregate, Handle, Catalogued, storefrontVars
  <2>4. \A u \in Products : Recomputing(u) => Recomputing(u)'
    BY <2>2, <2>3 DEF Recomputing
  <2> QED
    BY <1>0, <2>3, <2>4, RatingsStay
<1>9. ASSUME NEW q \in Requests, WriteRating(q) PROVE RatingInv'
  <2>1. request[q] \in AggReq
    BY <1>9, RequestOf DEF WriteRating
  <2>2. PICK p \in Products, seen \in Reviews : p = request[q].product /\ seen = request[q].seen
    BY <2>1 DEF AggReq
  <2>3. /\ rating' = [rating EXCEPT ![p] = Agg(seen)]
        /\ missed' = IF seen = review[p] THEN missed \ {p} ELSE missed \cup {p}
        /\ request' = [w \in Requests |-> IF w = q THEN Idle ELSE request[w]]
        /\ UNCHANGED <<review, product>>
    BY <1>0, <1>9, <2>2 DEF WriteRating, Handle, Catalogued
  <2>4. Agg(seen) \in Aggregates /\ RatingOK(Agg(seen))
    BY Aggregated
  <2>5. /\ rating' \in [Products -> Aggregates]
        /\ \A u \in Products : rating'[u] = IF u = p THEN Agg(seen) ELSE rating[u]
    BY <1>0, <2>3, <2>4
  <2>6. \A u \in Products : RatingOK(rating'[u])
    BY <2>4, <2>5 DEF RatingInv
  <2>7. \A u \in Products : u # p /\ Recomputing(u) => Recomputing(u)'
    BY <2>2, <2>3 DEF Recomputing
  <2>8. \A u \in Products : product[u] # "gone" => rating'[u] = Agg(review[u]) \/ Recomputing(u)' \/ u \in missed'
    BY <2>3, <2>5, <2>7 DEF RatingInv
  <2>9. missed' \subseteq Products
    BY <1>0, <2>3
  <2> QED
    BY <1>0, <2>3, <2>5, <2>6, <2>8, <2>9 DEF RatingInv, RatingOK
<1>10. ASSUME NEW q \in Requests, ReviewFails(q) PROVE RatingInv'
  <2>1. request[q] \in ReviewReq \cup AggReq
    BY <1>10, RequestOf DEF ReviewFails
  <2>2. PICK p \in Products : p = request[q].product
    BY <2>1 DEF ReviewReq, AggReq
  <2>3. /\ missed' = missed \cup {p}
        /\ request' = [w \in Requests |-> IF w = q THEN Idle ELSE request[w]]
        /\ UNCHANGED <<review, rating, product>>
    BY <1>0, <1>10, <2>2 DEF ReviewFails, Handle, Catalogued
  <2>4. \A u \in Products : Recomputing(u) => Recomputing(u)' \/ u \in missed'
    BY <2>2, <2>3 DEF Recomputing
  <2> QED
    BY <1>0, <2>3, <2>4, RatingsStay
<1> QED
  BY <1>3, <1>4, <1>4a, <1>5, <1>6, <1>7, <1>8, <1>9, <1>10 DEF Next

-----------------------------------------------------------------------------
LEMMA ShopStarts == Init => ShopInv
<1> SUFFICES ASSUME Init PROVE ShopInv
  OBVIOUS
<1>1. KInv
  BY CatalogueStarts DEF Init
<1>2. CacheInv
  BY StorefrontAssumption, IdleKnown DEF Init, CacheInv, ClosedStoreHidden, Young, CatalogueInit
<1>3. EntryInv
  BY DEF Init, EntryInv
<1>4. RatingInv
  <2>1. [sum |-> 0, count |-> 0] \in Aggregates /\ RatingOK([sum |-> 0, count |-> 0])
    BY NoRating, Aggregated
  <2>2. \A p \in Products : /\ review[p] = [c \in Customers |-> 0] /\ rating[p] = [sum |-> 0, count |-> 0]
                            /\ rating[p] = Agg(review[p])
    BY NoRating DEF Init
  <2>3. review \in [Products -> Reviews]
    BY NoRating DEF Init
  <2> QED
    BY <2>1, <2>2, <2>3 DEF Init, RatingInv
<1> QED
  BY <1>1, <1>2, <1>3, <1>4 DEF ShopInv

LEMMA ShopStep == ShopInv /\ [Next]_vars => ShopInv'
  BY KStep, CacheStep, EntryStep, RatingStep DEF ShopInv

LEMMA ShopAlways == Spec => []ShopInv
  BY ShopStarts, ShopStep, PTL DEF Spec

-----------------------------------------------------------------------------
(* Which steps take a variant away, and which a file.                      *)
VariantsStay == \A v \in Variants : variant[v] # "gone" => variant'[v] # "gone"

LEMMA WhoStrands ==
  ASSUME KInv, [Next]_vars
  PROVE  \/ VariantsStay /\ remote' = remote
         \/ \E q \in Requests : (SaveProduct(q) \/ RemoveProduct(q)) /\ remote' = remote
         \/ \E q \in Requests : Cleanup(q) /\ VariantsStay
<1>1. CASE UNCHANGED <<variant, remote>>
  BY <1>1 DEF VariantsStay
<1>2. ASSUME NEW q \in Requests, CreateProduct(q) PROVE VariantsStay /\ remote' = remote
  <2>1. variant' = [v \in Variants |-> IF v \in request[q].form.variants THEN "active" ELSE variant[v]]
    BY <1>2 DEF CreateProduct
  <2> QED
    BY <1>2, <2>1 DEF CreateProduct, VariantsStay
<1>3. ASSUME NEW q \in Requests, CatalogueMoves(q)
      PROVE  \/ UNCHANGED <<variant, remote>> \/ CreateProduct(q)
             \/ (SaveProduct(q) \/ RemoveProduct(q)) /\ remote' = remote
             \/ Cleanup(q) /\ variant' = variant
  BY <1>3 DEF CatalogueMoves, CatalogueStep, ReadForCreate, ReadForUpdate, ReadForRemove, RemoveProduct, LockProduct,
              CountHistory, SaveProduct, Cleanup, ReadForSale, WriteMovement, WriteLine, CommitSale,
              CommitAdjustment, Fail, Look
<1>4. ASSUME NEW q \in Requests,
             \/ \E filter \in Filters : ListProducts(q, filter)
             \/ NameStore(q) \/ NamingFails(q) \/ LookUp(q) \/ ResolveStore(q) \/ Warm(q)
             \/ RunQuery(q) \/ QueryFails(q) \/ Respond(q) \/ InvalidateCache(q)
             \/ \E p \in Products, c \in Customers, stars \in Ratings \cup {0} : WriteReview(q, p, c, stars)
             \/ Aggregate(q) \/ WriteRating(q) \/ ReviewFails(q)
      PROVE  UNCHANGED <<variant, remote>>
  BY <1>4 DEF ListProducts, NameStore, NamingFails, LookUp, ResolveStore, Warm, Bestsellers, RunQuery, QueryFails,
              Respond, InvalidateCache, WriteReview, Aggregate, WriteRating, ReviewFails, Handle, Write, Catalogued
<1>5. CASE ChangeStatus \/ Tick \/ UNCHANGED vars
  BY <1>1, <1>5 DEF ChangeStatus, Tick, Handle, vars, catalogueVars, Catalogued
<1>6. ASSUME variant' = variant PROVE VariantsStay
  BY <1>6 DEF VariantsStay
<1> QED
  BY <1>1, <1>2, <1>3, <1>4, <1>5, <1>6 DEF Next

LEMMA StepStrandsNothing ==
  ASSUME KInv, KInv', [Next]_vars
  PROVE  [HistoryResolves /\ ImagesServed]_catalogueVars
<1>1. LinesResolve'
  BY DEF KInv
<1>2. CASE VariantsStay /\ remote' = remote
  <2>1. \A v \in moved : v \in Variants
    BY DEF KInv, CatalogueTypeOK
  <2>2. HistoryResolves
    BY <1>1, <1>2, <2>1 DEF HistoryResolves, VariantsStay
  <2>3. ImagesServed
    BY <1>2 DEF ImagesServed
  <2> QED
    BY <2>2, <2>3
<1>3. ASSUME NEW q \in Requests, SaveProduct(q) \/ RemoveProduct(q), remote' = remote
      PROVE  HistoryResolves /\ ImagesServed
  <2>1. ImagesServed
    BY <1>3 DEF ImagesServed
  <2>2. ASSUME NEW v \in moved, variant[v] # "gone", variant'[v] = "gone"
        PROVE  \/ product'[VariantOf[v]] = "gone"
               \/ \E w \in Requests : /\ request[w].kind = "counted" /\ request'[w].kind = "cleanup"
                                      /\ v \notin request[w].seen
    <3>0. v \in Variants
      BY DEF KInv, CatalogueTypeOK
    <3>1. CASE SaveProduct(q)
      <4>1. request[q] \in CountedReq /\ Knows(request[q]) /\ request[q].kind = "counted"
        BY <3>1, RequestOf DEF SaveProduct
      <4>2. variant'[v] = CASE v \in request[q].form.variants        -> "active"
                            [] v \in request[q].drop                 -> "gone"
                            [] v \in Omitted(q) \ request[q].drop    -> "inactive"
                            [] OTHER                                 -> variant[v]
        BY <3>0, <3>1 DEF SaveProduct
      <4>3. v \in request[q].drop
        <5>1. CASE v \in request[q].form.variants
          BY <2>2, <4>1, <4>2, <5>1 DEF Omitted, Knows
        <5>2. CASE v \notin request[q].form.variants /\ v \notin request[q].drop
          BY <2>2, <4>2, <5>2
        <5> QED
          BY <5>1, <5>2
      <4>4. v \notin request[q].seen
        BY <4>1, <4>3 DEF Knows
      <4>5. request'[q].kind = "cleanup"
        BY <3>1 DEF SaveProduct, Commit, Goto, KInv
      <4> QED
        BY <4>1, <4>4, <4>5
    <3>2. CASE RemoveProduct(q)
      <4>1. request[q] \in RemoveReq
        BY <3>2, RequestOf DEF RemoveProduct
      <4>2. PICK p \in Products : p = request[q].id
        BY <4>1 DEF RemoveReq
      <4>3. product' = [product EXCEPT ![p] = "gone"] /\ variant' = [u \in Variants |-> IF u \in Rows(p) THEN "gone" ELSE variant[u]]
        BY <3>2, <4>2 DEF RemoveProduct, Cascaded
      <4>4. v \in Rows(p)
        BY <2>2, <3>0, <4>3
      <4> QED
        BY <4>3, <4>4 DEF Rows, KInv, CatalogueTypeOK
    <3> QED
      BY <1>3, <3>1, <3>2
  <2> QED
    BY <1>1, <2>1, <2>2 DEF HistoryResolves
<1>4. ASSUME NEW q \in Requests, Cleanup(q), VariantsStay PROVE HistoryResolves /\ ImagesServed
  <2>1. \A v \in moved : v \in Variants
    BY DEF KInv, CatalogueTypeOK
  <2>2. HistoryResolves
    BY <1>1, <1>4, <2>1 DEF HistoryResolves, VariantsStay
  <2>3. ImagesServed
    <3> SUFFICES ASSUME NEW f \in Files, remote[f] = "stored", remote'[f] = "deleted"
                 PROVE  \E w \in Requests :
                          /\ request[w].kind = "cleanup" /\ f \in request[w].files
                          /\ \A p \in Products : image[p][f] = 0 \/ image[p][f] > request[w].at
      BY DEF ImagesServed
    <3>1. request[q].kind = "cleanup" /\ Knows(request[q])
      BY <1>4, RequestOf DEF Cleanup
    <3>2. f \in request[q].files
      BY <1>4 DEF Cleanup
    <3> QED
      BY <3>1, <3>2 DEF Knows
  <2> QED
    BY <2>2, <2>3
<1> QED
  BY <1>2, <1>3, <1>4, WhoStrands

(* The rows, caches and ratings are of their types: a plan's limit of      *)
(* images holds, no variant is offered without its product, and a rating   *)
(* is one that so many customers can have given (products.service.ts,      *)
(* storefront.service.ts).                                                 *)
THEOREM ShopTyped == Spec => []TypeOK
<1>1. ShopInv => TypeOK
  BY DEF ShopInv, KInv, CacheInv, EntryInv, RatingInv, Entry, IdEntry, Reviews, RatingOK, TypeOK
<1> QED
  BY ShopAlways, <1>1, PTL

(* Concurrent creations pass the plan's limit by one product each, less    *)
(* one (assertProductLimit).                                               *)
THEOREM LimitKept == Spec => []LimitOverrun
<1>1. ShopInv => LimitOverrun
  <2> SUFFICES ASSUME KInv PROVE LimitOverrun
    BY DEF ShopInv
  <2>1. IsFiniteSet(Creating) /\ IsFiniteSet(Existing)
    <3>1. Creating \in SUBSET Requests
      BY DEF Creating
    <3> QED
      BY <3>1, BoundAssumption, FS_Subset DEF KInv, CreateBound
  <2>2. Cardinality(Creating) \in Nat /\ Cardinality(Existing) \in Nat /\ Cardinality(Requests) \in Nat
    BY <2>1, BoundAssumption, FS_CardinalityType
  <2> QED
    BY <2>2, PlanAssumption DEF KInv, CreateBound, LimitOverrun
<1> QED
  BY ShopAlways, <1>1, PTL

(* What the public pages show is as fresh as the caches' TTL and the last  *)
(* recomputation allow (getCachedBestsellerRows, getCachedActiveStoreId,   *)
(* recomputeProductRating).                                                *)
THEOREM ShopIsFresh == Spec => []ShopFresh
<1>1. ShopInv => ShopFresh
  <2> SUFFICES ASSUME ShopInv PROVE BestsellersFresh /\ ClosedStoreHidden /\ RatingFollows
    BY DEF ShopFresh
  <2>1. BestsellersFresh
    BY RequestOf DEF ShopInv, BestsellersFresh, Knows, Sound
  <2>2. RatingFollows
    BY DEF ShopInv, RatingInv, RatingFollows
  <2> QED
    BY <2>1, <2>2 DEF ShopInv, CacheInv
<1> QED
  BY ShopAlways, <1>1, PTL

(* No edit, deletion or clean-up strands an order line, a movement or an   *)
(* image row (syncVariants, deleteRemoteImages).                           *)
THEOREM NothingIsStranded == Spec => NothingStranded
<1>1. ShopInv /\ ShopInv' /\ [Next]_vars => [HistoryResolves /\ ImagesServed]_catalogueVars
  BY StepStrandsNothing DEF ShopInv
<1> QED
  BY ShopAlways, <1>1, PTL DEF Spec, NothingStranded
=============================================================================
