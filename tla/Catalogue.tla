------------------------------ MODULE Catalogue ------------------------------
(***************************************************************************)
(* The products of one store with their variants and images, as the        *)
(* merchant's forms write them (src/products) while customers buy variants *)
(* and employees adjust their stock.                                       *)
(*                                                                         *)
(* Transactions run at READ COMMITTED: every statement sees what is        *)
(* committed when it runs, and row locks are held until the end.  A form   *)
(* holds the product's row from its first statement; a sale or an          *)
(* adjustment that names a variant keeps the variant's row from being      *)
(* deleted.                                                                *)
(***************************************************************************)
EXTENDS Integers, FiniteSets

CONSTANTS
  Products, Variants,   \* ids of rows, each used once
  VariantOf,            \* VariantOf[v]: the product of the variant v
  Files,                \* files on the image storage
  FileOf,               \* FileOf[f]: the product the file was uploaded for
  FirstProducts,        \* sets of products on sale when a behaviour begins
  Orders,               \* orders of one line
  Requests,             \* concurrent requests
  MaxProducts,          \* Plan.maxProducts
  ImageLimit,           \* Plan.maxImagesPerProduct
  MaxHandled            \* bound: transactions committed in a behaviour

ASSUME RowsAssumption  ==
  /\ VariantOf \in [Variants -> Products] /\ FileOf \in [Files -> Products]
  /\ FirstProducts \subseteq SUBSET Products /\ FirstProducts # {}
ASSUME PlanAssumption  ==
  /\ MaxProducts \in Nat \ {0} /\ ImageLimit \in Nat
  /\ \A first \in FirstProducts : IsFiniteSet(first) /\ Cardinality(first) <= MaxProducts
ASSUME BoundAssumption == MaxHandled \in Nat /\ IsFiniteSet(Requests) /\ Requests # {}

VARIABLES
  product,   \* product[p]: whether the row exists
  variant,   \* variant[v]: whether the row exists, and isActive
  image,     \* image[p][f]: commit that wrote the image row of f, 0 for no row
  remote,    \* remote[f]: whether the file is on the storage
  line,      \* line[o]: the variant the order's line was written for
  moved,     \* variants with adjustments in the stock ledger
  request,   \* request[q]: what a request has read, and the locks it holds
  handled    \* transactions committed: the clock of the database

catalogueVars == <<product, variant, image, remote, line, moved, request, handled>>

-----------------------------------------------------------------------------
NoVariant == "none"
ASSUME NoVariantAssumption == NoVariant \notin Variants
Idle      == [kind |-> "idle"]

(* The variants and images a form lists for the product p. *)
FormOf(p) == [variants : SUBSET {v \in Variants : VariantOf[v] = p},
              images : SUBSET {f \in Files : FileOf[f] = p}]
Form      == UNION {FormOf(p) : p \in Products}

Request ==
  {Idle} \cup [kind : {"create", "update", "saving"}, id : Products, form : Form]
    \cup [kind : {"counted"}, id : Products, form : Form, drop : SUBSET Variants,
          seen : SUBSET Variants]
    \cup [kind : {"remove"}, id : Products, files : SUBSET Files]
    \cup [kind : {"cleanup"}, files : SUBSET Files, at : 1..MaxHandled]
    \cup [kind : {"buying", "selling", "adjusting"}, variant : Variants]
    \cup [kind : {"sold"}, order : Orders]

CatalogueInit ==
  /\ \E first \in FirstProducts :
       /\ product = [p \in Products |-> IF p \in first THEN "row" ELSE "none"]
       /\ variant = [v \in Variants |-> IF VariantOf[v] \in first THEN "active" ELSE "none"]
  /\ image = [p \in Products |-> [f \in Files |-> 0]]
  /\ remote = [f \in Files |-> "stored"]
  /\ line = [o \in Orders |-> NoVariant]
  /\ moved = {}
  /\ request = [q \in Requests |-> Idle]
  /\ handled = 0

Rows(p)     == {v \in Variants : VariantOf[v] = p /\ variant[v] \in {"active", "inactive"}}
Images(p)   == {f \in Files : image[p][f] > 0}
Existing    == {p \in Products : product[p] = "row"}

(* Variants with a line, a hold or a movement: an order writes all three.  *)
Sold == {line[o] : o \in Orders} \ {NoVariant}

(* The row locks the requests in flight hold. *)
Locked(p)   == \E q \in Requests : request[q].kind \in {"saving", "counted"} /\ request[q].id = p
Held(v)     == \E q \in Requests : request[q].kind \in {"selling", "adjusting"}
                                     /\ request[q].variant = v

-----------------------------------------------------------------------------
Goto(q, req) == request' = [request EXCEPT ![q] = req]

Look(q, kind, req) ==
  /\ request[q].kind = kind
  /\ Goto(q, req)
  /\ UNCHANGED <<product, variant, image, remote, line, moved, handled>>

Commit(q, req) ==
  /\ handled < MaxHandled
  /\ handled' = handled + 1
  /\ Goto(q, req)

(* The image rows after a form: all of them are written again. *)
Written(fs) == [f \in Files |-> IF f \in fs THEN handled + 1 ELSE 0]

(* Mutant: the product already there is not counted. *)
ReadForCreateLate(q, p, form) ==
  /\ Cardinality(Existing) <= MaxProducts
  /\ Cardinality(form.images) <= ImageLimit
  /\ product[p] = "none"
  /\ Look(q, "idle", [kind |-> "create", id |-> p, form |-> form])

(* create: the plan's limits are checked on what is committed now; p is    *)
(* the id the new row will get.                                            *)
ReadForCreate(q, p, form) ==
  /\ Cardinality(Existing) < MaxProducts
  /\ Cardinality(form.images) <= ImageLimit
  /\ product[p] = "none"
  /\ Look(q, "idle", [kind |-> "create", id |-> p, form |-> form])

CreateProduct(q) ==
  /\ request[q].kind = "create"
  /\ LET p == request[q].id
     IN /\ product[p] = "none"
        /\ product' = [product EXCEPT ![p] = "row"]
        /\ variant' = [v \in Variants |->
             IF v \in request[q].form.variants THEN "active" ELSE variant[v]]
        /\ image' = [image EXCEPT ![p] = Written(request[q].form.images)]
  /\ Commit(q, Idle)
  /\ UNCHANGED <<remote, line, moved>>

-----------------------------------------------------------------------------
(* update: the checks, then the transaction, whose first statement locks   *)
(* the product's row.                                                      *)
ReadForUpdate(q, p, form) ==
  /\ product[p] = "row"
  /\ Cardinality(form.images) <= ImageLimit
  /\ Look(q, "idle", [kind |-> "update", id |-> p, form |-> form])

LockProduct(q) ==
  /\ request[q].kind = "update"
  /\ product[request[q].id] = "row" /\ ~ Locked(request[q].id)
  /\ Look(q, "update", [request[q] EXCEPT !.kind = "saving"])

(* syncVariants: an existing variant that the form leaves out is deleted   *)
(* if it has no history, as the counts find it, and deactivated otherwise. *)
Omitted(q) == Rows(request[q].id) \ request[q].form.variants

NoHistory(v) == v \notin Sold /\ v \notin moved

CountHistory(q) ==
  /\ request[q].kind = "saving"
  /\ Look(q, "saving", [kind |-> "counted", id |-> request[q].id, form |-> request[q].form,
                        drop |-> {v \in Omitted(q) : NoHistory(v)}, seen |-> moved])

(* The files the form drops: those of the old rows it does not keep. *)
Discarded(q) == Images(request[q].id) \ request[q].form.images

(* A kept id whose row was deleted meanwhile fails the transaction; a      *)
(* deleted row must not be held by another transaction.                    *)
SaveProduct(q) ==
  /\ request[q].kind = "counted"
  /\ LET p    == request[q].id
         form == request[q].form.variants
         drop == request[q].drop
     IN /\ \A v \in form : variant[v] # "gone"
        /\ \A v \in drop : ~ Held(v)
        /\ variant' = [v \in Variants |->
             CASE v \in form                 -> "active"
               [] v \in drop                 -> "gone"
               [] v \in Omitted(q) \ drop    -> "inactive"
               [] OTHER                      -> variant[v]]
        /\ image' = [image EXCEPT ![p] = Written(request[q].form.images)]
  /\ Commit(q, [kind |-> "cleanup", files |-> Discarded(q), at |-> handled + 1])
  /\ UNCHANGED <<product, remote, line, moved>>

(* deleteRemoteImages, after the commit. *)
Cleanup(q) ==
  /\ request[q].kind = "cleanup"
  /\ remote' = [f \in Files |-> IF f \in request[q].files THEN "deleted" ELSE remote[f]]
  /\ Goto(q, Idle)
  /\ UNCHANGED <<product, variant, image, line, moved, handled>>

(* remove: variants, images and ledger go with the product; the lines of   *)
(* its orders lose their references.                                       *)
ReadForRemove(q, p) ==
  /\ product[p] = "row"
  /\ Look(q, "idle", [kind |-> "remove", id |-> p, files |-> Images(p)])

(* Mutant: the foreign key does not cascade. *)
LeftBehind(p) == variant

Cascaded(p) == [v \in Variants |-> IF v \in Rows(p) THEN "gone" ELSE variant[v]]

RemoveProduct(q) ==
  /\ request[q].kind = "remove"
  /\ LET p == request[q].id
     IN /\ product[p] = "row" /\ ~ Locked(p)
        /\ \A v \in Rows(p) : ~ Held(v)
        /\ product' = [product EXCEPT ![p] = "gone"]
        /\ variant' = Cascaded(p)
        /\ image' = [image EXCEPT ![p] = Written({})]
  /\ Commit(q, [kind |-> "cleanup", files |-> request[q].files, at |-> handled + 1])
  /\ UNCHANGED <<remote, line, moved>>

-----------------------------------------------------------------------------
(* The checkout of a variant (src/storefront): read active, ... *)
ReadForSale(q, v) ==
  /\ product[VariantOf[v]] = "row" /\ variant[v] = "active"
  /\ Look(q, "idle", [kind |-> "buying", variant |-> v])

(* ... written into the order's line, whose key must exist, ... *)
WriteLine(q) ==
  /\ request[q].kind = "buying"
  /\ variant[request[q].variant] # "gone"
  /\ Look(q, "buying", [request[q] EXCEPT !.kind = "selling"])

(* Mutant: totalSold is left for later; the product's row is not touched. *)
CommitSaleAlone(q, o) ==
  /\ request[q].kind = "selling"
  /\ line[o] = NoVariant
  /\ line' = [line EXCEPT ![o] = request[q].variant]
  /\ Commit(q, [kind |-> "sold", order |-> o])
  /\ UNCHANGED <<product, variant, image, remote, moved>>

(* ... and committed after totalSold, which waits for the product's row.   *)
CommitSale(q, o) ==
  /\ request[q].kind = "selling"
  /\ line[o] = NoVariant
  /\ ~ Locked(VariantOf[request[q].variant])
  /\ line' = [line EXCEPT ![o] = request[q].variant]
  /\ Commit(q, [kind |-> "sold", order |-> o])
  /\ UNCHANGED <<product, variant, image, remote, moved>>

(* adjustStock of a variant: it writes the variant's row and the ledger,   *)
(* never the product's row.                                                *)
WriteMovement(q, v) ==
  /\ v \in Rows(VariantOf[v])
  /\ Look(q, "idle", [kind |-> "adjusting", variant |-> v])

CommitAdjustment(q) ==
  /\ request[q].kind = "adjusting"
  /\ moved' = moved \cup {request[q].variant}
  /\ Commit(q, Idle)
  /\ UNCHANGED <<product, variant, image, remote, line>>

(* A request fails, or is the victim of a deadlock; after the commit, the  *)
(* process stops before the cleanup.                                       *)
Fail(q) ==
  /\ request[q] # Idle
  /\ Goto(q, Idle)
  /\ UNCHANGED <<product, variant, image, remote, line, moved, handled>>

CatalogueStep(q) ==
  \/ \E p \in Products : \E form \in FormOf(p) : ReadForCreate(q, p, form) \/ ReadForUpdate(q, p, form)
  \/ \E p \in Products : ReadForRemove(q, p)
  \/ CreateProduct(q) \/ RemoveProduct(q)
  \/ LockProduct(q) \/ CountHistory(q) \/ SaveProduct(q) \/ Cleanup(q)
  \/ \E v \in Variants : ReadForSale(q, v) \/ WriteMovement(q, v)
  \/ WriteLine(q) \/ (\E o \in Orders : CommitSale(q, o))
  \/ CommitAdjustment(q)

-----------------------------------------------------------------------------
CatalogueTypeOK ==
  /\ product \in [Products -> {"none", "row", "gone"}]
  /\ variant \in [Variants -> {"none", "active", "inactive", "gone"}]
  /\ \A v \in Variants : v \in Rows(VariantOf[v]) => product[VariantOf[v]] = "row"
  /\ image \in [Products -> [Files -> 0..MaxHandled]]
  /\ \A p \in Products : Cardinality(Images(p)) <= ImageLimit
  /\ remote \in [Files -> {"stored", "deleted"}]
  /\ line \in [Orders -> Variants \cup {NoVariant}]
  /\ moved \subseteq Variants /\ handled \in 0..MaxHandled

(* "past orders and the stock ledger keep resolving to a real row"         *)
(* (syncVariants): the variant of an order line is deleted only with its   *)
(* product, thanks to the product's row; an adjustment loses its variant   *)
(* only if it was committed after the form had counted the movements.      *)
LinesResolve ==
  \A o \in Orders : line[o] # NoVariant =>
    variant[line[o]] # "gone" \/ product[VariantOf[line[o]]] = "gone"
HistoryResolves ==
  /\ LinesResolve'
  /\ \A v \in moved : variant[v] # "gone" /\ variant'[v] = "gone" =>
       \/ product'[VariantOf[v]] = "gone"
       \/ \E q \in Requests : /\ request[q].kind = "counted" /\ request'[q].kind = "cleanup"
                              /\ v \notin request[q].seen

(* Concurrent creations may pass the plan's limit, each of them by one     *)
(* product and no more.                                                    *)
LimitOverrun == Cardinality(Existing) < MaxProducts + Cardinality(Requests)

(* A file leaves the storage only when no image row names it, except rows  *)
(* that a form wrote after the request that dropped the file committed.    *)
ImagesServed ==
  \A f \in Files : remote[f] = "stored" /\ remote'[f] = "deleted" =>
    \E q \in Requests :
      /\ request[q].kind = "cleanup" /\ f \in request[q].files
      /\ \A p \in Products : image[p][f] = 0 \/ image[p][f] > request[q].at

(* No edit, deletion or clean-up takes away what is still referred to.     *)
NothingStranded == [][HistoryResolves /\ ImagesServed]_catalogueVars
=============================================================================
