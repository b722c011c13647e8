------------------------------ MODULE Storefront ------------------------------
(***************************************************************************)
(* The public side of a store (src/storefront): the two caches of its      *)
(* process, the list of bestsellers they answer, and the product reviews   *)
(* with the rating kept on the product's row.                              *)
(*                                                                         *)
(* A cache entry holds a promise: the request that created it runs the     *)
(* query, later requests wait for its answer; "by" is that request until   *)
(* the promise settles, at the instant its query reads.  Time counts in    *)
(* ticks; an entry answers requests while it is younger than TTL, counted  *)
(* from its creation, and counts as no entry from then on.                 *)
(***************************************************************************)
EXTENDS Catalogue

CONSTANTS
  Customers,   \* customers who have received the product they review
  Ratings,     \* ratings they give
  Filters,     \* filters of a list (category, search)
  Matching,    \* Matching[f]: the products the filter f lets through
  TTL          \* five minutes, in ticks

Nobody == "nobody"   \* who runs the query of a settled promise

ASSUME StorefrontAssumption ==
  /\ IsFiniteSet(Customers) /\ Ratings \subseteq 1..5
  /\ "all" \in Filters /\ Matching \in [Filters -> SUBSET Products] /\ Matching["all"] = Products
  /\ TTL \in Nat \ {0} /\ Nobody \notin Requests

VARIABLES
  open,         \* Store.status = ACTIVE
  closedFor,    \* ticks since the store left ACTIVE
  idCache,      \* the entry of activeStoreIdCache, or NoEntry
  bestsellers,  \* the entry of bestsellerCache for one limit, or NoEntry
  invalidated,  \* orders whose checkout has invalidated the cache
  review,       \* review[p][c]: rating of the review row, 0 for no row
  rating,       \* rating[p]: sum and count behind avgRating and reviewCount
  missed        \* products whose last recomputation saw old reviews or never came

storefrontVars == <<open, closedFor, idCache, bestsellers, invalidated, review, rating, missed>>
vars == <<catalogueVars, storefrontVars>>

-----------------------------------------------------------------------------
NoEntry == [by |-> Nobody]
Young(entry) == entry # NoEntry /\ entry.age < TTL
Older(n)     == IF n > TTL THEN n ELSE n + 1
Aged(entry)  == IF entry # NoEntry /\ entry.age + 1 < TTL THEN [entry EXCEPT !.age = @ + 1] ELSE NoEntry

(* The aggregate of a product's reviews; a sum is counted star by star. *)
Raters(r) == {c \in Customers : r[c] > 0}
Stars(r)  == {s \in Raters(r) \X (1..5) : s[2] <= r[s[1]]}
Agg(r) == [sum |-> Cardinality(Stars(r)), count |-> Cardinality(Raters(r))]

Init ==
  /\ CatalogueInit
  /\ open = TRUE /\ closedFor = 0
  /\ idCache = NoEntry /\ bestsellers = NoEntry
  /\ invalidated = {}
  /\ review = [p \in Products |-> [c \in Customers |-> 0]]
  /\ rating = [p \in Products |-> [sum |-> 0, count |-> 0]]
  /\ missed = {}

Placed == {o \in Orders : line[o] # NoVariant}

Catalogued == <<product, variant, image, remote, line, moved>>

(* A step of a handler that commits nothing of its own, and one that does. *)
Handle(req) == request' = req /\ UNCHANGED <<Catalogued, handled>>
Write(q, req) == Commit(q, req) /\ UNCHANGED Catalogued

-----------------------------------------------------------------------------
(* A promise answers the request that made it and all who wait for it, or  *)
(* fails them all, also when its entry has left the cache meanwhile.       *)
Awaits(w, q) == request[w].kind = "awaiting" /\ request[w].on = q
Waits(w, q)  == request[w].kind = "waiting" /\ request[w].on = q

Named(filter) == [kind |-> "named", filter |-> filter]

(* listProducts, sorted by bestseller.  getCachedActiveStoreId: a young    *)
(* entry answers; otherwise the request makes one before it reads.         *)
ListProducts(q, filter) ==
  /\ request[q] = Idle
  /\ IF Young(idCache)
     THEN /\ Handle([request EXCEPT ![q] =
               IF idCache.by = Nobody THEN Named(filter)
               ELSE [kind |-> "awaiting", filter |-> filter, on |-> idCache.by]])
          /\ UNCHANGED idCache
     ELSE /\ Handle([request EXCEPT ![q] = [kind |-> "naming", filter |-> filter]])
          /\ idCache' = [by |-> q, age |-> 0, lag |-> 0]
  /\ UNCHANGED <<open, closedFor, bestsellers, invalidated, review, rating, missed>>

(* The store is read and is active, *)
NameStore(q) ==
  /\ request[q].kind = "naming" /\ open
  /\ Handle([w \in Requests |->
       IF w = q \/ Awaits(w, q) THEN Named(request[w].filter) ELSE request[w]])
  /\ idCache' = IF idCache.by = q THEN [idCache EXCEPT !.by = Nobody] ELSE idCache
  /\ UNCHANGED <<open, closedFor, bestsellers, invalidated, review, rating, missed>>

(* or it is not, or the query fails: the catch deletes the key, whoever    *)
(* wrote it last.                                                          *)
NamingFails(q) ==
  /\ request[q].kind = "naming"
  /\ Handle([w \in Requests |-> IF w = q \/ Awaits(w, q) THEN Idle ELSE request[w]])
  /\ idCache' = NoEntry
  /\ UNCHANGED <<open, closedFor, bestsellers, invalidated, review, rating, missed>>

Fetching(filter) == [kind |-> "fetching", filter |-> filter, floor |-> invalidated]
Served(filter, floor, entry) ==
  [kind |-> "served", filter |-> filter, floor |-> floor,
   rows |-> entry.rows, from |-> entry.filter, age |-> entry.age]

(* getCachedBestsellerRows: the key is the store and the limit. *)
Bestsellers(q, filter) ==
  IF Young(bestsellers)
  THEN /\ Handle([request EXCEPT ![q] =
            IF bestsellers.by = Nobody THEN Served(filter, invalidated, bestsellers)
            ELSE [kind |-> "waiting", filter |-> filter, floor |-> invalidated,
                  on |-> bestsellers.by, age |-> bestsellers.age]])
       /\ UNCHANGED bestsellers
  ELSE /\ Handle([request EXCEPT ![q] = Fetching(filter)])
       /\ bestsellers' = [by |-> q, filter |-> filter, age |-> 0, rows |-> {}]

LookUp(q) ==
  /\ request[q].kind = "named"
  /\ Bestsellers(q, request[q].filter)
  /\ UNCHANGED <<open, closedFor, idCache, invalidated, review, rating, missed>>

(* resolveStore reads the store *)
ResolveStore(q) ==
  /\ request[q] = Idle /\ open
  /\ Handle([request EXCEPT ![q] = [kind |-> "resolving", read |-> 0]])
  /\ UNCHANGED storefrontVars

(* and, with what it read, sets the id and warms the cache (a store not    *)
(* open yet or without a plan ends before this).                           *)
Warm(q) ==
  /\ request[q].kind = "resolving"
  /\ idCache' = [by |-> Nobody, age |-> 0, lag |-> request[q].read]
  /\ Bestsellers(q, "all")
  /\ UNCHANGED <<open, closedFor, invalidated, review, rating, missed>>

(* The query, with the filter of the request that made the entry. *)
ProductOf(o)   == VariantOf[line[o]]
Listed(filter) == {o \in Placed : /\ ProductOf(o) \in Matching[filter]
                                  /\ product[ProductOf(o)] # "gone"}

RunQuery(q) ==
  /\ request[q].kind = "fetching"
  /\ LET from  == request[q].filter
         rows  == Listed(from)
         entry == [rows |-> rows, filter |-> from, age |-> 0]
     IN /\ Handle([w \in Requests |->
             IF w = q \/ Waits(w, q)
             THEN Served(request[w].filter, request[w].floor, entry)
             ELSE request[w]])
        /\ bestsellers' = IF bestsellers.by = q
                          THEN [bestsellers EXCEPT !.by = Nobody, !.filter = from, !.rows = rows]
                          ELSE bestsellers
  /\ UNCHANGED <<open, closedFor, idCache, invalidated, review, rating, missed>>

(* The catch of a failed query deletes the key, whoever wrote it last. *)
QueryFails(q) ==
  /\ request[q].kind = "fetching"
  /\ Handle([w \in Requests |-> IF w = q \/ Waits(w, q) THEN Idle ELSE request[w]])
  /\ bestsellers' = NoEntry
  /\ UNCHANGED <<open, closedFor, idCache, invalidated, review, rating, missed>>

Respond(q) ==
  /\ request[q].kind = "served"
  /\ Handle([request EXCEPT ![q] = Idle])
  /\ UNCHANGED storefrontVars

(* createGuestOrder invalidates the cache once its transaction committed. *)
InvalidateCache(q) ==
  /\ request[q].kind = "sold"
  /\ bestsellers' = NoEntry
  /\ invalidated' = invalidated \cup {request[q].order}
  /\ Handle([request EXCEPT ![q] = Idle])
  /\ UNCHANGED <<open, closedFor, idCache, review, rating, missed>>

-----------------------------------------------------------------------------
(* Mutant: a deleted review leaves the rating alone. *)
WriteReviewOnly(q, p, c, stars) ==
  /\ open
  /\ stars > 0 => product[p] = "row"
  /\ request[q] = Idle
  /\ review' = [review EXCEPT ![p][c] = stars]
  /\ Write(q, IF stars > 0 THEN [kind |-> "reviewed", product |-> p] ELSE Idle)
  /\ UNCHANGED <<open, closedFor, idCache, bestsellers, invalidated, rating, missed>>

(* upsertReview (stars > 0) and deleteMyReview (0) write the review, *)
WriteReview(q, p, c, stars) ==
  /\ open
  /\ stars > 0 => product[p] = "row"
  /\ request[q] = Idle
  /\ review' = [review EXCEPT ![p][c] = stars]
  /\ Write(q, [kind |-> "reviewed", product |-> p])
  /\ UNCHANGED <<open, closedFor, idCache, bestsellers, invalidated, rating, missed>>

(* then recomputeProductRating aggregates the reviews *)
Aggregate(q) ==
  /\ request[q].kind = "reviewed"
  /\ Handle([request EXCEPT ![q] =
       [kind |-> "aggregated", product |-> @.product, seen |-> review[@.product]]])
  /\ UNCHANGED storefrontVars

(* and writes the product, whose row may be gone or locked by a form. *)
WriteRating(q) ==
  /\ request[q].kind = "aggregated"
  /\ LET p == request[q].product
     IN /\ product[p] = "row" /\ ~ Locked(p)
        /\ rating' = [rating EXCEPT ![p] = Agg(request[q].seen)]
        /\ missed' = IF request[q].seen = review[p] THEN missed \ {p} ELSE missed \cup {p}
  /\ Handle([request EXCEPT ![q] = Idle])
  /\ UNCHANGED <<open, closedFor, idCache, bestsellers, invalidated, review>>

(* The handler fails between its statements. *)
ReviewFails(q) ==
  /\ request[q].kind \in {"reviewed", "aggregated"}
  /\ missed' = missed \cup {request[q].product}
  /\ Handle([request EXCEPT ![q] = Idle])
  /\ UNCHANGED <<open, closedFor, idCache, bestsellers, invalidated, review, rating>>

-----------------------------------------------------------------------------
ChangeStatus ==
  /\ handled < MaxHandled /\ handled' = handled + 1
  /\ open' = ~ open /\ closedFor' = 0
  /\ UNCHANGED <<idCache, bestsellers, invalidated, review, rating, missed, request, Catalogued>>

Tick ==
  /\ closedFor' = IF open THEN closedFor ELSE Older(closedFor)
  /\ idCache' = Aged(idCache)
  /\ bestsellers' = Aged(bestsellers)
  /\ Handle([q \in Requests |->
       IF request[q].kind = "resolving" THEN [request[q] EXCEPT !.read = Older(@)] ELSE request[q]])
  /\ UNCHANGED <<open, invalidated, review, rating, missed>>

(* The catalogue's steps; the reviews of a product go with it. *)
CatalogueMoves(q) ==
  /\ \/ CatalogueStep(q)
     \/ Fail(q) /\ request[q].kind \notin {"sold", "naming", "awaiting", "named", "resolving", "fetching",
                                          "waiting", "served", "reviewed", "aggregated"}
  /\ review' = [p \in Products |-> IF product'[p] = "gone" THEN [c \in Customers |-> 0] ELSE review[p]]
  /\ UNCHANGED <<open, closedFor, idCache, bestsellers, invalidated, rating, missed>>

Next ==
  \/ ChangeStatus \/ Tick
  \/ \E q \in Requests :
       \/ CatalogueMoves(q)
       \/ \E filter \in Filters : ListProducts(q, filter)
       \/ NameStore(q) \/ NamingFails(q) \/ LookUp(q)
       \/ ResolveStore(q) \/ Warm(q) \/ RunQuery(q) \/ QueryFails(q) \/ Respond(q) \/ InvalidateCache(q)
       \/ \E p \in Products, c \in Customers, stars \in Ratings \cup {0} : WriteReview(q, p, c, stars)
       \/ Aggregate(q) \/ WriteRating(q) \/ ReviewFails(q)

Spec == Init /\ [][Next]_vars

-----------------------------------------------------------------------------
TypeOK ==
  /\ CatalogueTypeOK
  /\ open \in BOOLEAN /\ closedFor \in 0..TTL + 1
  /\ idCache = NoEntry \/ idCache \in
       [by : Requests \cup {Nobody}, age : 0..TTL, lag : 0..TTL + 1]
  /\ bestsellers = NoEntry \/ bestsellers \in
       [by : Requests \cup {Nobody}, filter : Filters, age : 0..TTL, rows : SUBSET Placed]
  /\ invalidated \subseteq Placed
  /\ review \in [Products -> [Customers -> Ratings \cup {0}]]
  /\ \A p \in Products : /\ rating[p].count \in 0..Cardinality(Customers)
                         /\ rating[p].sum \in rating[p].count..5 * rating[p].count
  /\ missed \subseteq Products

(* A list answers with the sales of the filter that made the entry, all of *)
(* those whose checkout had invalidated the cache when the request looked, *)
(* also if it waited for another request's query; an answer without later  *)
(* edits is younger than TTL.                                              *)
BestsellersFresh ==
  \A q \in Requests : request[q].kind = "served" =>
    /\ request[q].floor \cap Listed(request[q].from) \subseteq request[q].rows
    /\ \A o \in request[q].rows : ProductOf(o) \in Matching[request[q].from]
    /\ request[q].age < TTL

(* A store that left ACTIVE is listed from the cached id for at most TTL   *)
(* ticks, and for as long again as resolveStore took from its read to its  *)
(* write: no entry that still answers was read after the store closed.     *)
ClosedStoreHidden ==
  ~ open /\ Young(idCache) /\ idCache.by = Nobody => closedFor <= idCache.age + idCache.lag

(* The rating on the product's row is that of its reviews, once no request *)
(* is about to recompute it, unless the last recomputation used an older   *)
(* state of the reviews or failed before its write.                        *)
Recomputing(p) == \E q \in Requests :
  request[q].kind \in {"reviewed", "aggregated"} /\ request[q].product = p
RatingFollows ==
  \A p \in Products : product[p] = "row" =>
    rating[p] = Agg(review[p]) \/ Recomputing(p) \/ p \in missed

(* What the shop shows is as fresh as its caches and its reviews allow.    *)
ShopFresh == BestsellersFresh /\ ClosedStoreHidden /\ RatingFollows
=============================================================================
