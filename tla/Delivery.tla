------------------------------ MODULE Delivery ------------------------------
(***************************************************************************)
(* What a store charges to deliver: the rates of its cities and the older  *)
(* ones of whole governorates (src/shipping), the cities they are about,   *)
(* the saved address and the orders that name a city, and the four places  *)
(* that quote a rate.  When a city is deleted the database clears the      *)
(* cityId of every row that names it (onDelete: SetNull): a rate that lost *)
(* its city reads as the rate of the whole governorate.                    *)
(***************************************************************************)
EXTENDS Locations

CONSTANTS
  Whole,      \* no city (a null cityId)
  Costs,
  FirstRates, \* the rates there may be when a behaviour starts
  NoHome      \* no address saved

Rate == [gov : Governorates, city : Cities \cup {Whole}, cost : Nat, open : {"yes", "no"},
         at : Nat, first : Cities \cup {Whole}]

ASSUME DeliveryAssumption ==
  /\ Whole \notin Cities /\ Costs \subseteq Nat
  /\ FirstRates \subseteq SUBSET {z \in Rate : z.at = 0 /\ z.first = z.city /\ z.city \in Cities}
  /\ \A zs \in FirstRates : \A y, z \in zs : y.city = z.city => y = z

VARIABLES
  zones,   \* the rows of shipping_zones of the store
  home,    \* the address a customer saved
  ordered, \* the orders that name a city
  saves    \* writes so far: every row says at which it came

deliveryVars == <<city, ask, met, asks, overlapped, zones, home, ordered, saves>>

-----------------------------------------------------------------------------
Wide(g)      == {z \in zones : z.gov = g /\ z.city = Whole}
RateOf(g, c) == {z \in zones : z.gov = g /\ z.city = c}

DeliveryInit ==
  /\ CitiesInit
  /\ zones \in FirstRates
  /\ \A z \in zones : z.city \in Known /\ z.gov = city[z.city].gov
  /\ home = NoHome /\ ordered = {} /\ saves = 0

(* What a request changes of a rate; Same leaves a part as it is. *)
Same    == -1
Changes == [cost : Costs \cup {Same}, open : {"yes", "no", "same"}]
Changed(z, ch) == [z EXCEPT !.cost = IF ch.cost = Same THEN z.cost ELSE ch.cost,
                            !.open = IF ch.open = "same" THEN z.open ELSE ch.open]
NewRate(g, c) == [gov |-> g, city |-> c, cost |-> 0, open |-> "yes", at |-> saves + 1, first |-> c]

(* Upserts by governorate and city, in one transaction. *)
Targets(cs) == {[gov |-> city[c].gov, city |-> c] : c \in cs}
Put(targets, ch) ==
  {IF [gov |-> z.gov, city |-> z.city] \in targets THEN Changed(z, ch) ELSE z : z \in zones}
    \cup {Changed(NewRate(t.gov, t.city), ch) : t \in {u \in targets : RateOf(u.gov, u.city) = {}}}

(* A row by its id: when it came, and for which city. *)
SameRow(y, z) == y.at = z.at /\ y.first = z.first
Still(row) == {z \in zones : \E y \in row : SameRow(y, z)}

-----------------------------------------------------------------------------
(* The requests, as far as they read. *)
Reads == UNCHANGED <<city, zones, home, ordered, saves>>

(* set: findFirst picks any of the rows, if there is one. *)
BeginSetWide(r, g, n) ==
  /\ \/ Wide(g) = {} /\ Ask(r, [op |-> "setWide", gov |-> g, cost |-> n, row |-> {}])
     \/ \E z \in Wide(g) : Ask(r, [op |-> "setWide", gov |-> g, cost |-> n, row |-> {z}])
  /\ Reads

(* remove, removeCityRate: a row is read, then deleted by its id. *)
BeginDrop(r, z) == Ask(r, [op |-> "drop", row |-> {z}]) /\ Reads

(* setCityRate gives both parts, bulkSetCityRates one at least, copyRates  *)
(* those of any row of its source (findFirst).                             *)
BeginPut(r, cs, ch) ==
  /\ cs \subseteq Known /\ cs # {}
  /\ Ask(r, [op |-> "put", targets |-> Targets(cs), change |-> ch])
  /\ Reads
BeginSetRates(r, cs, ch) == ch # [cost |-> Same, open |-> "same"] /\ BeginPut(r, cs, ch)
BeginCopy(r, z, cs) == z.city # Whole /\ BeginPut(r, cs, [cost |-> z.cost, open |-> z.open])

(* createAddress, or an update that gives a city (assertCityInGovernorate);*)
(* an update of the governorate alone keeps the city it read.              *)
BeginSaveHome(r, c) ==
  c \in Known /\ Ask(r, [op |-> "saveHome", gov |-> city[c].gov, city |-> c]) /\ Reads
BeginMoveHome(r, g) ==
  home # NoHome /\ Ask(r, [op |-> "saveHome", gov |-> g, city |-> home.city]) /\ Reads

(* createOrder, with a city: what it is charged, none if it is refused.    *)
(* Without one it is the governorate's rate, and nothing if there is none. *)
Charge(g, c) == IF c \in Known /\ city[c].gov = g THEN {z \in RateOf(g, c) : z.open = "yes"} ELSE {}
BeginOrder(r, g, c) == Charge(g, c) # {} /\ Ask(r, [op |-> "order", city |-> c]) /\ Reads

(* remove of a city: what names it is counted table by table, at once and  *)
(* in no order; NotYet until the table's count is back.                    *)
NotYet == -1
BeginRemoveCity(r, c) ==
  /\ c \in Known
  /\ Ask(r, [op |-> "removeCity", about |-> c, rates |-> NotYet, orders |-> NotYet, homes |-> NotYet])
  /\ Reads

-----------------------------------------------------------------------------
(* The requests, as they write. *)
Fails(r) == Told(r) /\ UNCHANGED <<city, overlapped, zones, home, ordered, saves>>
Saves(r) == Told(r) /\ Wrote(r) /\ saves' = saves + 1

SetWide(r) ==
  /\ ask[r].op = "setWide"
  /\ IF ask[r].row # {} /\ Still(ask[r].row) = {} THEN Fails(r)
     ELSE /\ zones' = IF ask[r].row = {}
                      THEN zones \cup {[NewRate(ask[r].gov, Whole) EXCEPT !.cost = ask[r].cost]}
                      ELSE {IF z \in Still(ask[r].row) THEN [z EXCEPT !.cost = ask[r].cost] ELSE z : z \in zones}
          /\ Saves(r)
          /\ UNCHANGED <<city, home, ordered>>

(* The counts of a removal, each refusing it if there is a row. *)
Counting(r) == ask[r].op = "removeCity" /\ UNCHANGED <<city, overlapped, zones, home, ordered, saves>>

(* Mutant: the rates of the city are not counted. *)
CountNoRates(r) ==
  /\ Counting(r) /\ ask[r].rates = NotYet
  /\ GoOn(r, [ask[r] EXCEPT !.rates = saves])

CountRates(r) ==
  /\ Counting(r) /\ ask[r].rates = NotYet
  /\ IF \E z \in zones : z.city = ask[r].about THEN Told(r) ELSE GoOn(r, [ask[r] EXCEPT !.rates = saves])

CountOrders(r) ==
  /\ Counting(r) /\ ask[r].orders = NotYet
  /\ IF \E o \in ordered : o.city = ask[r].about THEN Told(r) ELSE GoOn(r, [ask[r] EXCEPT !.orders = saves])

CountHomes(r) ==
  /\ Counting(r) /\ ask[r].homes = NotYet
  /\ IF home # NoHome /\ home.city = ask[r].about THEN Told(r) ELSE GoOn(r, [ask[r] EXCEPT !.homes = saves])

DropRate(r) ==
  /\ ask[r].op = "drop"
  /\ zones' = zones \ Still(ask[r].row)
  /\ Saves(r)
  /\ UNCHANGED <<city, home, ordered>>

(* The foreign key: a city that is gone by now fails the transaction. *)
PutRates(r) ==
  /\ ask[r].op = "put"
  /\ IF \A t \in ask[r].targets : t.city \in Known
     THEN zones' = Put(ask[r].targets, ask[r].change) /\ Saves(r) /\ UNCHANGED <<city, home, ordered>>
     ELSE Fails(r)

SaveHome(r) ==
  /\ ask[r].op = "saveHome"
  /\ IF ask[r].city \in Known \cup {Whole}
     THEN /\ home' = [gov |-> ask[r].gov, city |-> ask[r].city, at |-> saves + 1]
          /\ Saves(r) /\ UNCHANGED <<city, zones, ordered>>
     ELSE Fails(r)

PlaceOrder(r) ==
  /\ ask[r].op = "order"
  /\ IF ask[r].city \in Known
     THEN /\ ordered' = ordered \cup {[city |-> ask[r].city, at |-> saves + 1]}
          /\ Saves(r) /\ UNCHANGED <<city, zones, home>>
     ELSE Fails(r)

(* onDelete: SetNull, in the rates, the addresses and the orders. *)
Cleared(row, c) == IF row.city = c THEN [row EXCEPT !.city = Whole] ELSE row
RemoveCity(r) ==
  LET c == ask[r].about
  IN /\ ask[r].op = "removeCity" /\ NotYet \notin {ask[r].rates, ask[r].orders, ask[r].homes}
     /\ IF c \in Known
        THEN /\ city' = [city EXCEPT ![c].state = "gone"]
             /\ zones' = {Cleared(z, c) : z \in zones}
             /\ home' = IF home = NoHome THEN home ELSE Cleared(home, c)
             /\ ordered' = {Cleared(o, c) : o \in ordered}
             /\ Saves(r)
        ELSE Fails(r)

DeliveryNext ==
  \/ CitiesNext /\ UNCHANGED <<zones, home, ordered, saves>>
  \/ \E r \in Askers :
       \/ \E g \in Governorates, n \in Costs : BeginSetWide(r, g, n)
       \/ \E z \in zones : BeginDrop(r, z) \/ \E cs \in SUBSET Known : BeginCopy(r, z, cs)
       \/ \E cs \in SUBSET Known, ch \in Changes : BeginSetRates(r, cs, ch)
       \/ \E c \in Known : BeginSaveHome(r, c) \/ BeginRemoveCity(r, c)
       \/ \E g \in Governorates : BeginMoveHome(r, g) \/ \E c \in Known : BeginOrder(r, g, c)
       \/ SetWide(r) \/ DropRate(r) \/ PutRates(r) \/ SaveHome(r) \/ PlaceOrder(r)
       \/ CountRates(r) \/ CountOrders(r) \/ CountHomes(r) \/ RemoveCity(r)

DeliverySpec == DeliveryInit /\ [][DeliveryNext]_deliveryVars

-----------------------------------------------------------------------------
(* What is quoted: listCitiesForStore, listShippingZones, the merchant's   *)
(* page (listCitiesForGovernorate) and revalidateAddressForStore.          *)
ListedCities(g) == {c \in Known : city[c].gov = g /\ city[c].active}
OpenCities(g)   == {c \in ListedCities(g) : \E z \in RateOf(g, c) : z.open = "yes"}
Quoted(g, c)    == {z \in RateOf(g, c) : c \in OpenCities(g) /\ z.open = "yes"}
Configured(g)   == UNION {RateOf(g, c) : c \in ListedCities(g)}
Revalidated ==
  IF home = NoHome \/ home.city \notin Known THEN {}
  ELSE IF ~ city[home.city].active THEN {}
  ELSE {z \in RateOf(home.gov, home.city) : z.open = "yes"}

(* A city of a governorate has one rate at most. *)
OneRatePerCity ==
  \A y, z \in zones : y.city # Whole /\ y.city = z.city /\ y.gov = z.gov => y = z

(* findFirst takes any of a governorate's own rates, which no key keeps    *)
(* single: of requests that do not overlap there is one at most.           *)
OneWideRate == ~ overlapped => \A g \in Governorates : \A y, z \in Wide(g) : y = z

(* The pages, the saved address and the checkout work a rate out with      *)
(* queries of their own.  Whatever has been moved, closed, copied or       *)
(* deleted since, what the store's pages quote for a city is what the      *)
(* checkout charges, on the merchant's page too; so is what the saved      *)
(* address is told, unless the city is no longer in the governorate of the *)
(* address; and where the checkout charges a saved address, the address is *)
(* told so if the city is active.                                          *)
QuotesAgree ==
  /\ \A g \in Governorates : \A c \in ListedCities(g) :
       /\ Quoted(g, c) = Charge(g, c)
       /\ Charge(g, c) \subseteq Configured(g)
  /\ Revalidated # {} => \/ Charge(home.gov, home.city) = Revalidated
                         \/ city[home.city].gov # home.gov
  /\ (home # NoHome /\ Charge(home.gov, home.city) # {} /\ city[home.city].active)
       => Revalidated = Charge(home.gov, home.city)

(* Cities and rates stay single, as far as a key or the absence of overlap *)
(* can keep them, and all quotes of a rate agree.                          *)
DeliverySound == CityNamesOnce /\ OneRatePerCity /\ OneWideRate /\ QuotesAgree

(* Deletions are refused while a city is in use, but the counts come first *)
(* and the deletion after them.  A rate becomes the whole governorate's, an*)
(* address or an order loses its city, only with the city, and only if it  *)
(* was written after that request had counted its table.                   *)
Removing(c) == {q \in {ask[r] : r \in Asking} : q.op = "removeCity" /\ q.about = c}
KeepsCity ==
  /\ \A z \in zones : (\E y \in zones' : SameRow(y, z) /\ y.city # z.city) =>
       \E q \in Removing(z.city) : q.rates # NotYet /\ q.rates < z.at
  /\ \A o \in ordered : o \notin ordered' =>
       \E q \in Removing(o.city) : q.orders # NotYet /\ q.orders < o.at
  /\ home # NoHome /\ home'.at = home.at /\ home' # home =>
       \E q \in Removing(home.city) : q.homes # NotYet /\ q.homes < home.at
KeepTheirCity == [][KeepsCity]_deliveryVars
=============================================================================
