---------------------------- MODULE MCStoreReports ----------------------------
(* Two stores, three orders and two of the last days of a July: on the     *)
(* second of them February, five months before, has no such day.           *)
EXTENDS StoreReports, TLC

CONSTANTS o1, o2, o3, s1, s2, i1, i2, i3

MCStart == 2 * (DaysBefore[6] + 27)   \* the 28th of July

Line(p, c, q, price) == [product |-> p, category |-> c, quantity |-> q, price |-> price]
MCFacts ==
  o1 :> [store |-> s1, customer |-> "ann", method |-> "COD", governorate |-> "north", city |-> "port",
         shipping |-> 2, discount |-> 0, lines |-> {Line("tea", "drinks", 2, 5), Line("cup", "ware", 1, 7)}]
  @@
  o2 :> [store |-> s1, customer |-> "ann", method |-> "CARD", governorate |-> "south", city |-> "none",
         shipping |-> 0, discount |-> 1, lines |-> {Line("tea", "drinks", 1, 5)}]
  @@
  o3 :> [store |-> s2, customer |-> Nobody, method |-> "COD", governorate |-> "north", city |-> "port",
         shipping |-> 3, discount |-> 2, lines |-> {Line("oil", "food", 3, 4)}]

MCPrices == "basic" :> [monthly |-> 10, yearly |-> 96] @@ "pro" :> [monthly |-> 30, yearly |-> 300]

(* Nothing yet; an old sale of February; sales of the window before this  *)
(* one; and of this one.                                                   *)
MCHistories ==
  LET none == [o \in Orders |-> Absent]
      sold(st, ago) == [status |-> st, at |-> MCStart - ago]
      old  == [none EXCEPT ![o1] = [status |-> "DELIVERED", at |-> 2 * DaysBefore[1] + 20]]
  IN {none, old,
      [old EXCEPT ![o2] = sold("DELIVERED", 3), ![o3] = sold("PENDING", 6)],
      [none EXCEPT ![o1] = sold("DELIVERED", 2), ![o2] = sold("DELIVERED", 1), ![o3] = sold("DELIVERED", 0)]}

(* A contract ends soon, or ended yesterday, or there is none; and there is *)
(* no store yet.                                                           *)
Opened(p, until) == [status |-> "ACTIVE", plan |-> p, yearly |-> FALSE, at |-> 2 * DaysBefore[1],
                     contract |-> IF p = "none" THEN "NONE" ELSE "ACTIVE", since |-> 2 * DaysBefore[1],
                     end |-> until]
MCOpenings ==
  {[s \in Stores |-> IF s = s1 THEN Opened("basic", MCStart + 1) ELSE Opened("none", NoEnd)],
   [s \in Stores |-> IF s = s1 THEN Opened("basic", MCStart - 1) ELSE Absent],
   [s \in Stores |-> Absent]}

MCBacklog == [k \in {"applications-submitted", "applications-in-review", "messages-unread",
                     "subscriptions-unpaid"} |->
                IF k = "applications-in-review" THEN 2 ELSE IF k = "messages-unread" THEN 1 ELSE 0]

(* Everything; what ran out; and what ends soon of a plan's active ones.  *)
MCAsked == {Every, [Every EXCEPT !.status = "EXPIRED"],
            [status |-> "ACTIVE", plan |-> "basic", within |-> "soon"]}

MCWarehouseOf == [i \in Items |-> IF i = i1 THEN "main" ELSE "second"]
MCFirstRows == {[i \in Items |-> IF i = i1 THEN 9 ELSE IF i = i2 THEN Gone ELSE 3]}
MCFirstAt == [i \in Items |-> IF i = i1 THEN 0 ELSE IF i = i2 THEN -1 ELSE -2]
=============================================================================
