-------------------------- MODULE MCCustomerAccount --------------------------
(* Two editors of one book, two requests in the threads, a chat and a      *)
(* store's thread with the platform; two cities in two governorates, their *)
(* rates and two requests at a time.                                       *)
EXTENDS CustomerAccount

CONSTANTS chat, platform, k1, k2

CityRow(st, g, n, l) == [state |-> st, gov |-> g, name |-> n, latin |-> l, active |-> TRUE]
Port(l) == [name |-> "port", latin |-> l]
Hill == [name |-> "hill", latin |-> ""]
MCOffers == {Port(""), Hill}
EditOf(g, n, l) == [gov |-> g, name |-> n, latin |-> l]
MCEdits == {EditOf("same", "hill", "same"), EditOf("south", "same", "same"),
            EditOf("same", "port", "p"), EditOf("north", "hill", "")}
MCLists  == {<<Port(""), Hill>>}
MCFirstCities ==
  {(k1 :> CityRow("known", "north", "port", "p") @@ k2 :> row) :
     row \in {CityRow("absent", "north", "port", "p"), CityRow("known", "south", "port", "")}}
RateRow(g, c) == [gov |-> g, city |-> c, cost |-> 1, open |-> "yes", at |-> 0, first |-> c]
MCFirstRates == {{RateRow("north", k1)}}

MCSymmetry == Permutations(Editors) \cup Permutations(Callers) \cup Permutations(Askers)
=============================================================================
