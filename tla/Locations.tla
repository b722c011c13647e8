------------------------------ MODULE Locations ------------------------------
(***************************************************************************)
(* The super admin's cities (src/locations).  No handler runs in a         *)
(* transaction: a city is looked for, then written, and the only key of    *)
(* the database is the governorate with the slug.  The slug stands for the *)
(* Latin name it is made of: an Arabic name alone has the empty slug.      *)
(***************************************************************************)
EXTENDS Integers, FiniteSets, Sequences, TLC

CONSTANTS
  Cities, Governorates,
  Names,       \* Arabic names
  Latins,      \* Latin names, and "" for none: the slug is empty
  Offers,      \* the names the requests give to cities
  Lists,       \* the lists of them they create in bulk
  Edits,       \* what the requests change of a city
  FirstCities, \* the cities there may be when a behaviour starts
  Askers,      \* concurrent requests, of whatever handler
  MaxAsks      \* bound: requests in a behaviour

Row == [state : {"absent", "known", "gone"}, gov : Governorates,
        name : Names, latin : Latins, active : BOOLEAN]

(* A field that is not given is left as it is. *)
Field(S)     == S \cup {"same"}
Given(x, was) == IF x = "same" THEN was ELSE x
EditForm     == [gov : Field(Governorates), name : Field(Names), latin : Field(Latins)]

ASSUME LocationsAssumption ==
  /\ Edits \subseteq EditForm
  /\ Offers \subseteq [name : Names, latin : Latins] /\ Lists \subseteq Seq(Offers) \ {<<>>}
  /\ FirstCities \subseteq [Cities -> Row] /\ MaxAsks \in Nat
  /\ \A f \in FirstCities : \A c, d \in Cities :
       c # d /\ f[c].state = "known" /\ f[d].state = "known" /\ f[c].gov = f[d].gov =>
         f[c].name # f[d].name /\ f[c].latin # f[d].latin

VARIABLES
  city,      \* city[c]: its row
  ask,       \* ask[r]: the request of an asker
  met,       \* the askers whose request met another
  asks,      \* requests so far
  overlapped \* a write was made by one of them

cityVars == <<city, ask, met, asks, overlapped>>

-----------------------------------------------------------------------------
NoAsk  == [op |-> "none"]
Asking == {r \in Askers : ask[r] # NoAsk}
Known  == {c \in Cities : city[c].state = "known"}

CitiesInit ==
  /\ city \in FirstCities /\ ask = [r \in Askers |-> NoAsk]
  /\ met = {} /\ asks = 0 /\ overlapped = FALSE

(* A request q begins, reads, and may meet others. *)
Ask(r, q) ==
  /\ ask[r] = NoAsk /\ asks < MaxAsks
  /\ asks' = asks + 1
  /\ ask' = [ask EXCEPT ![r] = q]
  /\ met' = IF Asking = {} THEN {} ELSE Asking \cup {r}
  /\ UNCHANGED overlapped

(* It goes on as q; or is answered.  Of what it writes it is told apart    *)
(* whether it was alone.                                                   *)
GoOn(r, q) == ask' = [ask EXCEPT ![r] = q] /\ UNCHANGED <<met, asks>>
Told(r)    == ask' = [ask EXCEPT ![r] = NoAsk] /\ met' = met \ {r} /\ UNCHANGED asks
Wrote(r)   == overlapped' = IF r \in met THEN TRUE ELSE overlapped

(* assertNoDuplicate, and the same query of bulkCreate. *)
Duplicate(g, e, others) ==
  \E c \in others : city[c].gov = g /\ (city[c].latin = e.latin \/ city[c].name = e.name)

(* The unique key of the table. *)
SlugTaken(g, latin, others) == \E c \in others : city[c].gov = g /\ city[c].latin = latin

-----------------------------------------------------------------------------
(* create: refused if there is one, else it goes to its insertion. *)
BeginCity(r, g, e, active) ==
  /\ ~ Duplicate(g, e, Known)
  /\ Ask(r, [op |-> "insertCity", gov |-> g, left |-> <<e>>, active |-> active])
  /\ UNCHANGED city

(* bulkCreate: the entries one after the other, each looked for ... *)
BeginCities(r, g, entries) ==
  Ask(r, [op |-> "findCity", gov |-> g, left |-> entries, active |-> TRUE]) /\ UNCHANGED city

FindCity(r) ==
  LET q == ask[r]
  IN /\ q.op = "findCity"
     /\ IF q.left = <<>> THEN Told(r)
        ELSE GoOn(r, IF Duplicate(q.gov, Head(q.left), Known)
                     THEN [q EXCEPT !.left = Tail(q.left)] ELSE [q EXCEPT !.op = "insertCity"])
     /\ UNCHANGED <<city, overlapped>>

(* ... and inserted; the key of the table ends the request where it is. *)
InsertCity(r) ==
  LET q == ask[r]
      e == Head(q.left)
  IN /\ q.op = "insertCity"
     /\ IF SlugTaken(q.gov, e.latin, Known)
        THEN Told(r) /\ UNCHANGED <<city, overlapped>>
        ELSE /\ \E c \in Cities : city[c].state = "absent"
                /\ city' = [city EXCEPT ![c] = [state |-> "known", gov |-> q.gov, name |-> e.name,
                                                latin |-> e.latin, active |-> q.active]]
             /\ GoOn(r, [q EXCEPT !.op = "findCity", !.left = Tail(q.left)])
             /\ Wrote(r)

(* update: the city is read, and with it what it is to be called; the slug *)
(* follows a Latin name that is given.                                     *)
BeginEditCity(r, c, f, active) ==
  /\ c \in Known
  /\ LET g    == Given(f.gov, city[c].gov)
         e    == [name |-> Given(f.name, city[c].name), latin |-> Given(f.latin, city[c].latin)]
         same == g = city[c].gov /\ e.name = city[c].name /\ e.latin = city[c].latin
     IN Ask(r, [op |-> IF same THEN "editCity" ELSE "findOther", about |-> c, gov |-> g, entry |-> e,
                form |-> f, active |-> active])
  /\ UNCHANGED city

(* Mutant: another of the name is looked for in the governorate read. *)
FindOtherThere(r) ==
  LET q == ask[r]
  IN /\ q.op = "findOther"
     /\ IF Duplicate(city[q.about].gov, q.entry, Known \ {q.about}) THEN Told(r)
        ELSE GoOn(r, [q EXCEPT !.op = "editCity"])
     /\ UNCHANGED <<city, overlapped>>

(* assertNoDuplicate, when any of them changes. *)
FindOther(r) ==
  LET q == ask[r]
  IN /\ q.op = "findOther"
     /\ IF Duplicate(q.gov, q.entry, Known \ {q.about}) THEN Told(r)
        ELSE GoOn(r, [q EXCEPT !.op = "editCity"])
     /\ UNCHANGED <<city, overlapped>>

(* The update writes what is given, the slug as it was worked out, and     *)
(* isActive, which the schema gives when the request does not (true).      *)
Edited(q) ==
  LET row == city[q.about]
  IN [row EXCEPT !.gov = Given(q.form.gov, row.gov), !.name = Given(q.form.name, row.name),
                 !.latin = q.entry.latin, !.active = q.active]
EditCity(r) ==
  LET q == ask[r]
  IN /\ q.op = "editCity"
     /\ IF q.about \in Known /\ ~ SlugTaken(Edited(q).gov, q.entry.latin, Known \ {q.about})
        THEN city' = [city EXCEPT ![q.about] = Edited(q)] /\ Wrote(r)
        ELSE UNCHANGED <<city, overlapped>>
     /\ Told(r)

CitiesNext ==
  \E r \in Askers :
    \/ \E g \in Governorates, e \in Offers, b \in BOOLEAN :
         BeginCity(r, g, e, b)
    \/ \E c \in Known, f \in Edits, b \in BOOLEAN : BeginEditCity(r, c, f, b)
    \/ \E g \in Governorates, es \in Lists : BeginCities(r, g, es)
    \/ FindCity(r) \/ InsertCity(r) \/ FindOther(r) \/ EditCity(r)

-----------------------------------------------------------------------------
(* A governorate has no two cities of one name, and no two of one slug:    *)
(* the slug is a key, the name is not, and of requests that do not overlap *)
(* it holds through creations one by one and in bulk, and through every    *)
(* change of a name or a governorate.                                      *)
CityNamesOnce ==
  \A c, d \in Known : c # d /\ city[c].gov = city[d].gov =>
    /\ city[c].latin # city[d].latin
    /\ ~ overlapped => city[c].name # city[d].name
=============================================================================
