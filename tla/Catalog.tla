------------------------------ MODULE Catalog ------------------------------
(***************************************************************************)
(* What the resort offers: room types, rooms, service types, services and  *)
(* room services, the ratings of rooms, and the lists of work that are     *)
(* read out of them for the guests who are in.                             *)
(*                                                                         *)
(* A room and a service type belong to a room type, a service to a service *)
(* type; that one is looked up before a write and not after, and an update *)
(* may leave a room with a blank one.  Removal looks at nothing.           *)
(***************************************************************************)
EXTENDS Integers, Sequences, FiniteSets, TLC

CONSTANTS
  Requests,  \* each is served once
  Stock,     \* the documents there are to begin with, by id
  Names,     \* of which some kinds of document may have only one each
  Prices,    \* of rooms, base prices of room types
  Scores,    \* the sum of the six marks a rating gives
  Entries,   \* the services on the bookings that are checked in, in the order
             \* in which they are read: [room, service, first], first being
             \* TRUE for the first service of a booking
  Asks       \* what a request may ask for, see AskType

Kinds == {"roomType", "room", "serviceType", "service", "roomService"}
ParentOf == [room |-> "roomType", serviceType |-> "roomType", service |-> "serviceType"]
HasParent == DOMAIN ParentOf
Unique == {"serviceType", "service", "roomService"}
Lists == {"count", "all", "ofType"}

Ids == Requests \cup DOMAIN Stock
\* "keep": left out of the body of a request, or none.  "blank": given, as "" or
\* null.
AskType == [do : {"create", "update", "remove", "rate"} \cup Lists, what : Kinds, id : Ids \cup {"keep"},
            parent : Ids \cup {"keep", "blank", "any"}, name : Names, price : Prices, score : Scores]
Doc == [what : Kinds, parent : Ids \cup {"keep", "blank"}, name : Names, price : Prices, average : Nat]
\* A price within half of a base price.
Near(price, base) == 2 * price >= base /\ 2 * price <= 3 * base

ASSUME CatalogAssumption ==
  /\ IsFiniteSet(Requests) /\ Requests \cap DOMAIN Stock = {} /\ {"keep", "blank", "any"} \cap Ids = {}
  /\ Prices \subseteq Int /\ Scores \subseteq 6 .. 30
  /\ Stock \in [DOMAIN Stock -> Doc]
  /\ Entries \in Seq([room : DOMAIN Stock, service : DOMAIN Stock, first : BOOLEAN])
  /\ Asks \subseteq AskType /\ Asks # {} /\ \A a \in Asks : a.parent = "any" => a.do \in Lists

\* The stock is as the services leave it where nothing was updated or removed,
\* and nobody has rated yet; bookings are for rooms and services.
ASSUME StockAssumption ==
  /\ \A i \in DOMAIN Stock :
       /\ Stock[i].average = 0
       /\ Stock[i].what \in HasParent =>
            /\ Stock[i].parent \in DOMAIN Stock
            /\ Stock[Stock[i].parent].what = ParentOf[Stock[i].what]
       /\ Stock[i].what = "room" => Near(Stock[i].price, Stock[Stock[i].parent].price)
       /\ Stock[i].what \in Unique => \A j \in DOMAIN Stock :
            Stock[j].what = Stock[i].what /\ Stock[j].name = Stock[i].name => i = j
  /\ \A k \in DOMAIN Entries : /\ Stock[Entries[k].room].what = "room"
                             /\ Stock[Entries[k].service].what = "service"

VARIABLES
  docs,     \* the stored documents by id
  ratings,  \* the stored ratings
  pc, ask,  \* where a request stands, what it asks for
  seen,     \* a number it has read: a base price, an average
  averaged, \* the ratings it averages
  pos,      \* the entry a list is at
  type,     \* the service type found for it
  listed,   \* the entries on the list so far
  touched,  \* history: rooms and room types that were updated
  alone,    \* history: a rating that has met no other of its room
  had       \* history: the types a service had while a list was read

listing == <<pos, type, listed, had>>
rating == <<ratings, averaged, alone>>
vars == <<docs, rating, pc, ask, seen, listing, touched>>

Rating == [room : Ids, score : Scores, by : Requests]
InFlight == {"checked", "rated", "stored", "averaged", "booking", "service", "type"}
Answered == {"done", "refused", "failed"}

TypeOK ==
  /\ DOMAIN docs \subseteq Ids /\ docs \in [DOMAIN docs -> Doc]
  /\ ratings \subseteq Rating
  /\ pc \in [Requests -> {"idle"} \cup InFlight \cup Answered]
  /\ ask \in [Requests -> Asks]
  /\ seen \in [Requests -> Nat]
  /\ averaged \in [Requests -> SUBSET Rating]
  /\ pos \in [Requests -> 1 .. Len(Entries) + 1]
  /\ type \in [Requests -> Ids]
  /\ listed \in [Requests -> SUBSET (DOMAIN Entries)]
  /\ touched \subseteq Ids
  /\ alone \in [Requests -> BOOLEAN]
  /\ had \in [Requests -> SUBSET (Ids \X Ids)]

Init ==
  /\ docs = Stock
  /\ ratings = {}
  /\ pc = [r \in Requests |-> "idle"]
  /\ ask = [r \in Requests |-> CHOOSE a \in Asks : TRUE]
  /\ seen = [r \in Requests |-> 0]
  /\ averaged = [r \in Requests |-> {}]
  /\ pos = [r \in Requests |-> 1]
  /\ type = [r \in Requests |-> r]
  /\ listed = [r \in Requests |-> {}]
  /\ touched = {}
  /\ alone = [r \in Requests |-> TRUE]
  /\ had = [r \in Requests |-> {}]

Goto(r, where) == pc' = [pc EXCEPT ![r] = where]
Arrive(r, a, deeds) == pc[r] = "idle" /\ a.do \in deeds /\ ask' = [ask EXCEPT ![r] = a]
Stored(i, what) == i \in DOMAIN docs /\ docs[i].what = what
Free(i, what, name) ==
  what \in Unique => \A j \in DOMAIN docs \ {i} : ~(docs[j].what = what /\ docs[j].name = name)

-----------------------------------------------------------------------------
(* Documents. *)

\* Mutant: only a price too high is refused.
LookForCreateHigh(r, a) ==
  /\ Arrive(r, a, {"create"})
  /\ LET found == a.what \in HasParent => Stored(a.parent, ParentOf[a.what])
     IN Goto(r, IF found /\ (a.what = "room" => 2 * a.price <= 3 * docs[a.parent].price)
                THEN "checked" ELSE "refused")
  /\ UNCHANGED <<docs, rating, seen, listing, touched>>

\* create: the parent is looked up; a room's price must be within half of its
\* base price.
LookForCreate(r, a) ==
  /\ Arrive(r, a, {"create"})
  /\ LET found == a.what \in HasParent => Stored(a.parent, ParentOf[a.what])
         near == a.what = "room" => Near(a.price, docs[a.parent].price)
     IN Goto(r, IF found /\ near THEN "checked" ELSE "refused")
  /\ UNCHANGED <<docs, rating, seen, listing, touched>>

\* update: a room's type is looked up only if one is given that is not blank, a
\* parent must be given for the others that have one.
LookForUpdate(r, a) ==
  /\ Arrive(r, a, {"update"})
  /\ Goto(r, IF a.what \in HasParent /\ ~(a.what = "room" /\ a.parent \in {"keep", "blank"})
                /\ ~Stored(a.parent, ParentOf[a.what])
             THEN "refused" ELSE "checked")
  /\ UNCHANGED <<docs, rating, seen, listing, touched>>

Add(r, doc) == docs' = [i \in DOMAIN docs \cup {r} |-> IF i = r THEN doc ELSE docs[i]]

\* Mutant: what is created is not tied to the parent that was looked up.
InsertAstray(r) ==
  /\ pc[r] = "checked" /\ ask[r].do = "create"
  /\ Add(r, [what |-> ask[r].what, parent |-> r, name |-> ask[r].name,
             price |-> ask[r].price, average |-> 0])
  /\ Goto(r, "done")
  /\ UNCHANGED <<rating, ask, seen, listing, touched>>

\* save(); the unique index on a name may refuse.
Insert(r) ==
  LET a == ask[r] IN
  /\ pc[r] = "checked" /\ a.do = "create"
  /\ \/ /\ Free(r, a.what, a.name)
        /\ Add(r, [what |-> a.what, parent |-> a.parent, name |-> a.name,
                   price |-> a.price, average |-> 0])
        /\ Goto(r, "done")
     \/ /\ ~Free(r, a.what, a.name)
        /\ Goto(r, "refused")
        /\ UNCHANGED docs
  /\ UNCHANGED <<rating, ask, seen, listing, touched>>

\* findByIdAndUpdate: only what is given is written, a blank type too.  No price
\* is checked, and no validator of the schema runs.
Write(r) ==
  LET a == ask[r] IN
  /\ pc[r] = "checked" /\ a.do = "update"
  /\ \/ /\ Stored(a.id, a.what) /\ Free(a.id, a.what, a.name)
        /\ docs' = [docs EXCEPT ![a.id].parent = IF a.parent = "keep" THEN @ ELSE a.parent,
                                ![a.id].name = a.name, ![a.id].price = a.price]
        /\ touched' = touched \cup {a.id}
        /\ had' = [q \in Requests |-> IF a.what = "service" /\ pc[q] \in InFlight /\ ask[q].do \in Lists
                                      THEN had[q] \cup {<<a.id, a.parent>>} ELSE had[q]]
        /\ Goto(r, "done")
     \/ /\ ~(Stored(a.id, a.what) /\ Free(a.id, a.what, a.name))
        /\ Goto(r, "refused")
        /\ UNCHANGED <<docs, touched, had>>
  /\ UNCHANGED <<rating, ask, seen, pos, type, listed>>

\* Bookings, ratings, staff and whatever has it as a parent stay.
Remove(r, a) ==
  /\ Arrive(r, a, {"remove"})
  /\ \/ /\ Stored(a.id, a.what)
        /\ docs' = [i \in DOMAIN docs \ {a.id} |-> docs[i]]
        /\ Goto(r, "done")
     \/ /\ ~Stored(a.id, a.what)
        /\ Goto(r, "refused")
        /\ UNCHANGED docs
  /\ UNCHANGED <<rating, seen, listing, touched>>

-----------------------------------------------------------------------------
(* Ratings: RatingService.addRating. *)

RatingsOf(room) == {t \in ratings : t.room = room}
\* The points that a set of ratings gives: their number is the sum of the marks.
Points(set) == {p \in set \X (1 .. 30) : p[2] <= p[1].score}
\* The mean of all marks in hundredths, rounded, as toFixed(2) has it.
Mean(set) ==
  IF set = {} THEN 0
  ELSE (100 * Cardinality(Points(set)) + 3 * Cardinality(set)) \div (6 * Cardinality(set))

Rating1 == {"rated", "stored", "averaged"}

LookForRating(r, a) ==
  LET others == {q \in Requests : pc[q] \in Rating1 /\ ask[q].id = a.id} IN
  /\ Arrive(r, a, {"rate"})
  /\ \/ /\ Stored(a.id, "room")
        /\ seen' = [seen EXCEPT ![r] = docs[a.id].average]
        /\ alone' = [q \in Requests |-> alone[q] /\ q \notin others /\ (q = r => others = {})]
        /\ Goto(r, "rated")
     \/ /\ ~Stored(a.id, "room")
        /\ Goto(r, "refused")
        /\ UNCHANGED <<seen, alone>>
  /\ UNCHANGED <<docs, ratings, averaged, listing, touched>>

SaveRating(r) ==
  /\ pc[r] = "rated"
  /\ ratings' = ratings \cup {[room |-> ask[r].id, score |-> ask[r].score, by |-> r]}
  /\ Goto(r, "stored")
  /\ UNCHANGED <<docs, averaged, alone, ask, seen, listing, touched>>

\* Mutant: the average is over the ratings that were there before.
ReadOtherRatings(r) ==
  /\ pc[r] = "stored"
  /\ averaged' = [averaged EXCEPT ![r] = {t \in RatingsOf(ask[r].id) : t.by # r}]
  /\ Goto(r, "averaged")
  /\ UNCHANGED <<docs, ratings, alone, ask, seen, listing, touched>>

\* The ids of the room's ratings, then the ratings by id: none is ever changed
\* or deleted, so the second read finds what the first did.
ReadRatings(r) ==
  /\ pc[r] = "stored"
  /\ averaged' = [averaged EXCEPT ![r] = RatingsOf(ask[r].id)]
  /\ Goto(r, "averaged")
  /\ UNCHANGED <<docs, ratings, alone, ask, seen, listing, touched>>

\* Mutant: a running average of the one loaded and the rating added.
SaveAverageRunning(r) ==
  /\ pc[r] = "averaged" /\ ask[r].id \in DOMAIN docs
  /\ docs' = [docs EXCEPT ![ask[r].id].average =
       (seen[r] + Mean({t \in averaged[r] : t.by = r})) \div 2]
  /\ Goto(r, "done")
  /\ UNCHANGED <<rating, ask, seen, listing, touched>>

\* room.save(): sends the average if it is not the one that was loaded, and
\* fails if the room is gone.
SaveAverage(r) ==
  LET room == ask[r].id
      mean == Mean(averaged[r])
  IN
  /\ pc[r] = "averaged"
  /\ \/ /\ room \in DOMAIN docs
        /\ docs' = [docs EXCEPT ![room].average = IF mean = seen[r] THEN @ ELSE mean]
        /\ Goto(r, "done")
     \/ /\ room \notin DOMAIN docs
        /\ Goto(r, "failed")
        /\ UNCHANGED docs
  /\ UNCHANGED <<rating, ask, seen, listing, touched>>

-----------------------------------------------------------------------------
(* The lists of work: getServiceStatusCount ("count"), getAllBookingService *)
(* ("all"), getBookingServicesByServiceType ("ofType").  The bookings are  *)
(* read at once, rooms, services and types one by one.                     *)

Entry(r) == Entries[pos[r]]
\* Where the list goes on at entry k.
Resume(r, k) ==
  CASE k > Len(Entries)                                        -> "done"
    [] k <= Len(Entries) /\ Entries[k].first /\ ask[r].do # "count" -> "booking"
    [] OTHER                                                   -> "service"
NextEntry(r) == pos' = [pos EXCEPT ![r] = @ + 1] /\ Goto(r, Resume(r, pos[r] + 1))

StartList(r, a) ==
  /\ Arrive(r, a, Lists)
  /\ had' = [had EXCEPT ![r] = {<<i, docs[i].parent>> : i \in {j \in DOMAIN docs : docs[j].what = "service"}}]
  /\ pc' = [pc EXCEPT ![r] = IF Entries = <<>> THEN "done" ELSE IF a.do = "count" THEN "service" ELSE "booking"]
  /\ UNCHANGED <<docs, rating, seen, pos, type, listed, touched>>

\* roomService.findOne throws if the room is gone.
ListRoom(r) ==
  /\ pc[r] = "booking"
  /\ Goto(r, IF Entry(r).room \in DOMAIN docs THEN "service" ELSE "failed")
  /\ UNCHANGED <<docs, rating, ask, seen, listing, touched>>

Fits(r, t) == ask[r].parent \in {"any", t}

\* Mutant: the type of the entry before is compared.
ListServiceStale(r) ==
  /\ pc[r] = "service"
  /\ \/ /\ Entry(r).service \in DOMAIN docs
        /\ type' = [type EXCEPT ![r] = docs[Entry(r).service].parent]
        /\ IF ask[r].do = "ofType" /\ ~Fits(r, type[r]) THEN NextEntry(r)
           ELSE Goto(r, "type") /\ UNCHANGED pos
     \/ /\ Entry(r).service \notin DOMAIN docs
        /\ Goto(r, "failed")
        /\ UNCHANGED <<pos, type>>
  /\ UNCHANGED <<docs, rating, ask, seen, listed, had, touched>>

\* serviceService.findOne throws if the service is gone.  The list of one type
\* passes over the others here.
ListService(r) ==
  /\ pc[r] = "service"
  /\ \/ /\ Entry(r).service \in DOMAIN docs
        /\ type' = [type EXCEPT ![r] = docs[Entry(r).service].parent]
        /\ IF ask[r].do = "ofType" /\ ~Fits(r, docs[Entry(r).service].parent) THEN NextEntry(r)
           ELSE Goto(r, "type") /\ UNCHANGED pos
     \/ /\ Entry(r).service \notin DOMAIN docs
        /\ Goto(r, "failed")
        /\ UNCHANGED <<pos, type>>
  /\ UNCHANGED <<docs, rating, ask, seen, listed, had, touched>>

\* serviceTypeService.findOne throws if the type is gone, and only then is it
\* seen that the entry is not for this member of the staff.
ListType(r) ==
  /\ pc[r] = "type"
  /\ \/ /\ type[r] \in DOMAIN docs
        /\ listed' = [listed EXCEPT ![r] = @ \cup IF Fits(r, type[r]) THEN {pos[r]} ELSE {}]
        /\ NextEntry(r)
     \/ /\ type[r] \notin DOMAIN docs
        /\ Goto(r, "failed")
        /\ UNCHANGED <<listed, pos>>
  /\ UNCHANGED <<docs, rating, ask, seen, type, had, touched>>

-----------------------------------------------------------------------------
\* The awaited call fails: what is stored stays.
Fault(r) ==
  /\ pc[r] \in {"checked"} \cup Rating1
  /\ Goto(r, "failed")
  /\ UNCHANGED <<docs, rating, ask, seen, listing, touched>>

Serve(r, a) ==
  \/ LookForCreate(r, a) \/ LookForUpdate(r, a) \/ Remove(r, a)
  \/ LookForRating(r, a) \/ StartList(r, a)

Continue(r) ==
  \/ Insert(r) \/ Write(r) \/ SaveRating(r) \/ ReadRatings(r) \/ SaveAverage(r)
  \/ ListRoom(r) \/ ListService(r) \/ ListType(r)

Next == \E r \in Requests : Continue(r) \/ Fault(r) \/ \E a \in Asks : Serve(r, a)

Spec == Init /\ [][Next]_vars

-----------------------------------------------------------------------------
\* The parent of a document is there, or was until it was removed.
HasOrHad(i) ==
  LET p == docs[i].parent IN
  \/ Stored(p, ParentOf[docs[i].what])
  \/ /\ p \notin DOMAIN docs
     /\ \E r \in Requests : ask[r].do = "remove" /\ ask[r].id = p /\ pc[r] = "done"
\* A room was updated with a blank type.
Blanked(i) ==
  /\ docs[i].what = "room" /\ docs[i].parent = "blank"
  /\ \E r \in Requests : ask[r].do = "update" /\ ask[r].id = i /\ ask[r].parent = "blank" /\ pc[r] = "done"

\* What is stored without its parent lost it to a removal, or is a room whose type
\* some update left blank: no document is created under, or moved to, something
\* that was never there or is of another kind, whatever is updated or removed
\* between lookup and write.
ParentsWereThere ==
  \A i \in DOMAIN docs : docs[i].what \in HasParent => HasOrHad(i) \/ Blanked(i)

\* No two service types, services or room services share a name, though two
\* requests that ask for it may come together.
NamesAreUnique == \A i \in DOMAIN docs : Free(i, docs[i].what, docs[i].name)

\* "Price per night must be within 50% of the base price" (room.service.ts:163)
\* of every room that was created, until it or its type is updated.
PriceNearBase ==
  \A i \in DOMAIN docs \ touched :
    docs[i].what = "room" /\ docs[i].parent \in DOMAIN docs \ touched =>
      LET base == docs[docs[i].parent].price
          off == docs[i].price - base
      IN 2 * (IF off < 0 THEN -off ELSE off) <= base

\* A rating that met no other of its room leaves the room with the mean of all
\* its ratings, whatever overlapping or failed ratings left there before, and
\* whatever updates of the room come between.
AloneIsExact ==
  [][\A r \in Requests : pc[r] = "averaged" /\ pc'[r] = "done" /\ alone[r] =>
       docs'[ask[r].id].average = Mean(RatingsOf(ask[r].id))]_vars

\* The average a room shows is the mean of some of its ratings, none twice.
AverageOfRatings ==
  \A i \in DOMAIN docs : docs[i].what = "room" =>
    \E some \in SUBSET RatingsOf(i) : docs[i].average = Mean(some)

\* A list that is answered has every entry whose service was of the type asked
\* for all the while, and none whose service never was; updates of services may
\* come between the lookups.
ListsAreFaithful ==
  \A r \in Requests : ask[r].do \in Lists /\ pc[r] = "done" =>
    \A k \in DOMAIN Entries :
      LET types == {p[2] : p \in {q \in had[r] : q[1] = Entries[k].service}} IN
      /\ k \in listed[r] => \E t \in types : Fits(r, t)
      /\ (\A t \in types : Fits(r, t)) => k \in listed[r]

\* A list fails only over something that was removed, and a removed service is
\* never left out in silence.
ListsFailOverRemovals ==
  \A r \in Requests : ask[r].do \in Lists /\ pc[r] = "failed" =>
    \E k \in DOMAIN Entries :
      \/ {Entries[k].room, Entries[k].service} \ DOMAIN docs # {}
      \/ \E p \in had[r] : p[1] = Entries[k].service /\ p[2] \notin DOMAIN docs

\* What is true of the documents at any time: their types, parents and names.
CatalogIsSound == TypeOK /\ ParentsWereThere /\ NamesAreUnique

\* What is true of a list that has been answered, or could not be.
ListsHold == ListsAreFaithful /\ ListsFailOverRemovals
=============================================================================
