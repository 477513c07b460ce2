---------------------------- MODULE CatalogProofs ----------------------------
(***************************************************************************)
(* Theorems about Catalog, for every stock, every list of bookings and     *)
(* every set of requests: what is stored keeps its parents and its names,  *)
(* prices start near the base price, an average is one of ratings the room *)
(* has, and the lists of work are right about what they read.              *)
(***************************************************************************)
EXTENDS Catalog, FiniteSetTheorems, SequenceTheorems, TLAPS

-----------------------------------------------------------------------------
(* The inductive invariant. *)

\* Where a request stands tells what it was asked.
StageTellsDeed ==
  \A r \in Requests :
    /\ pc[r] = "checked" => ask[r].do \in {"create", "update"}
    /\ pc[r] \in Rating1 => ask[r].do = "rate"
    /\ pc[r] \in {"booking", "service", "type"} => ask[r].do \in Lists

\* An id that was handed out, and will not be again.
Old(i) ==
  \/ i \in DOMAIN Stock
  \/ i \in Requests /\ pc[i] = "done" /\ ask[i].do = "create"
Removed(i) == \E r \in Requests : ask[r].do = "remove" /\ ask[r].id = i /\ pc[r] = "done"
\* i is a document of that kind, or was until it was removed.
WasThere(i, what) == Old(i) /\ (Stored(i, what) \/ (i \notin DOMAIN docs /\ Removed(i)))

\* No document takes the place of another, nor changes its kind.
IdsAreOld ==
  /\ \A i \in DOMAIN docs : Old(i)
  /\ \A i \in DOMAIN docs \cap DOMAIN Stock : docs[i].what = Stock[i].what
  /\ \A r \in Requests : pc[r] \in Rating1 => Old(ask[r].id)

\* The stored documents have had the parents they name, but for rooms that were
\* left with a blank one, and so have those that are about to be written.
ParentGiven(a) ==
  a.what \in HasParent /\ ~(a.do = "update" /\ a.what = "room" /\ a.parent \in {"keep", "blank"})
ParentsAreOld ==
  /\ \A i \in DOMAIN docs : docs[i].what \in HasParent =>
       WasThere(docs[i].parent, ParentOf[docs[i].what]) \/ Blanked(i)
  /\ \A r \in Requests : pc[r] = "checked" /\ ParentGiven(ask[r]) =>
       WasThere(ask[r].parent, ParentOf[ask[r].what])

\* A price that was checked is still near the base price when it is written,
\* if nobody has touched that.
PricesAreNear ==
  /\ \A i \in DOMAIN docs \ touched :
       docs[i].what = "room" /\ docs[i].parent \in DOMAIN docs \ touched =>
         Near(docs[i].price, docs[docs[i].parent].price)
  /\ \A r \in Requests :
       pc[r] = "checked" /\ ask[r].do = "create" /\ ask[r].what = "room"
       /\ ask[r].parent \in DOMAIN docs \ touched =>
         Near(ask[r].price, docs[ask[r].parent].price)

\* Ratings that are averaged are of the room, and a rating that has met no
\* other of its room averages all of them, on the average that is stored.
RatingsAreOfRooms ==
  \A r \in Requests : pc[r] = "averaged" => averaged[r] \subseteq RatingsOf(ask[r].id)
AloneSeesAll ==
  \A r \in Requests : pc[r] \in Rating1 /\ alone[r] =>
    /\ \A q \in Requests : pc[q] \in Rating1 /\ ask[q].id = ask[r].id => q = r
    /\ ask[r].id \in DOMAIN docs => seen[r] = docs[ask[r].id].average
    /\ pc[r] = "averaged" => averaged[r] = RatingsOf(ask[r].id)

\* A list under way knows each type that the services of its entries have, and
\* is right about the entries it has passed.
TypesHad(r, k) == {p[2] : p \in {q \in had[r] : q[1] = Entries[k].service}}
RightAbout(r, k) ==
  /\ k \in listed[r] => \E t \in TypesHad(r, k) : Fits(r, t)
  /\ (\A t \in TypesHad(r, k) : Fits(r, t)) => k \in listed[r]
Listing == {"booking", "service", "type"}
ListIsRight(r) ==
  /\ pc[r] = "idle" => pos[r] = 1 /\ listed[r] = {}
  /\ pc[r] \in Listing =>
       /\ pos[r] \in DOMAIN Entries
       /\ \A k \in listed[r] : k < pos[r]
       /\ \A k \in DOMAIN Entries : k < pos[r] => RightAbout(r, k)
       /\ \A i \in DOMAIN docs \cap DOMAIN Stock :
            docs[i].what = "service" => <<i, docs[i].parent>> \in had[r]
  /\ pc[r] = "type" => type[r] \in TypesHad(r, pos[r])
  /\ pc[r] = "done" /\ ask[r].do \in Lists => \A k \in DOMAIN Entries : RightAbout(r, k)
  /\ \A p \in had[r] : Old(p[2])
ListsAreRight == \A r \in Requests : ListIsRight(r)

CatalogInv ==
  /\ TypeOK /\ IsFiniteSet(ratings) /\ StageTellsDeed /\ IdsAreOld /\ ParentsAreOld
  /\ NamesAreUnique /\ PricesAreNear
  /\ RatingsAreOfRooms /\ AverageOfRatings /\ AloneSeesAll
  /\ ListsAreRight /\ ListsFailOverRemovals

-----------------------------------------------------------------------------
(* Means. *)

LEMMA PointsTyped ==
  ASSUME NEW set \in SUBSET Rating, IsFiniteSet(set)
  PROVE  /\ IsFiniteSet(Points(set)) /\ Cardinality(Points(set)) \in Nat
         /\ Cardinality(Points(set)) >= 6 * Cardinality(set)
         /\ Cardinality(Points(set)) <= 30 * Cardinality(set)
<1> 1 \in Int /\ 6 \in Int /\ 30 \in Int
  OBVIOUS
<1>a. IsFiniteSet(1 .. 30) /\ Cardinality(1 .. 30) = IF 1 > 30 THEN 0 ELSE 30 - 1 + 1
  BY FS_Interval, Zenon
<1>b. IsFiniteSet(1 .. 6) /\ Cardinality(1 .. 6) = IF 1 > 6 THEN 0 ELSE 6 - 1 + 1
  BY FS_Interval, Zenon
<1>c. Cardinality(1 .. 30) = 30 /\ Cardinality(1 .. 6) = 6
  BY <1>a, <1>b
<1>1. IsFiniteSet(set \X (1 .. 30)) /\ Cardinality(set \X (1 .. 30)) = Cardinality(set) * 30
  BY <1>a, <1>b, <1>c, FS_Product
<1>2. IsFiniteSet(set \X (1 .. 6)) /\ Cardinality(set \X (1 .. 6)) = Cardinality(set) * 6
  BY <1>a, <1>b, <1>c, FS_Product
<1>3. \A t \in set : t.score \in 6 .. 30
  BY CatalogAssumption DEF Rating
<1>4. Points(set) \subseteq set \X (1 .. 30)
  BY DEF Points
<1>5. set \X (1 .. 6) \subseteq Points(set)
  BY <1>3 DEF Points
<1>6. IsFiniteSet(Points(set)) /\ Cardinality(Points(set)) <= Cardinality(set \X (1 .. 30))
  BY <1>1, <1>4, FS_Subset
<1>7. Cardinality(set \X (1 .. 6)) <= Cardinality(Points(set))
  BY <1>5, <1>6, FS_Subset
<1>8. Cardinality(Points(set)) \in Nat /\ Cardinality(set) \in Nat
  BY <1>6, FS_CardinalityType
<1>9. QED
  BY <1>1, <1>2, <1>6, <1>7, <1>8

\* A mean lies between one and five stars.
LEMMA MeanTyped ==
  ASSUME NEW set \in SUBSET Rating, IsFiniteSet(set)
  PROVE  /\ Mean(set) \in Nat
         /\ set # {} => Mean(set) \in 100 .. 500
<1>1. CASE set = {}
  BY <1>1 DEF Mean
<1>2. CASE set # {}
  <2> DEFINE n == Cardinality(set)
             p == Cardinality(Points(set))
  <2>1. n \in Nat /\ n > 0
    BY <1>2, FS_CardinalityType, FS_EmptySet
  <2>2. p \in Nat /\ p >= 6 * n /\ p <= 30 * n
    BY PointsTyped
  <2>3. Mean(set) = (100 * p + 3 * n) \div (6 * n)
    BY <1>2 DEF Mean
  <2> HIDE DEF n, p
  <2>4. 6 * n \in Nat /\ 6 * n > 0 /\ 100 * p + 3 * n \in Nat
    BY <2>1, <2>2
  <2>5. \A a, b, q \in Nat : b > 0 /\ q = a \div b => q * b <= a /\ a < (q + 1) * b
    BY Z3
  <2>6. PICK q \in Nat : q = (100 * p + 3 * n) \div (6 * n)
    BY <2>4
  <2>7. q * (6 * n) <= 100 * p + 3 * n /\ 100 * p + 3 * n < (q + 1) * (6 * n)
    BY <2>4, <2>5, <2>6
  <2>8. q <= 500
    BY <2>1, <2>2, <2>7
  <2>9. q >= 100
    BY <2>1, <2>2, <2>7
  <2>10. QED
    BY <2>3, <2>6, <2>8, <2>9
<1>3. QED
  BY <1>1, <1>2

-----------------------------------------------------------------------------
(* What a step does to requests and documents. *)

\* Request r takes a step: it goes on from where it stood, and of the documents
\* it adds its own, removes the one it is to remove, or writes what it was asked.
Step(r) ==
  /\ pc[r] \notin Answered /\ pc'[r] # "idle"
  /\ \A q \in Requests \ {r} : pc'[q] = pc[q] /\ ask'[q] = ask[q]
  /\ pc[r] # "idle" => ask'[r] = ask[r]
  /\ touched \subseteq touched'
  /\ pc'[r] = "checked" =>
       /\ pc[r] = "idle" /\ docs' = docs /\ ask'[r].do \in {"create", "update"}
       /\ ParentGiven(ask'[r]) => Stored(ask'[r].parent, ParentOf[ask'[r].what])
       /\ ask'[r].do = "create" /\ ask'[r].what = "room" =>
            Near(ask'[r].price, docs[ask'[r].parent].price)
  /\ pc'[r] \in Rating1 =>
       pc[r] \in Rating1 \/ (pc[r] = "idle" /\ ask'[r].do = "rate" /\ ask'[r].id \in DOMAIN docs)
  /\ pc'[r] \in {"booking", "service", "type"} => ask'[r].do \in Lists
  /\ \A i \in DOMAIN docs' \ DOMAIN docs :
       /\ i = r /\ pc[r] = "checked" /\ pc'[r] = "done" /\ ask[r].do = "create"
       /\ docs'[r].what = ask[r].what /\ docs'[r].parent = ask[r].parent
       /\ docs'[r].price = ask[r].price
  /\ \A i \in DOMAIN docs \ DOMAIN docs' :
       ask'[r].do = "remove" /\ ask'[r].id = i /\ pc'[r] = "done"
  /\ \A i \in DOMAIN docs \cap DOMAIN docs' :
       /\ docs'[i].what = docs[i].what
       /\ i \notin touched' => docs'[i].price = docs[i].price /\ docs'[i].parent = docs[i].parent
       /\ \/ docs'[i].parent = docs[i].parent
          \/ /\ pc[r] = "checked" /\ ask[r].do = "update" /\ ask[r].what = docs[i].what
             /\ docs'[i].parent = ask[r].parent /\ ask[r].parent # "keep"
             /\ ask[r].id = i /\ pc'[r] = "done"

LEMMA NotYetInserted ==
  ASSUME CatalogInv, NEW r \in Requests, pc[r] # "done" \/ ask[r].do # "create"
  PROVE  ~Old(r) /\ r \notin DOMAIN docs
BY CatalogAssumption DEF CatalogInv, IdsAreOld, Old

LEMMA ServeSteps ==
  ASSUME CatalogInv, NEW r \in Requests, NEW a \in Asks, Serve(r, a)
  PROVE  Step(r)
<1> USE DEF Arrive, Goto, Answered, Rating1, Step
<1>1. TypeOK
  BY DEF CatalogInv
<1>2. CASE LookForCreate(r, a)
  BY <1>1, <1>2 DEF LookForCreate, TypeOK, ParentGiven, HasParent, ParentOf
<1>3. CASE LookForUpdate(r, a)
  BY <1>1, <1>3 DEF LookForUpdate, TypeOK, ParentGiven
<1>4. CASE Remove(r, a)
  BY <1>1, <1>4 DEF Remove, TypeOK
<1>5. CASE LookForRating(r, a)
  BY <1>1, <1>5 DEF LookForRating, TypeOK, Stored
<1>6. CASE StartList(r, a)
  BY <1>1, <1>6 DEF StartList, TypeOK
<1>7. QED
  BY <1>2, <1>3, <1>4, <1>5, <1>6 DEF Serve

LEMMA ContinueSteps ==
  ASSUME CatalogInv, NEW r \in Requests, Continue(r) \/ Fault(r)
  PROVE  Step(r)
<1> USE DEF Goto, Answered, Rating1, Step
<1>1. TypeOK /\ StageTellsDeed
  BY DEF CatalogInv
<1>2. CASE Insert(r)
  <2>1. r \notin DOMAIN docs
    BY <1>2, NotYetInserted DEF Insert
  <2>2. CASE Free(r, ask[r].what, ask[r].name)
    <3> DEFINE doc == [what |-> ask[r].what, parent |-> ask[r].parent, name |-> ask[r].name,
                       price |-> ask[r].price, average |-> 0]
    <3>1. /\ pc[r] = "checked" /\ ask[r].do = "create" /\ pc' = [pc EXCEPT ![r] = "done"]
          /\ ask' = ask /\ touched' = touched /\ Add(r, doc)
      BY <1>2, <2>2 DEF Insert
    <3>2. DOMAIN docs' = DOMAIN docs \cup {r} /\ \A i \in DOMAIN docs : docs'[i] = docs[i]
      BY <2>1, <3>1 DEF Add
    <3>3. /\ docs'[r].what = ask[r].what /\ docs'[r].parent = ask[r].parent
          /\ docs'[r].price = ask[r].price
      BY <3>1 DEF Add
    <3>4. QED
      BY <1>1, <3>1, <3>2, <3>3 DEF TypeOK
  <2>3. CASE ~Free(r, ask[r].what, ask[r].name)
    BY <1>1, <1>2, <2>3 DEF Insert, TypeOK
  <2>4. QED
    BY <2>2, <2>3
<1>3. CASE Write(r)
  <2> DEFINE a == ask[r]
  <2>1. CASE Stored(a.id, a.what) /\ Free(a.id, a.what, a.name)
    <3>1. /\ pc[r] = "checked" /\ pc' = [pc EXCEPT ![r] = "done"] /\ ask' = ask
          /\ a.do = "update" /\ a.id \in DOMAIN docs /\ docs[a.id].what = a.what
          /\ docs' = [docs EXCEPT ![a.id].parent = IF a.parent = "keep" THEN @ ELSE a.parent,
                                  ![a.id].name = a.name, ![a.id].price = a.price]
          /\ touched' = touched \cup {a.id}
      BY <1>3, <2>1 DEF Write, Stored
    <3>2. DOMAIN docs' = DOMAIN docs /\ \A i \in DOMAIN docs : i # a.id => docs'[i] = docs[i]
      BY <1>1, <3>1 DEF TypeOK
    <3>3. /\ docs'[a.id].what = docs[a.id].what
          /\ docs'[a.id].parent = IF a.parent = "keep" THEN docs[a.id].parent ELSE a.parent
      BY <1>1, <3>1 DEF TypeOK, Doc
    <3>4. QED
      BY <1>1, <3>1, <3>2, <3>3 DEF TypeOK
  <2>2. CASE ~(Stored(a.id, a.what) /\ Free(a.id, a.what, a.name))
    BY <1>1, <1>3, <2>2 DEF Write, TypeOK
  <2>3. QED
    BY <2>1, <2>2
<1>4. CASE SaveRating(r)
  BY <1>1, <1>4 DEF SaveRating, TypeOK
<1>5. CASE ReadRatings(r)
  BY <1>1, <1>5 DEF ReadRatings, TypeOK
<1>6. CASE SaveAverage(r)
  <2>1. CASE ask[r].id \in DOMAIN docs
    <3>1. PICK mean : docs' = [docs EXCEPT ![ask[r].id].average = mean]
      BY <1>6, <2>1 DEF SaveAverage
    <3>2. DOMAIN docs' = DOMAIN docs
          /\ \A i \in DOMAIN docs : /\ docs'[i].what = docs[i].what /\ docs'[i].price = docs[i].price
                                  /\ docs'[i].parent = docs[i].parent
      BY <1>1, <3>1 DEF TypeOK, Doc
    <3>3. QED
      BY <1>1, <1>6, <2>1, <3>2 DEF SaveAverage, TypeOK
  <2>2. CASE ask[r].id \notin DOMAIN docs
    BY <1>1, <1>6, <2>2 DEF SaveAverage, TypeOK
  <2>3. QED
    BY <2>1, <2>2
<1>7. CASE ListRoom(r)
  BY <1>1, <1>7 DEF ListRoom, TypeOK, StageTellsDeed
<1>8. CASE ListService(r)
  BY <1>1, <1>8 DEF ListService, NextEntry, Resume, TypeOK, StageTellsDeed
<1>9. CASE ListType(r)
  BY <1>1, <1>9 DEF ListType, NextEntry, Resume, TypeOK, StageTellsDeed
<1>10. CASE Fault(r)
  BY <1>1, <1>10 DEF Fault, TypeOK
<1>11. QED
  BY <1>2, <1>3, <1>4, <1>5, <1>6, <1>7, <1>8, <1>9, <1>10 DEF Continue

\* What is old stays old, what was removed stays removed.
LEMMA StepKeepsOld ==
  ASSUME CatalogInv, NEW r \in Requests, Step(r)
  PROVE  /\ \A i : Old(i) => Old(i)'
         /\ \A i : Removed(i) => Removed(i)'
         /\ \A i, what : WasThere(i, what) => WasThere(i, what)'
<1>1. \A i : Old(i) => Old(i)'
  BY DEF Old, Step, Answered
<1>2. \A i : Removed(i) => Removed(i)'
  BY DEF Removed, Step, Answered
<1>3. ASSUME NEW i, NEW what, WasThere(i, what) PROVE WasThere(i, what)'
  <2>1. CASE Stored(i, what) /\ i \in DOMAIN docs'
    BY <1>1, <1>3, <2>1 DEF WasThere, Stored, Step
  <2>2. CASE Stored(i, what) /\ i \notin DOMAIN docs'
    BY <1>1, <1>3, <2>2 DEF WasThere, Stored, Step, Removed
  <2>3. CASE i \notin DOMAIN docs
    <3>1. i \notin DOMAIN docs'
      <4>1. i = r => FALSE
        BY <1>3, CatalogAssumption DEF WasThere, Old, Step, Answered, NotYetInserted
      <4>2. QED
        BY <2>3, <4>1 DEF Step
    <3>2. QED
      BY <1>1, <1>2, <1>3, <2>3, <3>1 DEF WasThere, Stored
  <2>4. QED
    BY <1>3, <2>1, <2>2, <2>3 DEF WasThere, Stored
<1>4. QED
  BY <1>1, <1>2, <1>3

LEMMA StepKeepsDocs ==
  ASSUME CatalogInv, NEW r \in Requests, Step(r)
  PROVE  StageTellsDeed' /\ IdsAreOld' /\ ParentsAreOld' /\ PricesAreNear'
<1>1. StageTellsDeed'
  BY DEF CatalogInv, StageTellsDeed, Step, Rating1
<1>2. IdsAreOld'
  <2>1. \A i \in DOMAIN docs' : Old(i)'
    BY StepKeepsOld DEF CatalogInv, IdsAreOld, Step, Old
  <2>2. \A i \in DOMAIN docs' \cap DOMAIN Stock : docs'[i].what = Stock[i].what
    BY CatalogAssumption DEF CatalogInv, IdsAreOld, Step
  <2>3. \A q \in Requests : pc'[q] \in Rating1 => (Old(ask[q].id))'
    <3>1. \A q \in Requests : pc'[q] \in Rating1 => Old(ask'[q].id)
      BY DEF CatalogInv, IdsAreOld, Step, Rating1
    <3>2. QED
      BY <3>1, StepKeepsOld DEF Old
  <2>4. QED
    BY <2>1, <2>2, <2>3 DEF IdsAreOld, Rating1
<1>3. ParentsAreOld'
  <2>1. ASSUME NEW i \in DOMAIN docs', docs'[i].what \in HasParent
        PROVE  WasThere(docs'[i].parent, ParentOf[docs'[i].what]) \/ Blanked(i)'
    <3>1. CASE i \notin DOMAIN docs
      BY <2>1, <3>1 DEF CatalogInv, ParentsAreOld, ParentGiven, Step
    <3>2. CASE i \in DOMAIN docs /\ docs'[i].parent = docs[i].parent
      <4>1. Blanked(i) => Blanked(i)'
        BY <2>1, <3>2 DEF Blanked, Step, Answered
      <4>2. QED
        BY <2>1, <3>2, <4>1 DEF CatalogInv, ParentsAreOld, Step
    <3>3. CASE i \in DOMAIN docs /\ docs'[i].parent # docs[i].parent
      <4>1. /\ pc[r] = "checked" /\ ask[r].do = "update" /\ ask[r].what = docs[i].what
            /\ docs'[i].parent = ask[r].parent /\ ask[r].parent # "keep"
            /\ ask[r].id = i /\ pc'[r] = "done" /\ docs'[i].what = docs[i].what
        BY <2>1, <3>3 DEF Step
      <4>2. CASE ParentGiven(ask[r])
        BY <4>1, <4>2 DEF CatalogInv, ParentsAreOld
      <4>3. CASE ~ParentGiven(ask[r])
        <5>1. ask[r].what = "room" /\ ask[r].parent = "blank" /\ ask'[r] = ask[r]
          BY <2>1, <4>1, <4>3 DEF ParentGiven, Step
        <5>2. QED
          BY <4>1, <5>1 DEF Blanked
      <4>4. QED
        BY <4>2, <4>3
    <3>4. QED
      BY <3>1, <3>2, <3>3
  <2>2. ASSUME NEW q \in Requests, pc'[q] = "checked", ParentGiven(ask'[q])
        PROVE  WasThere(ask'[q].parent, ParentOf[ask'[q].what])
    BY <2>2 DEF CatalogInv, ParentsAreOld, IdsAreOld, WasThere, Stored, Step
  <2>3. QED
    BY <2>1, <2>2, StepKeepsOld DEF ParentsAreOld, WasThere, ParentGiven
<1>4. PricesAreNear'
  <2>a. "blank" \notin DOMAIN docs'
    BY CatalogAssumption DEF CatalogInv, TypeOK, Step, Ids
  <2>1. \A i \in DOMAIN docs' : Old(i) => i \in DOMAIN docs
    BY NotYetInserted DEF Step
  <2>2. ASSUME NEW i \in DOMAIN docs' \ touched', docs'[i].what = "room",
               docs'[i].parent \in DOMAIN docs' \ touched'
        PROVE  Near(docs'[i].price, docs'[docs'[i].parent].price)
    <3>1. CASE i \in DOMAIN docs
      <4>1. /\ i \notin touched /\ docs[i].what = "room" /\ docs[i].parent = docs'[i].parent
            /\ docs'[i].price = docs[i].price
        BY <2>2, <3>1 DEF Step
      <4>2. docs[i].parent \in DOMAIN docs \ touched
        BY <2>a, <2>1, <2>2, <3>1, <4>1
           DEF CatalogInv, ParentsAreOld, WasThere, Blanked, HasParent, ParentOf, Step
      <4>3. docs'[docs[i].parent].price = docs[docs[i].parent].price
        BY <2>2, <4>1, <4>2 DEF Step
      <4>4. QED
        BY <3>1, <4>1, <4>2, <4>3 DEF CatalogInv, PricesAreNear
    <3>2. CASE i \notin DOMAIN docs
      <4>1. /\ i = r /\ pc[r] = "checked" /\ ask[r].do = "create" /\ ask[r].what = "room"
            /\ docs'[i].price = ask[r].price /\ docs'[i].parent = ask[r].parent
        BY <2>2, <3>2 DEF Step
      <4>2. ask[r].parent \in DOMAIN docs \ touched
        BY <2>1, <2>2, <4>1 DEF CatalogInv, ParentsAreOld, ParentGiven, WasThere, HasParent,
           ParentOf, Step
      <4>3. docs'[ask[r].parent].price = docs[ask[r].parent].price
        BY <2>2, <4>1, <4>2 DEF Step
      <4>4. QED
        BY <4>1, <4>2, <4>3 DEF CatalogInv, PricesAreNear
    <3>3. QED
      BY <3>1, <3>2
  <2>3. ASSUME NEW q \in Requests, pc'[q] = "checked", ask'[q].do = "create",
               ask'[q].what = "room", ask'[q].parent \in DOMAIN docs' \ touched'
        PROVE  Near(ask'[q].price, docs'[ask'[q].parent].price)
    <3>1. CASE q = r
      BY <2>3, <3>1 DEF Step
    <3>2. CASE q # r
      <4>1. pc[q] = "checked" /\ ask'[q] = ask[q]
        BY <2>3, <3>2 DEF Step
      <4>2. ask[q].parent \in DOMAIN docs \ touched
        BY <2>1, <2>3, <4>1 DEF CatalogInv, ParentsAreOld, ParentGiven, WasThere, HasParent,
           ParentOf, Step
      <4>3. docs'[ask[q].parent].price = docs[ask[q].parent].price
        BY <2>3, <4>1, <4>2 DEF Step
      <4>4. QED
        BY <2>3, <4>1, <4>2, <4>3 DEF CatalogInv, PricesAreNear
    <3>3. QED
      BY <3>1, <3>2
  <2>4. QED
    BY <2>2, <2>3 DEF PricesAreNear, Near
<1>5. QED
  BY <1>1, <1>2, <1>3, <1>4

-----------------------------------------------------------------------------
(* Names. *)

\* If only k is new or renamed, and its name is free, all names stay unique.
LEMMA OneNameChanges ==
  ASSUME NamesAreUnique, NEW k,
         \A i \in DOMAIN docs' \ {k} : /\ i \in DOMAIN docs /\ docs'[i].what = docs[i].what
                                       /\ docs'[i].name = docs[i].name,
         k \in DOMAIN docs' => Free(k, docs'[k].what, docs'[k].name)
  PROVE  NamesAreUnique'
BY DEF NamesAreUnique, Free

LEMMA NamesStayUnique ==
  ASSUME CatalogInv, Next
  PROVE  NamesAreUnique'
<1>1. TypeOK /\ NamesAreUnique
  BY DEF CatalogInv
<1>2. ASSUME DOMAIN docs' \subseteq DOMAIN docs,
             \A i \in DOMAIN docs' : docs'[i].what = docs[i].what /\ docs'[i].name = docs[i].name
      PROVE  NamesAreUnique'
  BY <1>1, <1>2 DEF NamesAreUnique, Free
<1>3. ASSUME NEW r \in Requests, Insert(r) PROVE NamesAreUnique'
  <2> DEFINE a == ask[r]
             doc == [what |-> a.what, parent |-> a.parent, name |-> a.name,
                     price |-> a.price, average |-> 0]
  <2>1. CASE Free(r, a.what, a.name)
    <3>1. Add(r, doc)
      BY <1>3, <2>1 DEF Insert
    <3>2. docs'[r].what = a.what /\ docs'[r].name = a.name
      BY <3>1 DEF Add
    <3>3. \A i \in DOMAIN docs' \ {r} : i \in DOMAIN docs /\ docs'[i] = docs[i]
      BY <3>1 DEF Add
    <3>4. QED
      BY <1>1, <2>1, <3>2, <3>3, OneNameChanges
  <2>2. CASE ~Free(r, a.what, a.name)
    BY <1>2, <1>3, <2>2 DEF Insert
  <2>3. QED
    BY <2>1, <2>2
<1>4. ASSUME NEW r \in Requests, Write(r) PROVE NamesAreUnique'
  <2> DEFINE a == ask[r]
  <2>1. CASE Stored(a.id, a.what) /\ Free(a.id, a.what, a.name)
    <3>1. /\ docs' = [docs EXCEPT ![a.id].parent = IF a.parent = "keep" THEN @ ELSE a.parent,
                                  ![a.id].name = a.name, ![a.id].price = a.price]
          /\ a.id \in DOMAIN docs /\ docs[a.id].what = a.what
      BY <1>4, <2>1 DEF Write, Stored
    <3>2. docs'[a.id].what = a.what /\ docs'[a.id].name = a.name
      BY <1>1, <3>1 DEF TypeOK, Doc
    <3>3. \A i \in DOMAIN docs' \ {a.id} : i \in DOMAIN docs /\ docs'[i] = docs[i]
      BY <1>1, <3>1 DEF TypeOK
    <3>4. QED
      BY <1>1, <2>1, <3>2, <3>3, OneNameChanges
  <2>2. CASE ~(Stored(a.id, a.what) /\ Free(a.id, a.what, a.name))
    BY <1>2, <1>4, <2>2 DEF Write
  <2>3. QED
    BY <2>1, <2>2
<1>5. ASSUME NEW r \in Requests, SaveAverage(r) PROVE NamesAreUnique'
  <2>1. CASE ask[r].id \in DOMAIN docs
    <3>1. PICK mean : docs' = [docs EXCEPT ![ask[r].id].average = mean]
      BY <1>5, <2>1 DEF SaveAverage
    <3>2. QED
      BY <1>1, <1>2, <3>1 DEF TypeOK, Doc
  <2>2. CASE ask[r].id \notin DOMAIN docs
    BY <1>2, <1>5, <2>2 DEF SaveAverage
  <2>3. QED
    BY <2>1, <2>2
<1>6. ASSUME NEW r \in Requests, NEW a \in Asks, Remove(r, a) PROVE NamesAreUnique'
  BY <1>2, <1>6 DEF Remove
<1>7. CASE docs' = docs
  BY <1>2, <1>7
<1>8. ASSUME NEW r \in Requests, NEW a \in Asks,
             LookForCreate(r, a) \/ LookForUpdate(r, a) \/ LookForRating(r, a) \/ StartList(r, a)
      PROVE  docs' = docs
  BY <1>8 DEF LookForCreate, LookForUpdate, LookForRating, StartList
<1>9. ASSUME NEW r \in Requests,
             SaveRating(r) \/ ReadRatings(r) \/ ListRoom(r) \/ ListService(r) \/ ListType(r) \/ Fault(r)
      PROVE  docs' = docs
  BY <1>9 DEF SaveRating, ReadRatings, ListRoom, ListService, ListType, Fault
<1>10. QED
  BY <1>3, <1>4, <1>5, <1>6, <1>7, <1>8, <1>9 DEF Next, Serve, Continue

-----------------------------------------------------------------------------
(* Types. *)

LEMMA EntriesTyped ==
  /\ Len(Entries) \in Nat /\ DOMAIN Entries = 1 .. Len(Entries)
  /\ \A k \in DOMAIN Entries :
       /\ Entries[k].room \in DOMAIN Stock /\ Entries[k].service \in DOMAIN Stock
       /\ Stock[Entries[k].room].what = "room" /\ Stock[Entries[k].service].what = "service"
<1>1. Len(Entries) \in Nat /\ DOMAIN Entries = 1 .. Len(Entries)
  BY CatalogAssumption, LenProperties
<1>2. ASSUME NEW k \in DOMAIN Entries
      PROVE  Entries[k] \in [room : DOMAIN Stock, service : DOMAIN Stock, first : BOOLEAN]
  BY <1>1, CatalogAssumption, ElementOfSeq
<1>3. \A k \in DOMAIN Entries : /\ Stock[Entries[k].room].what = "room"
                               /\ Stock[Entries[k].service].what = "service"
  BY StockAssumption
<1>4. QED
  BY <1>1, <1>2, <1>3

\* A stored service is of a type that was there.
LEMMA ServiceHasType ==
  ASSUME CatalogInv, NEW i \in DOMAIN docs, docs[i].what = "service"
  PROVE  docs[i].parent \in Ids /\ Old(docs[i].parent)
BY CatalogAssumption
   DEF CatalogInv, ParentsAreOld, WasThere, Blanked, Old, Ids, HasParent, ParentOf

LEMMA CatalogTypeNext == CatalogInv /\ [Next]_vars => TypeOK' /\ IsFiniteSet(ratings)'
<1> SUFFICES ASSUME CatalogInv, [Next]_vars PROVE TypeOK' /\ IsFiniteSet(ratings)'
  OBVIOUS
<1> USE DEF InFlight, Answered, Goto, Arrive, rating, listing
<1>1. TypeOK /\ IsFiniteSet(ratings)
  BY DEF CatalogInv
<1>2. ASSUME NEW r \in Requests, NEW a \in Asks, LookForCreate(r, a)
      PROVE  TypeOK' /\ IsFiniteSet(ratings)'
  BY <1>1, <1>2 DEF LookForCreate, TypeOK
<1>3. ASSUME NEW r \in Requests, NEW a \in Asks, LookForUpdate(r, a)
      PROVE  TypeOK' /\ IsFiniteSet(ratings)'
  BY <1>1, <1>3 DEF LookForUpdate, TypeOK
<1>4. ASSUME NEW r \in Requests, NEW a \in Asks, Remove(r, a)
      PROVE  TypeOK' /\ IsFiniteSet(ratings)'
  BY <1>1, <1>4 DEF Remove, TypeOK
<1>5. ASSUME NEW r \in Requests, NEW a \in Asks, LookForRating(r, a)
      PROVE  TypeOK' /\ IsFiniteSet(ratings)'
  BY <1>1, <1>5 DEF LookForRating, TypeOK, Stored, Doc
<1>6. ASSUME NEW r \in Requests, NEW a \in Asks, StartList(r, a)
      PROVE  TypeOK' /\ IsFiniteSet(ratings)'
  <2> DEFINE now == {<<i, docs[i].parent>> : i \in {j \in DOMAIN docs : docs[j].what = "service"}}
  <2>1. now \subseteq Ids \X Ids
    BY <1>1, ServiceHasType DEF TypeOK
  <2>2. had' = [had EXCEPT ![r] = now]
    BY <1>6 DEF StartList
  <2> HIDE DEF now
  <2>3. QED
    BY <1>1, <1>6, <2>1, <2>2 DEF StartList, TypeOK
<1>7. ASSUME NEW r \in Requests, Insert(r) PROVE TypeOK' /\ IsFiniteSet(ratings)'
  <2> DEFINE doc == [what |-> ask[r].what, parent |-> ask[r].parent, name |-> ask[r].name,
                     price |-> ask[r].price, average |-> 0]
  <2>1. CASE Free(r, ask[r].what, ask[r].name)
    <3>1. Add(r, doc)
      BY <1>7, <2>1 DEF Insert
    <3>2. ask[r] \in AskType /\ ask[r].parent # "any"
      BY <1>1, <1>7, CatalogAssumption DEF Insert, TypeOK, Lists
    <3>3. doc \in Doc
      BY <3>2 DEF AskType, Doc
    <3> HIDE DEF doc
    <3>4. DOMAIN docs' \subseteq Ids /\ docs' \in [DOMAIN docs' -> Doc]
      BY <1>1, <3>1, <3>3 DEF Add, TypeOK, Ids
    <3>5. QED
      BY <1>1, <1>7, <3>4 DEF Insert, TypeOK
  <2>2. CASE ~Free(r, ask[r].what, ask[r].name)
    BY <1>1, <1>7, <2>2 DEF Insert, TypeOK
  <2>3. QED
    BY <2>1, <2>2
<1>8. ASSUME NEW r \in Requests, Write(r) PROVE TypeOK' /\ IsFiniteSet(ratings)'
  <2> DEFINE a == ask[r]
  <2>1. CASE Stored(a.id, a.what) /\ Free(a.id, a.what, a.name)
    <3>1. /\ docs' = [docs EXCEPT ![a.id].parent = IF a.parent = "keep" THEN @ ELSE a.parent,
                                  ![a.id].name = a.name, ![a.id].price = a.price]
          /\ a.id \in DOMAIN docs /\ a.id \in Ids
      BY <1>1, <1>8, <2>1 DEF Write, Stored, TypeOK
    <3>2. a \in AskType /\ a.parent # "any"
      BY <1>1, <1>8, CatalogAssumption DEF Write, TypeOK, Lists
    <3>3. DOMAIN docs' = DOMAIN docs /\ docs' \in [DOMAIN docs -> Doc]
      <4> DEFINE p == IF a.parent = "keep" THEN docs[a.id].parent ELSE a.parent
                 new == [docs[a.id] EXCEPT !.parent = p, !.name = a.name, !.price = a.price]
      <4>1. docs[a.id] \in Doc
        BY <1>1, <3>1 DEF TypeOK
      <4>2. p \in Ids \cup {"keep", "blank"} /\ a.name \in Names /\ a.price \in Prices
        BY <3>2, <4>1 DEF AskType, Doc
      <4> HIDE DEF p
      <4>3. new \in Doc
        BY <4>1, <4>2 DEF Doc
      <4>4. docs' = [docs EXCEPT ![a.id] = new]
        BY <1>1, <3>1, <4>1 DEF TypeOK, Doc, p
      <4> HIDE DEF new
      <4>5. QED
        BY <1>1, <3>1, <4>3, <4>4 DEF TypeOK
    <3>4. a.what = "service" => a.parent \in Ids
      BY <1>8, <3>2 DEF Write, CatalogInv, ParentsAreOld, ParentGiven, WasThere, Old, Ids,
         HasParent, ParentOf
    <3>5. had' \in [Requests -> SUBSET (Ids \X Ids)]
      BY <1>1, <1>8, <2>1, <3>1, <3>4 DEF Write, TypeOK
    <3>6. QED
      BY <1>1, <1>8, <2>1, <3>1, <3>3, <3>5 DEF Write, TypeOK
  <2>2. CASE ~(Stored(a.id, a.what) /\ Free(a.id, a.what, a.name))
    BY <1>1, <1>8, <2>2 DEF Write, TypeOK
  <2>3. QED
    BY <2>1, <2>2
<1>9. ASSUME NEW r \in Requests, SaveRating(r) PROVE TypeOK' /\ IsFiniteSet(ratings)'
  <2> DEFINE t == [room |-> ask[r].id, score |-> ask[r].score, by |-> r]
  <2>1. t \in Rating
    <3>1. ask[r] \in AskType
      BY <1>1, CatalogAssumption DEF TypeOK
    <3>2. ask[r].id \in Ids
      BY <1>9, CatalogAssumption DEF SaveRating, CatalogInv, IdsAreOld, Old, Rating1, Ids
    <3>3. QED
      BY <3>1, <3>2 DEF AskType, Rating
  <2>2. ratings' = ratings \cup {t}
    BY <1>9 DEF SaveRating
  <2> HIDE DEF t
  <2>3. IsFiniteSet(ratings')
    BY <1>1, <2>2, FS_AddElement
  <2>4. QED
    BY <1>1, <1>9, <2>1, <2>2, <2>3 DEF SaveRating, TypeOK
<1>10. ASSUME NEW r \in Requests, ReadRatings(r) PROVE TypeOK' /\ IsFiniteSet(ratings)'
  BY <1>1, <1>10 DEF ReadRatings, RatingsOf, TypeOK
<1>11. ASSUME NEW r \in Requests, SaveAverage(r) PROVE TypeOK' /\ IsFiniteSet(ratings)'
  <2>1. CASE ask[r].id \in DOMAIN docs
    <3>1. averaged[r] \in SUBSET Rating /\ averaged[r] \subseteq ratings
      BY <1>1, <1>11 DEF SaveAverage, CatalogInv, RatingsAreOfRooms, RatingsOf, TypeOK
    <3>2. Mean(averaged[r]) \in Nat
      BY <1>1, <3>1, FS_Subset, MeanTyped
    <3>3. PICK mean \in Nat : docs' = [docs EXCEPT ![ask[r].id].average = mean]
      <4>1. docs[ask[r].id].average \in Nat
        BY <1>1, <2>1 DEF TypeOK, Doc
      <4>2. QED
        BY <1>11, <2>1, <3>2, <4>1 DEF SaveAverage
    <3>4. docs' \in [DOMAIN docs -> Doc]
      BY <1>1, <3>3 DEF TypeOK, Doc
    <3>5. QED
      BY <1>1, <1>11, <2>1, <3>4 DEF SaveAverage, TypeOK
  <2>2. CASE ask[r].id \notin DOMAIN docs
    BY <1>1, <1>11, <2>2 DEF SaveAverage, TypeOK
  <2>3. QED
    BY <2>1, <2>2
<1>12. ASSUME NEW r \in Requests, ListRoom(r) PROVE TypeOK' /\ IsFiniteSet(ratings)'
  BY <1>1, <1>12 DEF ListRoom, TypeOK
<1>13. ASSUME NEW r \in Requests,
              pc[r] \in {"booking", "service", "type"}
       PROVE  pos[r] \in 1 .. Len(Entries) /\ pos[r] + 1 \in 1 .. Len(Entries) + 1
  BY <1>13, EntriesTyped DEF CatalogInv, ListsAreRight, ListIsRight, Listing
<1>14. ASSUME NEW r \in Requests, ListService(r) PROVE TypeOK' /\ IsFiniteSet(ratings)'
  <2>1. pos[r] \in DOMAIN Entries
    BY <1>13, <1>14, EntriesTyped DEF ListService
  <2>2. Entry(r).service \in DOMAIN docs => docs[Entry(r).service].parent \in Ids
    BY <2>1, EntriesTyped, ServiceHasType DEF Entry, CatalogInv, IdsAreOld
  <2>3. QED
    BY <1>1, <1>13, <1>14, <2>2 DEF ListService, NextEntry, Resume, TypeOK
<1>15. ASSUME NEW r \in Requests, ListType(r) PROVE TypeOK' /\ IsFiniteSet(ratings)'
  <2>1. pos[r] \in DOMAIN Entries
    BY <1>13, <1>15, EntriesTyped DEF ListType
  <2>2. CASE type[r] \in DOMAIN docs
    <3>1. PICK more \in SUBSET DOMAIN Entries : listed' = [listed EXCEPT ![r] = @ \cup more]
      BY <1>15, <2>1, <2>2 DEF ListType
    <3>2. QED
      BY <1>1, <1>13, <1>15, <2>2, <3>1 DEF ListType, NextEntry, Resume, TypeOK
  <2>3. CASE type[r] \notin DOMAIN docs
    BY <1>1, <1>15, <2>3 DEF ListType, TypeOK
  <2>4. QED
    BY <2>2, <2>3
<1>16. ASSUME NEW r \in Requests, Fault(r) PROVE TypeOK' /\ IsFiniteSet(ratings)'
  BY <1>1, <1>16 DEF Fault, TypeOK
<1>17. CASE UNCHANGED vars
  BY <1>1, <1>17 DEF vars, TypeOK
<1>18. QED
  BY <1>2, <1>3, <1>4, <1>5, <1>6, <1>7, <1>8, <1>9, <1>10, <1>11, <1>12, <1>14, <1>15, <1>16,
     <1>17 DEF Next, Serve, Continue

-----------------------------------------------------------------------------
(* Ratings. *)

RatingsHold == RatingsAreOfRooms /\ AverageOfRatings /\ AloneSeesAll

\* A step that no rating takes, and that leaves the averages alone.
Unrated(r) ==
  /\ Step(r) /\ pc'[r] \notin Rating1
  /\ ratings' = ratings /\ seen' = seen /\ averaged' = averaged /\ alone' = alone
  /\ \A i \in DOMAIN docs \cap DOMAIN docs' : docs'[i].average = docs[i].average
  /\ \A i \in DOMAIN docs' \ DOMAIN docs : docs'[i].average = 0

LEMMA StepUnrated ==
  ASSUME CatalogInv, NEW r \in Requests, NEW a \in Asks,
         \/ LookForCreate(r, a) \/ LookForUpdate(r, a) \/ Remove(r, a) \/ StartList(r, a)
         \/ Insert(r) \/ Write(r) \/ ListRoom(r) \/ ListService(r) \/ ListType(r) \/ Fault(r)
  PROVE  Unrated(r)
<1> USE DEF Goto, Arrive, Rating1, rating, listing, Unrated
<1>1. TypeOK /\ Step(r)
  BY ServeSteps, ContinueSteps DEF CatalogInv, Serve, Continue
<1>2. CASE LookForCreate(r, a) \/ LookForUpdate(r, a)
  BY <1>1, <1>2 DEF LookForCreate, LookForUpdate, TypeOK
<1>3. CASE Remove(r, a)
  BY <1>1, <1>3 DEF Remove, TypeOK
<1>4. CASE StartList(r, a)
  BY <1>1, <1>4 DEF StartList, TypeOK
<1>5. CASE Insert(r)
  <2>1. CASE Free(r, ask[r].what, ask[r].name)
    <3> DEFINE doc == [what |-> ask[r].what, parent |-> ask[r].parent, name |-> ask[r].name,
                       price |-> ask[r].price, average |-> 0]
    <3>1. Add(r, doc) /\ r \notin DOMAIN docs
      BY <1>5, <2>1, NotYetInserted DEF Insert
    <3>2. DOMAIN docs' = DOMAIN docs \cup {r} /\ docs'[r].average = 0
          /\ \A i \in DOMAIN docs : docs'[i] = docs[i]
      BY <3>1 DEF Add
    <3>3. QED
      BY <1>1, <1>5, <3>2 DEF Insert, TypeOK
  <2>2. CASE ~Free(r, ask[r].what, ask[r].name)
    BY <1>1, <1>5, <2>2 DEF Insert, TypeOK
  <2>3. QED
    BY <2>1, <2>2
<1>6. CASE Write(r)
  <2> DEFINE b == ask[r]
  <2>1. CASE Stored(b.id, b.what) /\ Free(b.id, b.what, b.name)
    <3>1. PICK p : docs' = [docs EXCEPT ![b.id].parent = p, ![b.id].name = b.name,
                                        ![b.id].price = b.price]
      BY <1>6, <2>1 DEF Write
    <3>2. \A i \in DOMAIN docs : docs'[i].average = docs[i].average
      BY <1>1, <3>1 DEF TypeOK, Doc
    <3>3. QED
      BY <1>1, <1>6, <3>1, <3>2 DEF Write, TypeOK
  <2>2. CASE ~(Stored(b.id, b.what) /\ Free(b.id, b.what, b.name))
    BY <1>1, <1>6, <2>2 DEF Write, TypeOK
  <2>3. QED
    BY <2>1, <2>2
<1>7. CASE ListRoom(r)
  BY <1>1, <1>7 DEF ListRoom, TypeOK
<1>8. CASE ListService(r)
  BY <1>1, <1>8 DEF ListService, NextEntry, Resume, TypeOK
<1>9. CASE ListType(r)
  BY <1>1, <1>9 DEF ListType, NextEntry, Resume, TypeOK
<1>10. CASE Fault(r)
  BY <1>1, <1>10 DEF Fault, TypeOK
<1>11. QED
  BY <1>2, <1>3, <1>4, <1>5, <1>6, <1>7, <1>8, <1>9, <1>10

LEMMA UnratedHolds ==
  ASSUME CatalogInv, NEW r \in Requests, Unrated(r)
  PROVE  RatingsHold'
<1> USE DEF Unrated
<1>1. \A q \in Requests : pc'[q] \in Rating1 => q # r /\ pc[q] = pc'[q] /\ ask'[q] = ask[q]
  BY DEF Step
<1>2. RatingsAreOfRooms'
  BY <1>1 DEF CatalogInv, RatingsAreOfRooms, RatingsOf, Rating1
<1>3. AverageOfRatings'
  <2> SUFFICES ASSUME NEW i \in DOMAIN docs', docs'[i].what = "room"
               PROVE  \E some \in SUBSET RatingsOf(i) : docs'[i].average = Mean(some)
    BY DEF AverageOfRatings, RatingsOf
  <2>1. CASE i \in DOMAIN docs
    BY <2>1 DEF CatalogInv, AverageOfRatings, Step
  <2>2. CASE i \notin DOMAIN docs
    <3>1. Mean({}) = 0 /\ {} \in SUBSET RatingsOf(i)
      BY DEF Mean
    <3>2. QED
      BY <2>2, <3>1
  <2>3. QED
    BY <2>1, <2>2
<1>4. AloneSeesAll'
  <2>1. \A q \in Requests : pc'[q] \in Rating1 /\ ask[q].id \in DOMAIN docs' => ask[q].id \in DOMAIN docs
    BY <1>1, NotYetInserted DEF CatalogInv, IdsAreOld, Step
  <2>2. QED
    BY <1>1, <2>1 DEF CatalogInv, AloneSeesAll, RatingsOf, Rating1
<1>5. QED
  BY <1>2, <1>3, <1>4 DEF RatingsHold

LEMMA LookForRatingHolds ==
  ASSUME CatalogInv, NEW r \in Requests, NEW a \in Asks, LookForRating(r, a)
  PROVE  RatingsHold'
<1> USE DEF Goto, Arrive, Rating1
<1>1. /\ TypeOK /\ docs' = docs /\ ratings' = ratings /\ averaged' = averaged
      /\ pc[r] = "idle" /\ ask'[r] = a /\ pc'[r] \in {"rated", "refused"}
      /\ \A q \in Requests \ {r} : pc'[q] = pc[q] /\ ask'[q] = ask[q] /\ seen'[q] = seen[q]
                                   /\ (alone'[q] => alone[q])
  BY DEF LookForRating, CatalogInv, TypeOK
<1>2. pc'[r] = "rated" =>
        /\ seen'[r] = docs[a.id].average
        /\ \A q \in Requests : /\ alone'[q] /\ pc[q] \in Rating1 => ask[q].id # a.id
                               /\ alone'[r] /\ pc[q] \in Rating1 => ask[q].id # a.id
  BY <1>1 DEF LookForRating, TypeOK
<1>3. RatingsAreOfRooms' /\ AverageOfRatings'
  BY <1>1 DEF CatalogInv, RatingsAreOfRooms, AverageOfRatings, RatingsOf
<1>4. AloneSeesAll'
  <2> SUFFICES ASSUME NEW q \in Requests, pc'[q] \in Rating1, alone'[q]
               PROVE  /\ \A o \in Requests : pc'[o] \in Rating1 /\ ask'[o].id = ask'[q].id => o = q
                      /\ ask'[q].id \in DOMAIN docs => seen'[q] = docs[ask'[q].id].average
                      /\ pc'[q] = "averaged" => averaged[q] = RatingsOf(ask'[q].id)
    BY <1>1 DEF AloneSeesAll, RatingsOf
  <2>1. CASE q = r
    BY <1>1, <1>2, <2>1
  <2>2. CASE q # r
    BY <1>1, <1>2, <2>2 DEF CatalogInv, AloneSeesAll
  <2>3. QED
    BY <2>1, <2>2
<1>5. QED
  BY <1>3, <1>4 DEF RatingsHold

LEMMA SaveRatingHolds ==
  ASSUME CatalogInv, NEW r \in Requests, SaveRating(r)
  PROVE  RatingsHold'
<1> USE DEF Goto, Rating1
<1>1. /\ TypeOK /\ docs' = docs /\ averaged' = averaged /\ seen' = seen /\ alone' = alone
      /\ ask' = ask /\ pc[r] = "rated" /\ pc'[r] = "stored"
      /\ \A q \in Requests \ {r} : pc'[q] = pc[q]
  BY DEF SaveRating, CatalogInv, TypeOK
<1>2. PICK t : ratings' = ratings \cup {t} /\ t.room = ask[r].id
  <2> DEFINE t == [room |-> ask[r].id, score |-> ask[r].score, by |-> r]
  <2>1. ratings' = ratings \cup {t} /\ t.room = ask[r].id
    BY DEF SaveRating
  <2> HIDE DEF t
  <2>2. QED
    BY <2>1
<1>3. /\ \A i : RatingsOf(i) \subseteq RatingsOf(i)'
      /\ \A i : i # ask[r].id => RatingsOf(i)' = RatingsOf(i)
  BY <1>2 DEF RatingsOf
<1>4. RatingsAreOfRooms'
  BY <1>1, <1>3 DEF CatalogInv, RatingsAreOfRooms
<1>5. AverageOfRatings'
  BY <1>1, <1>3 DEF CatalogInv, AverageOfRatings
<1>6. AloneSeesAll'
  <2> SUFFICES ASSUME NEW q \in Requests, pc'[q] \in Rating1, alone[q]
               PROVE  /\ \A o \in Requests : pc'[o] \in Rating1 /\ ask[o].id = ask[q].id => o = q
                      /\ ask[q].id \in DOMAIN docs => seen[q] = docs[ask[q].id].average
                      /\ pc'[q] = "averaged" => averaged[q] = RatingsOf(ask[q].id)'
    BY <1>1 DEF AloneSeesAll
  <2>1. CASE q = r
    BY <1>1, <2>1 DEF CatalogInv, AloneSeesAll
  <2>2. CASE q # r
    BY <1>1, <1>3, <2>2 DEF CatalogInv, AloneSeesAll
  <2>3. QED
    BY <2>1, <2>2
<1>7. QED
  BY <1>4, <1>5, <1>6 DEF RatingsHold

LEMMA ReadRatingsHolds ==
  ASSUME CatalogInv, NEW r \in Requests, ReadRatings(r)
  PROVE  RatingsHold'
<1> USE DEF Goto, Rating1
<1>1. /\ docs' = docs /\ ratings' = ratings /\ seen' = seen /\ alone' = alone /\ ask' = ask
      /\ pc[r] = "stored" /\ pc'[r] = "averaged" /\ averaged'[r] = RatingsOf(ask[r].id)
      /\ \A q \in Requests \ {r} : pc'[q] = pc[q] /\ averaged'[q] = averaged[q]
  BY DEF ReadRatings, CatalogInv, TypeOK
<1>2. RatingsAreOfRooms'
  BY <1>1 DEF CatalogInv, RatingsAreOfRooms, RatingsOf
<1>3. AverageOfRatings'
  BY <1>1 DEF CatalogInv, AverageOfRatings, RatingsOf
<1>4. AloneSeesAll'
  BY <1>1 DEF CatalogInv, AloneSeesAll, RatingsOf
<1>5. QED
  BY <1>2, <1>3, <1>4 DEF RatingsHold

\* What a rating leaves at its room.
LEMMA AverageSaved ==
  ASSUME CatalogInv, NEW r \in Requests, SaveAverage(r), ask[r].id \in DOMAIN docs
  PROVE  /\ DOMAIN docs' = DOMAIN docs
         /\ \A i \in DOMAIN docs : /\ docs'[i].what = docs[i].what
                                   /\ i # ask[r].id => docs'[i] = docs[i]
         /\ \/ docs'[ask[r].id].average = Mean(averaged[r])
            \/ docs'[ask[r].id].average = docs[ask[r].id].average
         /\ alone[r] => docs'[ask[r].id].average = Mean(RatingsOf(ask[r].id))
<1> DEFINE room == ask[r].id
           mean == Mean(averaged[r])
           kept == docs[room].average
<1>1. TypeOK /\ pc[r] = "averaged"
  BY DEF CatalogInv, SaveAverage
<1>2. docs' = [docs EXCEPT ![room].average = IF mean = seen[r] THEN kept ELSE mean]
  BY <1>1 DEF SaveAverage, TypeOK, Doc
<1>3. alone[r] => averaged[r] = RatingsOf(room) /\ seen[r] = kept
  BY <1>1 DEF CatalogInv, AloneSeesAll, Rating1
<1> HIDE DEF mean, kept
<1>4. PICK v : v = IF mean = seen[r] THEN kept ELSE mean
  OBVIOUS
<1>5. docs' = [docs EXCEPT ![room].average = v] /\ room \in DOMAIN docs
  BY <1>2, <1>4
<1>6. docs'[room].average = v /\ docs'[room].what = docs[room].what
  BY <1>1, <1>5 DEF TypeOK, Doc
<1>7. DOMAIN docs' = DOMAIN docs /\ \A i \in DOMAIN docs : i # room => docs'[i] = docs[i]
  BY <1>1, <1>5 DEF TypeOK
<1>8. v = mean \/ v = kept
  BY <1>4
<1>9. alone[r] => v = Mean(RatingsOf(room))
  BY <1>3, <1>4 DEF mean
<1>10. QED
  BY <1>6, <1>7, <1>8, <1>9 DEF mean, kept

LEMMA SaveAverageHolds ==
  ASSUME CatalogInv, NEW r \in Requests, SaveAverage(r)
  PROVE  RatingsHold'
<1> USE DEF Goto, Rating1
<1>1. /\ ratings' = ratings /\ seen' = seen /\ alone' = alone /\ ask' = ask /\ averaged' = averaged
      /\ pc[r] = "averaged" /\ pc'[r] \in {"done", "failed"}
      /\ \A q \in Requests \ {r} : pc'[q] = pc[q]
  BY DEF SaveAverage, CatalogInv, TypeOK, rating
<1>2. RatingsAreOfRooms'
  BY <1>1 DEF CatalogInv, RatingsAreOfRooms, RatingsOf
<1>3. CASE ask[r].id \in DOMAIN docs
  <2> DEFINE room == ask[r].id
  <2>0. /\ DOMAIN docs' = DOMAIN docs
        /\ \A i \in DOMAIN docs : /\ docs'[i].what = docs[i].what
                                  /\ i # room => docs'[i] = docs[i]
        /\ \/ docs'[room].average = Mean(averaged[r])
           \/ docs'[room].average = docs[room].average
    BY <1>3, AverageSaved
  <2>1. AverageOfRatings'
    <3> SUFFICES ASSUME NEW i \in DOMAIN docs, docs[i].what = "room"
                 PROVE  \E some \in SUBSET RatingsOf(i) : docs'[i].average = Mean(some)
      BY <1>1, <2>0 DEF AverageOfRatings, RatingsOf
    <3>1. averaged[r] \in SUBSET RatingsOf(ask[r].id)
      BY <1>1 DEF CatalogInv, RatingsAreOfRooms
    <3>2. \E some \in SUBSET RatingsOf(i) : docs[i].average = Mean(some)
      BY DEF CatalogInv, AverageOfRatings
    <3>3. QED
      BY <2>0, <3>1, <3>2
  <2>2. AloneSeesAll'
    <3> SUFFICES ASSUME NEW q \in Requests, pc[q] \in Rating1, alone[q], q # r
                 PROVE  /\ \A o \in Requests : pc[o] \in Rating1 /\ ask[o].id = ask[q].id => o = q
                        /\ ask[q].id \in DOMAIN docs => seen[q] = docs'[ask[q].id].average
                        /\ pc[q] = "averaged" => averaged[q] = RatingsOf(ask[q].id)
      BY <1>1, <2>0 DEF AloneSeesAll, RatingsOf
    <3>1. ask[q].id # room
      BY <1>1 DEF CatalogInv, AloneSeesAll
    <3>2. QED
      BY <2>0, <3>1 DEF CatalogInv, AloneSeesAll
  <2>3. QED
    BY <1>2, <2>1, <2>2 DEF RatingsHold
<1>4. CASE ask[r].id \notin DOMAIN docs
  <2>1. docs' = docs
    BY <1>4 DEF SaveAverage
  <2>2. AverageOfRatings' /\ AloneSeesAll'
    BY <1>1, <2>1 DEF CatalogInv, AverageOfRatings, AloneSeesAll, RatingsOf
  <2>3. QED
    BY <1>2, <2>2 DEF RatingsHold
<1>5. QED
  BY <1>3, <1>4

-----------------------------------------------------------------------------
(* Lists. *)

ListsAreKept == ListsAreRight /\ ListsFailOverRemovals

\* What a failed list has met.
Missed(r) ==
  \E k \in DOMAIN Entries :
    \/ {Entries[k].room, Entries[k].service} \ DOMAIN docs # {}
    \/ \E p \in had[r] : p[1] = Entries[k].service /\ p[2] \notin DOMAIN docs

\* What was there and is gone does not come back.
LEMMA GoneForGood ==
  ASSUME CatalogInv, NEW r \in Requests, Step(r)
  PROVE  /\ \A i : Old(i) /\ i \notin DOMAIN docs => i \notin DOMAIN docs'
         /\ \A q \in Requests : Missed(q) /\ had[q] \subseteq had'[q] => Missed(q)'
<1>1. \A i : Old(i) /\ i \notin DOMAIN docs => i \notin DOMAIN docs'
  BY NotYetInserted DEF Step
<1>2. ASSUME NEW q \in Requests, Missed(q), had[q] \subseteq had'[q] PROVE Missed(q)'
  <2>1. PICK k \in DOMAIN Entries :
          \/ Entries[k].room \notin DOMAIN docs \/ Entries[k].service \notin DOMAIN docs
          \/ \E p \in had[q] : p[1] = Entries[k].service /\ p[2] \notin DOMAIN docs
    BY <1>2 DEF Missed
  <2>2. Old(Entries[k].room) /\ Old(Entries[k].service)
    BY EntriesTyped DEF Old
  <2>3. \A p \in had[q] : Old(p[2])
    BY DEF CatalogInv, ListsAreRight, ListIsRight
  <2>4. \/ Entries[k].room \notin DOMAIN docs' \/ Entries[k].service \notin DOMAIN docs'
        \/ \E p \in had'[q] : p[1] = Entries[k].service /\ p[2] \notin DOMAIN docs'
    BY <1>1, <1>2, <2>1, <2>2, <2>3
  <2>5. QED
    BY <2>4 DEF Missed
<1>3. QED
  BY <1>1, <1>2

\* A list that another request leaves alone stays right, and may learn of more
\* types.
LEMMA OthersStayRight ==
  ASSUME CatalogInv, NEW r \in Requests, Step(r),
         NEW q \in Requests, pc'[q] = pc[q], ask'[q] = ask[q], pos'[q] = pos[q],
         type'[q] = type[q], listed'[q] = listed[q], had[q] \subseteq had'[q],
         \A p \in had'[q] : Old(p[2])',
         pc[q] \in Listing => \A i \in DOMAIN docs' \cap DOMAIN Stock :
           docs'[i].what = "service" => <<i, docs'[i].parent>> \in had'[q]
  PROVE  ListIsRight(q)'
<1>1. ListIsRight(q)
  BY DEF CatalogInv, ListsAreRight
<1>2. ASSUME NEW k, RightAbout(q, k) PROVE RightAbout(q, k)'
  <2>1. TypesHad(q, k) \subseteq TypesHad(q, k)'
    BY DEF TypesHad
  <2>2. \A t : Fits(q, t)' <=> Fits(q, t)
    BY DEF Fits
  <2>3. QED
    BY <1>2, <2>1, <2>2 DEF RightAbout
<1>3. \A k : TypesHad(q, k) \subseteq TypesHad(q, k)'
  BY DEF TypesHad
<1>4. QED
  BY <1>1, <1>2, <1>3 DEF ListIsRight

\* A step that no list takes.
Unlisted(r) ==
  /\ Step(r) /\ pos' = pos /\ type' = type /\ listed' = listed
  /\ pc'[r] \notin {"idle"} \cup Listing /\ ask'[r].do \notin Lists
  /\ \A q \in Requests : had[q] \subseteq had'[q] /\ \A p \in had'[q] : Old(p[2])
  /\ \A q \in Requests : pc[q] \in Listing =>
       \A i \in DOMAIN docs' \cap DOMAIN Stock :
         docs'[i].what = "service" => <<i, docs'[i].parent>> \in had'[q]

LEMMA StepUnlisted ==
  ASSUME CatalogInv, NEW r \in Requests, NEW a \in Asks,
         \/ LookForCreate(r, a) \/ LookForUpdate(r, a) \/ Remove(r, a) \/ LookForRating(r, a)
         \/ Insert(r) \/ Write(r) \/ SaveRating(r) \/ ReadRatings(r) \/ SaveAverage(r) \/ Fault(r)
  PROVE  Unlisted(r)
<1> USE DEF Goto, Arrive, Rating1, rating, listing, Listing, Lists
<1>1. TypeOK /\ StageTellsDeed /\ Step(r)
  BY ServeSteps, ContinueSteps DEF CatalogInv, Serve, Continue
<1>2. \A q \in Requests : \A p \in had[q] : Old(p[2])
  BY DEF CatalogInv, ListsAreRight, ListIsRight
<1>3. \A q \in Requests : pc[q] \in Listing => \A i \in DOMAIN docs \cap DOMAIN Stock :
        docs[i].what = "service" => <<i, docs[i].parent>> \in had[q]
  BY DEF CatalogInv, ListsAreRight, ListIsRight
<1>4. ASSUME had' = had, \A i \in DOMAIN docs' \cap DOMAIN Stock :
                           /\ i \in DOMAIN docs /\ docs'[i].what = docs[i].what
                           /\ docs'[i].what = "service" => docs'[i].parent = docs[i].parent
      PROVE  /\ \A q \in Requests : had[q] \subseteq had'[q] /\ \A p \in had'[q] : Old(p[2])
             /\ \A q \in Requests : pc[q] \in Listing =>
                  \A i \in DOMAIN docs' \cap DOMAIN Stock :
                    docs'[i].what = "service" => <<i, docs'[i].parent>> \in had'[q]
  BY <1>2, <1>3, <1>4
<1>5. CASE LookForCreate(r, a) \/ LookForUpdate(r, a) \/ LookForRating(r, a)
  <2>1. docs' = docs /\ had' = had /\ pos' = pos /\ type' = type /\ listed' = listed
        /\ ask'[r].do \notin Lists /\ pc'[r] \notin {"idle"} \cup Listing
    BY <1>1, <1>5 DEF LookForCreate, LookForUpdate, LookForRating, TypeOK
  <2>2. QED
    BY <1>1, <1>4, <2>1 DEF Unlisted
<1>6. CASE Remove(r, a)
  <2>1. had' = had /\ pos' = pos /\ type' = type /\ listed' = listed
        /\ ask'[r].do \notin Lists /\ pc'[r] \notin {"idle"} \cup Listing
    BY <1>1, <1>6 DEF Remove, TypeOK
  <2>2. \A i \in DOMAIN docs' : i \in DOMAIN docs /\ docs'[i] = docs[i]
    BY <1>6 DEF Remove
  <2>3. QED
    BY <1>1, <1>4, <2>1, <2>2 DEF Unlisted
<1>7. CASE Insert(r)
  <2>1. had' = had /\ pos' = pos /\ type' = type /\ listed' = listed
        /\ ask'[r].do \notin Lists /\ pc'[r] \notin {"idle"} \cup Listing
    BY <1>1, <1>7 DEF Insert, TypeOK
  <2>2. \A i \in DOMAIN docs' \cap DOMAIN Stock : i \in DOMAIN docs /\ docs'[i] = docs[i]
    BY <1>7, CatalogAssumption DEF Insert, Add
  <2>3. QED
    BY <1>1, <1>4, <2>1, <2>2 DEF Unlisted
<1>8. CASE Write(r)
  <2> DEFINE b == ask[r]
  <2>1. pos' = pos /\ type' = type /\ listed' = listed
        /\ ask'[r].do \notin Lists /\ pc'[r] \notin {"idle"} \cup Listing
    BY <1>1, <1>8 DEF Write, TypeOK
  <2>2. CASE Stored(b.id, b.what) /\ Free(b.id, b.what, b.name)
    <3>1. /\ docs' = [docs EXCEPT ![b.id].parent = IF b.parent = "keep" THEN @ ELSE b.parent,
                                  ![b.id].name = b.name, ![b.id].price = b.price]
          /\ had' = [q \in Requests |->
                       IF b.what = "service" /\ pc[q] \in InFlight /\ ask[q].do \in Lists
                       THEN had[q] \cup {<<b.id, b.parent>>} ELSE had[q]]
          /\ b.id \in DOMAIN docs /\ docs[b.id].what = b.what /\ pc[r] = "checked"
          /\ b.do = "update"
      BY <1>8, <2>2 DEF Write, Stored
    <3>2. DOMAIN docs' = DOMAIN docs /\ \A i \in DOMAIN docs : i # b.id => docs'[i] = docs[i]
      BY <1>1, <3>1 DEF TypeOK
    <3>3. docs'[b.id].what = b.what
          /\ docs'[b.id].parent = IF b.parent = "keep" THEN docs[b.id].parent ELSE b.parent
      BY <1>1, <3>1 DEF TypeOK, Doc
    <3>4. b.what = "service" => Old(b.parent) /\ b.parent # "keep"
      <4>1. b.what = "service" => Old(b.parent)
        BY <3>1 DEF CatalogInv, ParentsAreOld, ParentGiven, WasThere, HasParent, ParentOf
      <4>2. ~Old("keep")
        BY CatalogAssumption DEF Old, Ids
      <4>3. QED
        BY <4>1, <4>2
    <3>5. CASE b.what # "service"
      <4>1. had' = had
        BY <1>1, <3>1, <3>5 DEF TypeOK
      <4>2. QED
        BY <1>1, <1>4, <2>1, <3>1, <3>2, <3>3, <3>5, <4>1 DEF Unlisted
    <3>6. CASE b.what = "service"
      <4>1. \A q \in Requests : had[q] \subseteq had'[q] /\ \A p \in had'[q] : Old(p[2])
        BY <1>2, <3>1, <3>4, <3>6
      <4>2. ASSUME NEW q \in Requests, pc[q] \in Listing,
                   NEW i \in DOMAIN docs' \cap DOMAIN Stock, docs'[i].what = "service"
            PROVE  <<i, docs'[i].parent>> \in had'[q]
        <5>1. CASE i = b.id
          BY <1>1, <3>1, <3>3, <3>4, <3>6, <4>2, <5>1 DEF InFlight, StageTellsDeed
        <5>2. CASE i # b.id
          BY <1>3, <3>2, <4>1, <4>2, <5>2
        <5>3. QED
          BY <5>1, <5>2
      <4>3. QED
        BY <1>1, <2>1, <4>1, <4>2 DEF Unlisted
    <3>7. QED
      BY <3>5, <3>6
  <2>3. CASE ~(Stored(b.id, b.what) /\ Free(b.id, b.what, b.name))
    <3>1. docs' = docs /\ had' = had
      BY <1>8, <2>3 DEF Write
    <3>2. QED
      BY <1>1, <1>4, <2>1, <3>1 DEF Unlisted
  <2>4. QED
    BY <2>2, <2>3
<1>9. CASE SaveRating(r) \/ ReadRatings(r) \/ Fault(r)
  <2>1. docs' = docs /\ had' = had /\ pos' = pos /\ type' = type /\ listed' = listed
        /\ ask'[r].do \notin Lists /\ pc'[r] \notin {"idle"} \cup Listing
    BY <1>1, <1>9 DEF SaveRating, ReadRatings, Fault, TypeOK, StageTellsDeed
  <2>2. QED
    BY <1>1, <1>4, <2>1 DEF Unlisted
<1>10. CASE SaveAverage(r)
  <2>1. had' = had /\ pos' = pos /\ type' = type /\ listed' = listed
        /\ ask'[r].do \notin Lists /\ pc'[r] \notin {"idle"} \cup Listing
    BY <1>1, <1>10 DEF SaveAverage, TypeOK, StageTellsDeed
  <2>2. CASE ask[r].id \in DOMAIN docs
    <3>1. PICK v : docs' = [docs EXCEPT ![ask[r].id].average = v]
      BY <1>10, <2>2 DEF SaveAverage
    <3>2. \A i \in DOMAIN docs' : /\ i \in DOMAIN docs /\ docs'[i].what = docs[i].what
                                  /\ docs'[i].parent = docs[i].parent
      BY <1>1, <3>1 DEF TypeOK, Doc
    <3>3. QED
      BY <1>1, <1>4, <2>1, <3>2 DEF Unlisted
  <2>3. CASE ask[r].id \notin DOMAIN docs
    <3>1. docs' = docs
      BY <1>10, <2>3 DEF SaveAverage
    <3>2. QED
      BY <1>1, <1>4, <2>1, <3>1 DEF Unlisted
  <2>4. QED
    BY <2>2, <2>3
<1>11. QED
  BY <1>5, <1>6, <1>7, <1>8, <1>9, <1>10

LEMMA UnlistedKeeps ==
  ASSUME CatalogInv, NEW r \in Requests, Unlisted(r)
  PROVE  ListsAreKept'
<1>1. \A q \in Requests : \A p \in had'[q] : Old(p[2])'
  BY StepKeepsOld DEF Unlisted
<1>2. ASSUME NEW q \in Requests PROVE ListIsRight(q)'
  <2>1. CASE q # r
    BY <1>1, <2>1, OthersStayRight DEF Unlisted, Step
  <2>2. CASE q = r
    BY <1>1, <2>2 DEF Unlisted, ListIsRight, Listing
  <2>3. QED
    BY <2>1, <2>2
<1>3. ASSUME NEW q \in Requests, ask'[q].do \in Lists, pc'[q] = "failed" PROVE Missed(q)'
  <2>1. ask[q].do \in Lists /\ pc[q] = "failed"
    BY <1>3 DEF Unlisted, Step
  <2>2. Missed(q)
    BY <2>1 DEF CatalogInv, ListsFailOverRemovals, Missed
  <2>3. QED
    BY <2>2, GoneForGood DEF Unlisted
<1>4. QED
  BY <1>2, <1>3 DEF ListsAreKept, ListsAreRight, ListsFailOverRemovals, Missed

\* A step that only list r takes; it goes on or fails over something missing.
LEMMA ListGoesOn ==
  ASSUME CatalogInv, NEW r \in Requests, Step(r), docs' = docs,
         \A q \in Requests \ {r} : /\ pos'[q] = pos[q] /\ type'[q] = type[q]
                                   /\ listed'[q] = listed[q] /\ had'[q] = had[q],
         ListIsRight(r)', pc'[r] = "failed" => Missed(r) /\ had'[r] = had[r]
  PROVE  ListsAreKept'
<1>1. ASSUME NEW q \in Requests \ {r} PROVE ListIsRight(q)'
  <2>1. ListIsRight(q)
    BY DEF CatalogInv, ListsAreRight
  <2>2. \A p \in had'[q] : Old(p[2])'
    BY <2>1, StepKeepsOld DEF ListIsRight
  <2>3. pc[q] \in Listing => \A i \in DOMAIN docs' \cap DOMAIN Stock :
          docs'[i].what = "service" => <<i, docs'[i].parent>> \in had'[q]
    BY <2>1 DEF ListIsRight
  <2>4. QED
    BY <1>1, <2>2, <2>3, OthersStayRight DEF Step
<1>2. ASSUME NEW q \in Requests, ask'[q].do \in Lists, pc'[q] = "failed" PROVE Missed(q)'
  <2>1. CASE q = r
    BY <1>2, <2>1 DEF Missed
  <2>2. CASE q # r
    <3>1. Missed(q)
      BY <1>2, <2>2 DEF CatalogInv, ListsFailOverRemovals, Missed, Step
    <3>2. QED
      BY <2>2, <3>1 DEF Missed
  <2>3. QED
    BY <2>1, <2>2
<1>3. QED
  BY <1>1, <1>2 DEF ListsAreKept, ListsAreRight, ListsFailOverRemovals, Missed

LEMMA StartListKeeps ==
  ASSUME CatalogInv, NEW r \in Requests, NEW a \in Asks, StartList(r, a)
  PROVE  ListsAreKept'
<1> USE DEF Arrive, rating
<1>1. TypeOK /\ Step(r) /\ pos[r] = 1 /\ listed[r] = {} /\ pc[r] = "idle"
  BY ServeSteps DEF StartList, Serve, CatalogInv, ListsAreRight, ListIsRight
<1>2. docs' = docs /\ pos' = pos /\ type' = type /\ listed' = listed
      /\ had' = [had EXCEPT ![r] = {<<i, docs[i].parent>> : i \in {j \in DOMAIN docs : docs[j].what = "service"}}]
      /\ pc' = [pc EXCEPT ![r] = IF Entries = <<>> THEN "done" ELSE IF a.do = "count" THEN "service" ELSE "booking"]
  BY DEF StartList
<1>3. had'[r] = {<<i, docs[i].parent>> : i \in {j \in DOMAIN docs : docs[j].what = "service"}}
      /\ \A q \in Requests \ {r} : had'[q] = had[q]
  BY <1>1, <1>2 DEF TypeOK
<1>4. \A p \in had'[r] : Old(p[2])'
  BY <1>1, <1>3, ServiceHasType, StepKeepsOld
<1>5. pc'[r] = IF Entries = <<>> THEN "done" ELSE IF a.do = "count" THEN "service" ELSE "booking"
  BY <1>1, <1>2 DEF TypeOK
<1>6. Entries = <<>> => DOMAIN Entries = {}
  OBVIOUS
<1>7. Entries # <<>> => 1 \in DOMAIN Entries
  BY EntriesTyped, CatalogAssumption, EmptySeq
<1>8. ListIsRight(r)'
  <2>1. CASE Entries = <<>>
    BY <1>4, <1>5, <1>6, <2>1 DEF ListIsRight, Listing
  <2>2. CASE Entries # <<>>
    BY <1>1, <1>2, <1>3, <1>4, <1>5, <1>7, <2>2, EntriesTyped DEF ListIsRight, Listing
  <2>3. QED
    BY <2>1, <2>2
<1>9. /\ pc'[r] # "failed"
      /\ \A q \in Requests \ {r} : /\ pos'[q] = pos[q] /\ type'[q] = type[q]
                                   /\ listed'[q] = listed[q] /\ had'[q] = had[q]
  BY <1>2, <1>3, <1>5
<1>10. QED
  BY <1>1, <1>2, <1>8, <1>9, ListGoesOn

LEMMA ListRoomKeeps ==
  ASSUME CatalogInv, NEW r \in Requests, ListRoom(r)
  PROVE  ListsAreKept'
<1> USE DEF Goto, listing
<1>1. TypeOK /\ Step(r) /\ ListIsRight(r) /\ pc[r] = "booking"
  BY ContinueSteps DEF ListRoom, Continue, CatalogInv, ListsAreRight
<1>2. /\ docs' = docs /\ pos' = pos /\ type' = type /\ listed' = listed /\ had' = had /\ ask' = ask
      /\ pc'[r] = IF Entry(r).room \in DOMAIN docs THEN "service" ELSE "failed"
  BY <1>1 DEF ListRoom, TypeOK
<1>3. pc'[r] = "failed" => Missed(r)
  BY <1>1, <1>2 DEF Missed, Entry, ListIsRight, Listing
<1>4. \A p \in had'[r] : Old(p[2])'
  BY <1>1, <1>2, StepKeepsOld DEF ListIsRight
<1>5. ListIsRight(r)'
  BY <1>1, <1>2, <1>4 DEF ListIsRight, Listing, RightAbout, TypesHad, Fits
<1>6. QED
  BY <1>1, <1>2, <1>3, <1>5, ListGoesOn

\* A list that is right about the entry it is at goes on to the next.
LEMMA NextEntryIsRight ==
  ASSUME CatalogInv, NEW r \in Requests, Step(r), NextEntry(r), docs' = docs, ask' = ask, had' = had,
         pc[r] \in Listing, ask[r].do \in Lists,
         listed'[r] = listed[r] \/ listed'[r] = listed[r] \cup {pos[r]},
         \A k : k = pos[r] => RightAbout(r, k)'
  PROVE  ListIsRight(r)' /\ pc'[r] # "failed"
<1>1. TypeOK /\ ListIsRight(r)
  BY DEF CatalogInv, ListsAreRight
<1>2. pos[r] \in 1 .. Len(Entries) /\ Len(Entries) \in Nat /\ DOMAIN Entries = 1 .. Len(Entries)
  BY <1>1, EntriesTyped DEF ListIsRight
<1>3. pos'[r] = pos[r] + 1 /\ pc'[r] = Resume(r, pos[r] + 1)
  BY <1>1 DEF NextEntry, Goto, TypeOK
<1>4. /\ pc'[r] \in {"done", "booking", "service"}
      /\ pc'[r] = "done" <=> pos[r] + 1 > Len(Entries)
  BY <1>2, <1>3 DEF Resume
<1>5. ASSUME NEW k \in DOMAIN Entries, k <= pos[r] PROVE RightAbout(r, k)'
  <2>1. CASE k = pos[r]
    BY <2>1
  <2>2. CASE k # pos[r]
    <3>1. RightAbout(r, k)
      BY <1>1, <1>2, <1>5, <2>2 DEF ListIsRight
    <3>2. QED
      BY <2>2, <3>1 DEF RightAbout, TypesHad, Fits
  <2>3. QED
    BY <2>1, <2>2
<1>6. \A k \in listed'[r] : k < pos'[r]
  BY <1>1, <1>2, <1>3 DEF ListIsRight, TypeOK
<1>7. \A p \in had'[r] : Old(p[2])'
  BY <1>1, StepKeepsOld DEF ListIsRight
<1>8. \A i \in DOMAIN docs \cap DOMAIN Stock : docs[i].what = "service" => <<i, docs[i].parent>> \in had'[r]
  BY <1>1 DEF ListIsRight
<1>9. pc'[r] # "done" => pos'[r] \in DOMAIN Entries
  BY <1>2, <1>3, <1>4
<1>10. \A k \in DOMAIN Entries : k < pos'[r] => RightAbout(r, k)'
  BY <1>2, <1>3, <1>5
<1>11. pc'[r] = "done" => \A k \in DOMAIN Entries : RightAbout(r, k)'
  BY <1>2, <1>4, <1>5
<1>12. QED
  BY <1>4, <1>6, <1>7, <1>8, <1>9, <1>10, <1>11 DEF ListIsRight, Listing

LEMMA ListServiceKeeps ==
  ASSUME CatalogInv, NEW r \in Requests, ListService(r)
  PROVE  ListsAreKept'
<1> DEFINE service == Entry(r).service
           t == docs[service].parent
<1>1. /\ TypeOK /\ Step(r) /\ ListIsRight(r) /\ pc[r] = "service" /\ ask[r].do \in Lists
      /\ pc[r] \in Listing /\ pos[r] \in DOMAIN Entries
  BY ContinueSteps DEF ListService, Continue, CatalogInv, ListsAreRight, ListIsRight, Listing,
     StageTellsDeed
<1>2. /\ docs' = docs /\ listed' = listed /\ had' = had /\ ask' = ask
      /\ \A q \in Requests \ {r} : pos'[q] = pos[q] /\ type'[q] = type[q]
  BY <1>1 DEF ListService, NextEntry, TypeOK
<1>3. CASE service \in DOMAIN docs
  <2>1. t \in TypesHad(r, pos[r])
    <3>1. <<service, t>> \in had[r]
      BY <1>1, <1>3, EntriesTyped DEF Entry, ListIsRight, CatalogInv, IdsAreOld
    <3>2. QED
      BY <3>1 DEF TypesHad, Entry
  <2>2. CASE ask[r].do = "ofType" /\ ~Fits(r, t)
    <3>1. NextEntry(r)
      BY <1>3, <2>2 DEF ListService
    <3>2. pos[r] \notin listed[r]
      BY <1>1, EntriesTyped DEF ListIsRight
    <3>3. ASSUME NEW k, k = pos[r] PROVE RightAbout(r, k)'
      <4>1. PICK s \in TypesHad(r, k) : ~Fits(r, s)
        BY <2>1, <2>2, <3>3
      <4>2. s \in TypesHad(r, k)' /\ ~Fits(r, s)'
        BY <1>2, <4>1 DEF Fits, TypesHad
      <4>3. k \notin listed'[r]
        BY <1>2, <3>2, <3>3
      <4>4. QED
        BY <4>2, <4>3 DEF RightAbout
    <3>4. QED
      BY <1>1, <1>2, <3>1, <3>3, NextEntryIsRight, ListGoesOn
  <2>3. CASE ~(ask[r].do = "ofType" /\ ~Fits(r, t))
    <3>1. pos' = pos /\ type'[r] = t /\ pc'[r] = "type"
      BY <1>1, <1>3, <2>3 DEF ListService, Goto, TypeOK
    <3>2. \A p \in had'[r] : Old(p[2])'
      BY <1>1, <1>2, StepKeepsOld DEF ListIsRight
    <3>3. ListIsRight(r)'
      BY <1>1, <1>2, <2>1, <3>1, <3>2 DEF ListIsRight, Listing, RightAbout, TypesHad, Fits
    <3>4. QED
      BY <1>1, <1>2, <3>1, <3>3, ListGoesOn
  <2>4. QED
    BY <2>2, <2>3
<1>4. CASE service \notin DOMAIN docs
  <2>1. pos' = pos /\ type' = type /\ pc'[r] = "failed"
    BY <1>1, <1>4 DEF ListService, Goto, TypeOK
  <2>2. Missed(r)
    BY <1>1, <1>4 DEF Missed, Entry
  <2>3. \A p \in had'[r] : Old(p[2])'
    BY <1>1, <1>2, StepKeepsOld DEF ListIsRight
  <2>4. ListIsRight(r)'
    BY <2>1, <2>3 DEF ListIsRight, Listing
  <2>5. QED
    BY <1>1, <1>2, <2>1, <2>2, <2>4, ListGoesOn
<1>5. QED
  BY <1>3, <1>4

LEMMA ListTypeKeeps ==
  ASSUME CatalogInv, NEW r \in Requests, ListType(r)
  PROVE  ListsAreKept'
<1>1. /\ TypeOK /\ Step(r) /\ ListIsRight(r) /\ pc[r] = "type" /\ ask[r].do \in Lists
      /\ pc[r] \in Listing /\ pos[r] \in DOMAIN Entries /\ type[r] \in TypesHad(r, pos[r])
  BY ContinueSteps DEF ListType, Continue, CatalogInv, ListsAreRight, ListIsRight, Listing,
     StageTellsDeed
<1>2. /\ docs' = docs /\ type' = type /\ had' = had /\ ask' = ask
      /\ \A q \in Requests \ {r} : pos'[q] = pos[q] /\ listed'[q] = listed[q]
  BY <1>1 DEF ListType, NextEntry, TypeOK
<1>3. CASE type[r] \in DOMAIN docs
  <2>1. NextEntry(r) /\ listed'[r] = listed[r] \cup IF Fits(r, type[r]) THEN {pos[r]} ELSE {}
    BY <1>1, <1>3 DEF ListType, TypeOK
  <2>2. pos[r] \notin listed[r]
    BY <1>1, EntriesTyped DEF ListIsRight
  <2>3. ASSUME NEW k, k = pos[r] PROVE RightAbout(r, k)'
    <3>1. PICK s \in TypesHad(r, k) : s = type[r]
      BY <1>1, <2>3
    <3>2. s \in TypesHad(r, k)' /\ (Fits(r, s)' <=> Fits(r, s))
      BY <1>2, <3>1 DEF Fits, TypesHad
    <3>3. k \in listed'[r] <=> Fits(r, s)
      BY <2>1, <2>2, <2>3, <3>1
    <3>4. QED
      BY <3>2, <3>3 DEF RightAbout
  <2>4. listed'[r] = listed[r] \/ listed'[r] = listed[r] \cup {pos[r]}
    BY <2>1
  <2>5. QED
    BY <1>1, <1>2, <2>1, <2>3, <2>4, NextEntryIsRight, ListGoesOn
<1>4. CASE type[r] \notin DOMAIN docs
  <2>1. pos' = pos /\ listed' = listed /\ pc'[r] = "failed"
    BY <1>1, <1>4 DEF ListType, Goto, TypeOK
  <2>2. Missed(r)
    BY <1>1, <1>4 DEF Missed, TypesHad
  <2>3. \A p \in had'[r] : Old(p[2])'
    BY <1>1, <1>2, StepKeepsOld DEF ListIsRight
  <2>4. ListIsRight(r)'
    BY <2>1, <2>3 DEF ListIsRight, Listing
  <2>5. QED
    BY <1>1, <1>2, <2>1, <2>2, <2>4, ListGoesOn
<1>5. QED
  BY <1>3, <1>4

-----------------------------------------------------------------------------
(* The inductive invariant holds. *)

LEMMA CatalogInit == Init => CatalogInv
<1> SUFFICES ASSUME Init PROVE CatalogInv
  OBVIOUS
<1> USE DEF Init
<1>1. \A i \in DOMAIN docs : docs[i] \in Doc
  BY CatalogAssumption
<1>2. TypeOK
  <2>1. (CHOOSE a \in Asks : TRUE) \in Asks
    BY CatalogAssumption
  <2>2. 1 \in 1 .. Len(Entries) + 1
    BY EntriesTyped
  <2>3. DOMAIN docs \subseteq Ids /\ docs \in [DOMAIN docs -> Doc] /\ Requests \subseteq Ids
    BY CatalogAssumption DEF Ids
  <2>4. QED
    BY <2>1, <2>2, <2>3 DEF TypeOK, InFlight, Answered
<1>3. IsFiniteSet(ratings)
  BY FS_EmptySet
<1>4. StageTellsDeed /\ IdsAreOld
  BY DEF StageTellsDeed, IdsAreOld, Old, Rating1
<1>5. ParentsAreOld
  BY StockAssumption DEF ParentsAreOld, WasThere, Old, Stored
<1>6. NamesAreUnique
  BY StockAssumption DEF NamesAreUnique, Free
<1>7. PricesAreNear
  BY StockAssumption DEF PricesAreNear
<1>8. AverageOfRatings
  <2>1. Mean({}) = 0 /\ \A i : {} \in SUBSET RatingsOf(i)
    BY DEF Mean
  <2>2. QED
    BY <2>1, StockAssumption DEF AverageOfRatings
<1>9. RatingsAreOfRooms /\ AloneSeesAll
  BY DEF RatingsAreOfRooms, AloneSeesAll, Rating1
<1>10. ListsAreRight /\ ListsFailOverRemovals
  BY DEF ListsAreRight, ListIsRight, Listing, ListsFailOverRemovals
<1>11. QED
  BY <1>2, <1>3, <1>4, <1>5, <1>6, <1>7, <1>8, <1>9, <1>10 DEF CatalogInv

LEMMA RatingsHoldOn ==
  ASSUME CatalogInv, Next
  PROVE  RatingsHold'
<1>1. PICK r \in Requests : Continue(r) \/ Fault(r) \/ \E a \in Asks : Serve(r, a)
  BY DEF Next
<1>2. CASE Continue(r) \/ Fault(r)
  <2>1. PICK a \in Asks : TRUE
    BY CatalogAssumption
  <2>2. CASE Insert(r) \/ Write(r) \/ ListRoom(r) \/ ListService(r) \/ ListType(r) \/ Fault(r)
    BY <2>2, StepUnrated, UnratedHolds
  <2>3. CASE SaveRating(r) \/ ReadRatings(r) \/ SaveAverage(r)
    BY <2>3, SaveRatingHolds, ReadRatingsHolds, SaveAverageHolds
  <2>4. QED
    BY <1>2, <2>2, <2>3 DEF Continue
<1>3. ASSUME NEW a \in Asks, Serve(r, a) PROVE RatingsHold'
  <2>1. CASE LookForRating(r, a)
    BY <2>1, LookForRatingHolds
  <2>2. CASE LookForCreate(r, a) \/ LookForUpdate(r, a) \/ Remove(r, a) \/ StartList(r, a)
    BY <2>2, StepUnrated, UnratedHolds
  <2>3. QED
    BY <1>3, <2>1, <2>2 DEF Serve
<1>4. QED
  BY <1>1, <1>2, <1>3

LEMMA ListsKeepOn ==
  ASSUME CatalogInv, Next
  PROVE  ListsAreKept'
<1>1. PICK r \in Requests : Continue(r) \/ Fault(r) \/ \E a \in Asks : Serve(r, a)
  BY DEF Next
<1>2. CASE Continue(r) \/ Fault(r)
  <2>1. PICK a \in Asks : TRUE
    BY CatalogAssumption
  <2>2. CASE Insert(r) \/ Write(r) \/ SaveRating(r) \/ ReadRatings(r) \/ SaveAverage(r) \/ Fault(r)
    BY <2>2, StepUnlisted, UnlistedKeeps
  <2>3. CASE ListRoom(r) \/ ListService(r) \/ ListType(r)
    BY <2>3, ListRoomKeeps, ListServiceKeeps, ListTypeKeeps
  <2>4. QED
    BY <1>2, <2>2, <2>3 DEF Continue
<1>3. ASSUME NEW a \in Asks, Serve(r, a) PROVE ListsAreKept'
  <2>1. CASE StartList(r, a)
    BY <2>1, StartListKeeps
  <2>2. CASE LookForCreate(r, a) \/ LookForUpdate(r, a) \/ Remove(r, a) \/ LookForRating(r, a)
    BY <2>2, StepUnlisted, UnlistedKeeps
  <2>3. QED
    BY <1>3, <2>1, <2>2 DEF Serve
<1>4. QED
  BY <1>1, <1>2, <1>3

LEMMA CatalogNext == CatalogInv /\ [Next]_vars => CatalogInv'
<1> SUFFICES ASSUME CatalogInv, [Next]_vars PROVE CatalogInv'
  OBVIOUS
<1>1. TypeOK' /\ IsFiniteSet(ratings)'
  BY CatalogTypeNext
<1>2. CASE Next
  <2>1. PICK r \in Requests : Step(r)
    BY <1>2, ServeSteps, ContinueSteps DEF Next
  <2>2. StageTellsDeed' /\ IdsAreOld' /\ ParentsAreOld' /\ PricesAreNear'
    BY <2>1, StepKeepsDocs
  <2>3. NamesAreUnique'
    BY <1>2, NamesStayUnique
  <2>4. RatingsAreOfRooms' /\ AverageOfRatings' /\ AloneSeesAll'
    BY <1>2, RatingsHoldOn DEF RatingsHold
  <2>5. ListsAreRight' /\ ListsFailOverRemovals'
    BY <1>2, ListsKeepOn DEF ListsAreKept
  <2>6. QED
    BY <1>1, <2>2, <2>3, <2>4, <2>5 DEF CatalogInv
<1>3. CASE UNCHANGED vars
  <2> USE <1>3 DEF vars, rating, listing
  <2>1. StageTellsDeed' /\ IdsAreOld' /\ NamesAreUnique' /\ PricesAreNear'
    BY DEF CatalogInv, StageTellsDeed, IdsAreOld, Old, NamesAreUnique, Free, PricesAreNear
  <2>2. ParentsAreOld'
    BY DEF CatalogInv, ParentsAreOld, WasThere, Blanked, Old, Stored, Removed
  <2>3. RatingsAreOfRooms' /\ AverageOfRatings' /\ AloneSeesAll'
    BY DEF CatalogInv, RatingsAreOfRooms, AverageOfRatings, AloneSeesAll, RatingsOf
  <2>4. ListsAreRight'
    <3>1. \A q \in Requests : \A k : RightAbout(q, k) => RightAbout(q, k)'
      BY DEF RightAbout, TypesHad, Fits
    <3>2. \A q \in Requests : ListIsRight(q) => ListIsRight(q)'
      BY <3>1 DEF ListIsRight, Listing, TypesHad, Old
    <3>3. QED
      BY <3>2 DEF CatalogInv, ListsAreRight
  <2>5. ListsFailOverRemovals'
    BY DEF CatalogInv, ListsFailOverRemovals
  <2>6. QED
    BY <1>1, <2>1, <2>2, <2>3, <2>4, <2>5 DEF CatalogInv
<1>4. QED
  BY <1>2, <1>3

-----------------------------------------------------------------------------
(* The theorems. *)

\* The whole invariant: what each request knows, what is stored, what is
\* averaged and what the lists of work hold, at any time.
THEOREM CatalogInductive == Spec => []CatalogInv
<1>1. QED
  BY CatalogInit, CatalogNext, PTL DEF Spec

\* What is stored without its parent lost it to a removal, or is a room that was
\* updated with a blank type, and the unique names are unique, however creates,
\* updates and removals interleave between lookup and write.
THEOREM CatalogStaysSound == Spec => []CatalogIsSound
<1>1. CatalogInv => CatalogIsSound
  <2> SUFFICES ASSUME CatalogInv PROVE ParentsWereThere
    BY DEF CatalogInv, CatalogIsSound
  <2>1. QED
    BY DEF CatalogInv, ParentsAreOld, WasThere, Removed, ParentsWereThere, HasOrHad
<1>2. QED
  BY <1>1, CatalogInductive, PTL

\* A room is within half of its base price until it or its type is updated: the
\* base price that a create has checked is the one its room is written under.
THEOREM PricesStayNear == Spec => []PriceNearBase
<1>1. CatalogInv => PriceNearBase
  <2> SUFFICES ASSUME CatalogInv, NEW i \in DOMAIN docs \ touched, docs[i].what = "room",
                      docs[i].parent \in DOMAIN docs \ touched
               PROVE  LET base == docs[docs[i].parent].price
                          off == docs[i].price - base
                      IN 2 * (IF off < 0 THEN -off ELSE off) <= base
    BY DEF PriceNearBase
  <2>1. Near(docs[i].price, docs[docs[i].parent].price)
    BY DEF CatalogInv, PricesAreNear
  <2>2. docs[i].price \in Int /\ docs[docs[i].parent].price \in Int
    BY CatalogAssumption DEF CatalogInv, TypeOK, Doc
  <2>3. QED
    BY <2>1, <2>2 DEF Near
<1>2. QED
  BY <1>1, CatalogInductive, PTL

\* The average a room shows is the mean of some of its ratings, none counted
\* twice, though ratings of one room overlap and some of them fail half way.
THEOREM AveragesAreOfRatings == Spec => []AverageOfRatings
<1>1. CatalogInv => AverageOfRatings
  BY DEF CatalogInv
<1>2. QED
  BY <1>1, CatalogInductive, PTL

\* It is none or between one and five stars.
THEOREM AveragesAreStars ==
  Spec => [](\A i \in DOMAIN docs : docs[i].what = "room" => docs[i].average \in {0} \cup 100 .. 500)
<1>1. CatalogInv =>
        \A i \in DOMAIN docs : docs[i].what = "room" => docs[i].average \in {0} \cup 100 .. 500
  <2> SUFFICES ASSUME CatalogInv, NEW i \in DOMAIN docs, docs[i].what = "room"
               PROVE  docs[i].average \in {0} \cup 100 .. 500
    OBVIOUS
  <2>1. PICK some \in SUBSET RatingsOf(i) : docs[i].average = Mean(some)
    BY DEF CatalogInv, AverageOfRatings
  <2>2. some \in SUBSET Rating /\ IsFiniteSet(some)
    BY FS_Subset DEF CatalogInv, TypeOK, RatingsOf
  <2>3. CASE some = {}
    BY <2>1, <2>3 DEF Mean
  <2>4. CASE some # {}
    <3>1. Mean(some) \in 100 .. 500
      BY <2>2, <2>4, MeanTyped
    <3>2. QED
      BY <2>1, <3>1
  <2>5. QED
    BY <2>3, <2>4
<1>2. QED
  BY <1>1, CatalogInductive, PTL

\* A rating that met no other of its room leaves the room with the mean of all
\* its ratings, though room.save() sends nothing if that is the average loaded.
THEOREM AloneStaysExact == Spec => AloneIsExact
<1>1. CatalogInv /\ [Next]_vars =>
        [\A r \in Requests : pc[r] = "averaged" /\ pc'[r] = "done" /\ alone[r] =>
           docs'[ask[r].id].average = Mean(RatingsOf(ask[r].id))]_vars
  <2> SUFFICES ASSUME CatalogInv, Next, NEW r \in Requests,
                      pc[r] = "averaged", pc'[r] = "done", alone[r]
               PROVE  docs'[ask[r].id].average = Mean(RatingsOf(ask[r].id))
    OBVIOUS
  <2>1. PICK q \in Requests : Continue(q) \/ Fault(q) \/ \E a \in Asks : Serve(q, a)
    BY DEF Next
  <2>2. q = r
    BY <2>1, ServeSteps, ContinueSteps DEF Step
  <2>3. SaveAverage(r) /\ ask[r].id \in DOMAIN docs
    BY <2>1, <2>2 DEF CatalogInv, TypeOK, Continue, Fault, Serve, Goto, Arrive, Insert, Write, SaveRating,
       ReadRatings, ListRoom, ListService, ListType, LookForCreate, LookForUpdate, Remove,
       LookForRating, StartList, SaveAverage
  <2>4. /\ averaged[r] = RatingsOf(ask[r].id)
        /\ seen[r] = docs[ask[r].id].average
    BY <2>3 DEF CatalogInv, AloneSeesAll, Rating1
  <2>5. docs'[ask[r].id].average = Mean(averaged[r])
    <3>1. docs' = [docs EXCEPT ![ask[r].id].average =
                     IF Mean(averaged[r]) = seen[r] THEN @ ELSE Mean(averaged[r])]
      BY <2>3 DEF SaveAverage
    <3>2. PICK v : v = IF Mean(averaged[r]) = seen[r] THEN docs[ask[r].id].average
                       ELSE Mean(averaged[r])
      OBVIOUS
    <3>3. docs' = [docs EXCEPT ![ask[r].id].average = v] /\ v = Mean(averaged[r])
      BY <2>4, <3>1, <3>2
    <3>4. docs[ask[r].id] \in Doc
      BY <2>3 DEF CatalogInv, TypeOK
    <3>5. QED
      BY <2>3, <3>3, <3>4 DEF Doc
  <2>6. QED
    BY <2>4, <2>5
<1>2. QED
  BY <1>1, CatalogInductive, PTL DEF Spec, AloneIsExact

\* A list that is answered has every entry whose service was of the type asked
\* for all the while and none whose service never was, and one that fails has
\* met something that was removed, whatever comes between its lookups.
THEOREM ListsStayRight == Spec => []ListsHold
<1>1. CatalogInv => ListsHold
  <2> SUFFICES ASSUME CatalogInv PROVE ListsAreFaithful
    BY DEF CatalogInv, ListsHold
  <2>1. QED
    BY DEF CatalogInv, ListsAreRight, ListIsRight, RightAbout, TypesHad, ListsAreFaithful
<1>2. QED
  BY <1>1, CatalogInductive, PTL
=============================================================================
