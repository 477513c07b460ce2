----------------------------- MODULE MCCatalog -----------------------------
(* Instances of Catalog for TLC: a room type with a room, two service types *)
(* with a service each, a booking with both and one with the first.        *)
EXTENDS Catalog

D(what, parent, name, price) ==
  [what |-> what, parent |-> parent, name |-> name, price |-> price, average |-> 0]
SmallStock ==
  "villa" :> D("roomType", "keep", "x", 4) @@ "room1" :> D("room", "villa", "x", 4) @@
  "spa" :> D("serviceType", "villa", "x", 4) @@ "food" :> D("serviceType", "villa", "y", 4) @@
  "massage" :> D("service", "spa", "x", 4) @@ "dinner" :> D("service", "food", "y", 4)
TwoBookings == << [room |-> "room1", service |-> "massage", first |-> TRUE],
                  [room |-> "room1", service |-> "dinner", first |-> FALSE],
                  [room |-> "room1", service |-> "massage", first |-> TRUE] >>

A(do, what, id, parent, name, price, score) ==
  [do |-> do, what |-> what, id |-> id, parent |-> parent, name |-> name, price |-> price, score |-> score]
Creates == { A("create", "roomType", "keep", "keep", "y", 2, 6),
             A("create", "roomService", "keep", "keep", "x", 2, 6),
             A("create", "room", "keep", "villa", "x", 1, 6),
             A("create", "room", "keep", "villa", "x", 2, 6),
             A("create", "room", "keep", "villa", "x", 6, 6),
             A("create", "room", "keep", "villa", "x", 7, 6),
             A("create", "serviceType", "keep", "villa", "z", 4, 6),
             A("create", "service", "keep", "spa", "z", 4, 6) }
Updates == { A("update", "roomType", "villa", "keep", "x", 6, 6),
             A("update", "room", "room1", "keep", "x", 7, 6),
             A("update", "room", "room1", "villa", "y", 4, 6),
             A("update", "room", "room1", "blank", "x", 4, 6),
             A("update", "serviceType", "spa", "villa", "y", 4, 6),
             A("update", "service", "massage", "food", "z", 4, 6),
             A("update", "service", "dinner", "spa", "x", 4, 6),
             A("update", "service", "dinner", "keep", "y", 4, 6) }
Removes == { A("remove", Stock[i].what, i, "keep", "x", 4, 6) : i \in DOMAIN Stock }
Rates == { A("rate", "room", "room1", "keep", "x", 4, s) : s \in {6, 17, 30} }
Reads == { A(do, "service", "keep", t, "x", 4, 6) : do \in {"count", "all"}, t \in {"any", "spa"} }
         \cup { A("ofType", "service", "keep", "spa", "x", 4, 6) }
AllAsks == Creates \cup Updates \cup Removes \cup Rates \cup Reads
Symmetry == Permutations(Requests)
=============================================================================
