---------------------------- MODULE MCQueries ----------------------------
EXTENDS Queries

\* Days are numbered from 1 January 2023: two ends of a year, a day of 2024.
MCCalendar ==
  LET Day(y, m, last) == [year |-> y, month |-> m, last |-> last] IN
  363 :> Day(2023, 12, FALSE) @@ 364 :> Day(2023, 12, TRUE)
    @@ 365 :> Day(2024, 1, FALSE) @@ 400 :> Day(2024, 2, FALSE)
    @@ 729 :> Day(2024, 12, FALSE) @@ 730 :> Day(2024, 12, TRUE)
    @@ 731 :> Day(2025, 1, FALSE) @@ 732 :> Day(2025, 1, FALSE)

Type == [kind |-> "roomType", day |-> 363]
Room(type) == [kind |-> "room", day |-> 363, type |-> type, status |-> "Available"]
Typed(kind, type) == [kind |-> kind, day |-> 363, type |-> type]
Stay(room, from, to) ==
  [kind |-> "booking", day |-> 363, room |-> room, user |-> 20, from |-> from, to |-> to,
   status |-> "Pending", services |-> <<>>]
Invoice(day, amount) == [kind |-> "invoice", day |-> day, booking |-> 5, amount |-> amount]
User(role) == [kind |-> "user", day |-> 730, role |-> role]
Rating(room) == [kind |-> "rating", day |-> 363, room |-> room, user |-> 10]
Promotion(amount) == [kind |-> "promotion", day |-> 363, amount |-> amount]
Use(promotion) == [kind |-> "use", day |-> 363, user |-> 20, promotion |-> promotion]

Simple(names) == {[for |-> n] : n \in names}
Lists(ofs, filters, owner, orders, limits, follows) ==
  [for : {"list"}, of : ofs, filter : filters, owner : {owner}, order : orders,
   limit : limits, follows : follows]

\* Invoices around two New Years, one of them being inserted; a room, its type, a
\* service may go.
Money(day) ==
  [stored |-> << Type, Room(1), Typed("serviceType", 1), Typed("service", 3),
                 [Stay(2, 3 * 363 + 2, 3 * 365 + 1) EXCEPT !.services = 4 :> 20],
                 Invoice(364, 100), Invoice(365, 9), Invoice(730, 40), User("user") >>,
   optional |-> {{}, {6}, {8}},
   creates |-> 10 :> Invoice(730, 5) @@ 11 :> Invoice(0, 7) @@ 12 :> User("user"),
   underway |-> {10},
   changes |-> <<>>, removes |-> {1, 2, 4}, day |-> day, nights |-> TRUE,
   asks |-> Simple({"daily", "customers", "yearly", "fiveYears", "byRoomType", "counts",
                    "exportServices"})
            \cup [for : {"export"}, until : {"begin", "end"}]]

\* Stays about the coming weeks: one after the other, over midnight, long ones.
Rooms ==
  [stored |-> << Type, Room(1), Room(1),
                 Stay(2, Arrival(400), Departure(402)), Stay(2, Arrival(402), Departure(405)),
                 Stay(2, 3 * 407, 3 * 409), Stay(2, Arrival(409), Departure(412)),
                 Stay(3, Arrival(398), 3 * 400), Stay(3, Arrival(407), Departure(408)),
                 User("user"), Rating(2) >>,
   optional |-> SUBSET {4, 5, 6, 7, 8, 9},
   creates |-> 12 :> Stay(3, Arrival(400), 3 * 401), underway |-> {},
   changes |-> 2 :> [Room(1) EXCEPT !.status = "Under Maintenance"],
   removes |-> {1, 3, 10}, day |-> 400, nights |-> FALSE,
   asks |-> Simple({"availability"}) \cup {[for |-> "detail", room |-> 2]}
            \cup [for : {"list"}, of : {"found"}, order : {"asc"}, limit : {1}, follows : {FALSE},
                  checkin : {None, Arrival(401)}, checkout : {None, Departure(403)}]]

\* Bookings, rooms and services by the page while more come and others change.
Pages5 ==
  [stored |-> << Stay(30, 3, 6), Stay(30, 3, 6), Stay(30, 3, 6), Stay(30, 3, 6), Stay(30, 3, 6) >>,
   optional |-> {{}, {1}, {4, 5}},
   creates |-> 6 :> Stay(30, 3, 6), underway |-> {},
   changes |-> 2 :> [Stay(30, 3, 6) EXCEPT !.status = "Checked in"],
   removes |-> {}, day |-> 400, nights |-> FALSE,
   asks |-> Simple({"statusCount"})
            \cup Lists({"bookings", "bookingsOfUser"}, {"all", "pending"}, 20, {"asc", "desc"},
                       {1, 2}, {TRUE, FALSE})]
Shelf ==
  [stored |-> << Type, Room(1), Room(1), Room(1), Typed("serviceType", 1), Typed("service", 5),
                 Typed("service", 5), Stay(2, 3, 6), Stay(4, 3, 6) >>,
   optional |-> {{}}, creates |-> 10 :> Typed("service", 5) @@ 11 :> Room(1), changes |-> <<>>,
   underway |-> {}, removes |-> {1, 2, 6}, day |-> 400, nights |-> FALSE,
   asks |-> Simple({"exportBookings"})
            \cup Lists({"room", "roomsOfType", "servicesOfRoomType"}, {"all"}, 1, {"asc", "desc"}, {2}, {FALSE})
            \cup Lists({"servicesOfType"}, {"all"}, 5, {"asc", "desc"}, {1}, {FALSE})]

\* Staff whose roles change.
People ==
  [stored |-> << User("admin"), User("receptionist"), User("service_staff"), User("user") >>,
   optional |-> {{}},
   creates |-> 5 :> User("receptionist"), underway |-> {},
   changes |-> 2 :> User("service_staff") @@ 4 :> User("receptionist"),
   removes |-> {3}, day |-> 400, nights |-> FALSE,
   asks |-> Simple({"staffCount", "exportStaff"})
            \cup Lists({"users"}, {"all", "staff", "user"}, 0, {"asc"}, {1, 2}, {TRUE, FALSE})]

\* Promotions that are used by others and by the user who looks; the stock of one goes
\* down, that of another up.
Offered ==
  [stored |-> << Promotion(1), Promotion(2), Promotion(0), Use(2) >>,
   optional |-> {{}, {4}},
   creates |-> 5 :> Promotion(1) @@ 6 :> Use(5) @@ 7 :> Use(1) @@ 8 :> Use(3),
   underway |-> {},
   changes |-> 1 :> Promotion(0) @@ 3 :> Promotion(1),
   removes |-> {2}, day |-> 400, nights |-> FALSE,
   asks |-> Lists({"offers"}, {"all"}, 20, {"asc"}, {1, 2}, {FALSE})]

MCScenarios == {Money(730), Money(731), Rooms, Pages5, Shelf, People, Offered}
=============================================================================
