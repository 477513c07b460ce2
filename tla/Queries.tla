------------------------------ MODULE Queries ------------------------------
(***************************************************************************)
(* What is only read: the figures and exports of the dashboard, the        *)
(* availability of rooms, and the lists that are shown page by page.       *)
(*                                                                         *)
(* An answer is put together from several reads of the database, some in   *)
(* turn, some at once (Promise.all), in no transaction: whatever else the  *)
(* server does comes in between.  A behaviour is one query, or one client  *)
(* who turns the pages of a list.                                          *)
(***************************************************************************)
EXTENDS Availability, FiniteSets, FiniteSetsExt, Functions, TLC

CONSTANTS
  Calendar,  \* the days: their year, month, and whether they are 31 December
  Scenarios, \* what there is to begin with and what may happen, see Init
  MaxChanges \* how often the database changes during a query

\* The documents of a scenario, and what one was before it changed.
Documents(s) ==
  {s.stored[i] : i \in DOMAIN s.stored} \cup {s.creates[i] : i \in DOMAIN s.creates}
    \cup {s.changes[i] : i \in DOMAIN s.changes}
Original(s, i) == IF i \in DOMAIN s.stored THEN s.stored[i] ELSE s.creates[i]

\* The statuses that bookings get: nothing cancels one.
Statuses == {"Pending", "Checked in", "Checked out"}

\* What a document is made of: createBooking has checked the dates, createInvoice the amount.
IsDocument(d) ==
  /\ {"kind", "day"} \subseteq DOMAIN d
  /\ d.kind = "booking" =>
       /\ {"room", "from", "to", "status"} \subseteq DOMAIN d
       /\ d.from \in Nat /\ d.to \in Nat /\ d.from < d.to /\ d.status \in Statuses
  /\ d.kind = "invoice" => {"amount", "booking"} \subseteq DOMAIN d /\ d.amount \in Nat
  /\ d.kind = "promotion" => "amount" \in DOMAIN d /\ d.amount \in Int
  /\ d.kind = "use" => {"user", "promotion"} \subseteq DOMAIN d
  /\ d.kind = "user" => "role" \in DOMAIN d

\* What an update may do to it: a stay keeps its room and dates, what has been used stays
\* used.  Of an invoice only the status changes, which no query goes by.  The stock of a
\* promotion may go up: a use writes what it has read less one (module Promotion).
IsUpdate(old, new) ==
  /\ new.kind = old.kind /\ old.kind \notin {"use", "invoice"}
  /\ old.kind = "booking" => new.room = old.room /\ new.from = old.from /\ new.to = old.to

ASSUME QueriesAssumption ==
  /\ DOMAIN Calendar \subseteq Nat
  /\ \A d \in DOMAIN Calendar : Calendar[d].year \in Nat /\ Calendar[d].month \in 1 .. 12
  /\ \A c, d \in DOMAIN Calendar : c <= d => Calendar[c].year <= Calendar[d].year
  /\ \A s \in Scenarios :
       /\ s.day \in DOMAIN Calendar
       /\ IsFiniteSet(DOMAIN s.stored) /\ DOMAIN s.stored \cup DOMAIN s.creates \subseteq Nat
       /\ DOMAIN s.stored \cap DOMAIN s.creates = {}
       /\ DOMAIN s.changes \subseteq DOMAIN s.stored \cup DOMAIN s.creates
       /\ \A d \in Documents(s) : IsDocument(d)
       /\ \A i \in DOMAIN s.stored : s.stored[i].day \in DOMAIN Calendar
       /\ \A i \in DOMAIN s.changes : IsUpdate(Original(s, i), s.changes[i])
       /\ \A i \in s.removes \cap (DOMAIN s.stored \cup DOMAIN s.creates) :
            Original(s, i).kind \notin {"booking", "invoice"}
       \* Nobody has used a promotion that is yet to be created.
       /\ \A i \in DOMAIN s.stored :
            s.stored[i].kind = "use" => s.stored[i].promotion \notin DOMAIN s.creates
       \* Dated before the query began, not yet inserted.
       /\ \A i \in s.underway :
            /\ i \in DOMAIN s.creates
            /\ s.creates[i].day \in DOMAIN Calendar /\ s.creates[i].day <= s.day
       /\ \A a \in s.asks :
            /\ a.for \in {"daily", "customers", "yearly", "fiveYears", "byRoomType", "export",
                          "counts", "availability", "staffCount", "statusCount", "exportStaff",
                          "exportServices", "exportBookings", "detail", "list"}
            /\ a.for = "list" => a.limit \in Nat \ {0}

VARIABLES
  scene,  \* the scenario
  ask,    \* the query
  past,   \* the states of the database since the query began, the last is now
  now,    \* the day
  got     \* what the query has read so far

vars == <<scene, ask, past, now, got>>

Began == scene.day

\* A database: documents by number, in the order in which lists show them.
db == Last(past)
Of(base, kind) == {i \in DOMAIN base : base[i].kind = kind}
Has(base, i, kind) == i \in DOMAIN base /\ base[i].kind = kind
Sum(f) == MapThenSumSet(LAMBDA x : f[x], DOMAIN f)
Total(base, ids) == Sum([i \in ids |-> base[i].amount])

Init ==
  /\ scene \in Scenarios
  /\ ask \in scene.asks
  /\ \E some \in scene.optional :
       past = << [i \in (DOMAIN scene.stored) \ some |-> scene.stored[i]] >>
  /\ now = scene.day
  /\ got = <<>>

-----------------------------------------------------------------------------
(* What else the server does: other modules have it in detail. *)

\* Mongoose dates a document (timestamps: true) before it sends it to be inserted.
Dates(i) ==
  IF i \in scene.underway THEN {scene.creates[i].day} ELSE (Began .. now) \cap DOMAIN Calendar

\* Bookings, invoices, rooms, users, promotions are created; a promotion before it is used.
Create(i) ==
  /\ Len(past) <= MaxChanges /\ i \in DOMAIN scene.creates
  /\ \A k \in DOMAIN past : i \notin DOMAIN past[k]
  /\ scene.creates[i].kind = "use" /\ scene.creates[i].promotion \in DOMAIN scene.creates =>
       \E k \in DOMAIN past : scene.creates[i].promotion \in DOMAIN past[k]
  /\ \E day \in Dates(i) :
       past' = Append(past, [j \in DOMAIN db \cup {i} |->
                              IF j = i THEN [scene.creates[i] EXCEPT !.day = day] ELSE db[j]])
  /\ UNCHANGED <<scene, ask, now, got>>

\* They change: a status, a role, an amount.
Change(i) ==
  /\ Len(past) <= MaxChanges /\ i \in DOMAIN scene.changes \cap DOMAIN db /\ db[i] # scene.changes[i]
  /\ past' = Append(past, [db EXCEPT ![i] = scene.changes[i]])
  /\ UNCHANGED <<scene, ask, now, got>>

\* They are removed; bookings and invoices never are.
Delete(i) ==
  /\ Len(past) <= MaxChanges /\ i \in scene.removes \cap DOMAIN db
  /\ past' = Append(past, [j \in DOMAIN db \ {i} |-> db[j]])
  /\ UNCHANGED <<scene, ask, now, got>>

Midnight ==
  /\ now + 1 \in DOMAIN Calendar /\ scene.nights
  /\ now' = now + 1
  /\ UNCHANGED <<scene, ask, past, got>>

-----------------------------------------------------------------------------
(* Revenue and customers.  Ranges are computed when the query begins. *)

Year == Calendar[Began].year
DaysOf(year) == {d \in DOMAIN Calendar : Calendar[d].year = year}
From(day) == {d \in DOMAIN Calendar : d >= day}
Issued(base, days) == {i \in Of(base, "invoice") : base[i].day \in days}
Revenue(base, days) == Total(base, Issued(base, days))
Customers(base, days) == Cardinality({i \in Of(base, "user") : base[i].day \in days})

MonthlyRevenue(base, year) ==
  [m \in 1 .. 12 |-> Revenue(base, {d \in DaysOf(year) : Calendar[d].month = m})]

\* An invoice counts for the type of the room of its booking, if all three are there.
HasRoom(base, i) ==
  Has(base, base[i].booking, "booking") /\ Has(base, base[base[i].booking].room, "room")
TypeOf(base, i) == base[base[base[i].booking].room].type
ByRoomType(base, invoices) ==
  [t \in Of(base, "roomType") |->
     Total(base, {i \in invoices : HasRoom(base, i) /\ TypeOf(base, i) = t})]

\* All services of a booking count once for each invoice of it.
ByService(base, invoices) ==
  [s \in Of(base, "service") |->
     MapThenSumSet(LAMBDA i : base[base[i].booking].services[s],
                   {i \in invoices : /\ Has(base, base[i].booking, "booking")
                                     /\ s \in DOMAIN base[base[i].booking].services})]

\* getRevenueByServiceForLast5Years: of the services there are afterwards.
BookedServices(base) ==
  [s \in Of(base, "service") |->
     [y \in Year - 5 .. Year |->
        MapThenSumSet(LAMBDA b : base[b].services[s],
                      {b \in Of(base, "booking") :
                         s \in DOMAIN base[b].services /\ base[b].day \in DaysOf(y)})]]

\* The default range of the report by room type: until 31 December.
ThisYear == {d \in DaysOf(Year) : ~Calendar[d].last}

\* exportToExcel: without an end date, what is dated before the query began.
Exported(base) ==
  {i \in Of(base, "invoice") : ask.until = "begin" => i \in DOMAIN Head(past) \cup scene.underway}

\* getRoomCountByRoomType, getServiceCountByServiceType
CountBy(base, kind, typeKind) ==
  [t \in Of(base, typeKind) |-> Cardinality({i \in Of(base, kind) : base[i].type = t})]

-----------------------------------------------------------------------------
(* Rooms. *)

StaysIn(base, room) == {base[b] : b \in {c \in Of(base, "booking") : base[c].room = room}}
Today == 3 * Began

\* Mutant: a guest who leaves today has left.
BookedTodayStrict(base) ==
  {b \in Of(base, "booking") : base[b].from <= Today /\ base[b].to > Today + 3}

BookedToday(base) ==
  {b \in Of(base, "booking") : base[b].from <= Today + 3 /\ base[b].to >= Today}

\* Mutant: the dates are compared with the wrong ends of a stay.
FoundRoomsSwapped(base) ==
  {r \in Of(base, "room") :
     ~\E s \in StaysIn(base, r) : s.to < ask.checkout /\ s.from > ask.checkin}

FoundRooms(base) ==
  {r \in Of(base, "room") :
     /\ Has(base, base[r].type, "roomType")
     /\ IsAvailable(StaysIn(base, r), ask.checkin, ask.checkout)
     /\ base[r].status = "Available"}

-----------------------------------------------------------------------------
(* Lists. *)

Staff == {"receptionist", "service_staff"}
StatusOf == [pending |-> "Pending", upcoming |-> "Pending", staying |-> "Checked in",
             past |-> "Checked out"]
BookingsListed(base) ==
  {b \in Of(base, "booking") : ask.filter \in DOMAIN StatusOf => base[b].status = StatusOf[ask.filter]}
BookingsOfUser(base) == {b \in BookingsListed(base) : base[b].user = ask.owner}
UsersListed(base) ==
  {u \in Of(base, "user") : CASE ask.filter = "all"   -> TRUE
                              [] ask.filter = "staff" -> base[u].role \in Staff
                              [] OTHER                -> base[u].role = ask.filter}
OfType(base, kind) == {i \in Of(base, kind) : base[i].type = ask.owner}
\* By the service types of a room type, which are looked up first.
ServicesOfRoomType(base, p) == {i \in Of(base, "service") : base[i].type \in got[<<"types", p>>]}

\* The promotions a user may see: in stock, in season, not used yet.
Offers(base, used) == {i \in Of(base, "promotion") : base[i].amount > 0 /\ i \notin used}

Listed(base, p) ==
  CASE ask.of = "bookings"           -> BookingsListed(base)
    [] ask.of = "bookingsOfUser"     -> BookingsOfUser(base)
    [] ask.of = "users"              -> UsersListed(base)
    [] ask.of = "servicesOfType"     -> OfType(base, "service")
    [] ask.of = "roomsOfType"        -> OfType(base, "room")
    [] ask.of = "servicesOfRoomType" -> ServicesOfRoomType(base, p)
    [] ask.of = "found"              -> FoundRooms(base)
    [] ask.of = "offers"             -> Offers(base, got[<<"used", p>>])
    [] OTHER                         -> Of(base, ask.of)

Before(i, j) == IF ask.order = "asc" THEN i < j ELSE i > j
Rank(i, ids) == Cardinality({j \in ids : Before(j, i)})
Sorted(ids) == [k \in 1 .. Cardinality(ids) |-> CHOOSE i \in ids : Rank(i, ids) = k - 1]
Window(seq, skip, end) == SubSeq(seq, skip + 1, IF end < Len(seq) THEN end ELSE Len(seq))

\* Mutant: pages begin one too late.
PageAtLate(all, p) == LET skip == p * ask.limit IN Window(all, skip, skip + ask.limit)

\* sort, skip, limit.  The offers are sliced in memory, up to what the digits
\* of the limit, a string, make when put behind those of the number skipped.
Sliced == ask.of = "offers"
PageAt(all, p) ==
  LET skip == (p - 1) * ask.limit
      end == IF Sliced THEN 10 * skip + ask.limit ELSE skip + ask.limit
  IN Window(all, skip, end)

Pages(count) == (count + ask.limit - 1) \div ask.limit
Page(p) == IF Sliced THEN PageAt(Sorted(got[<<"offered", p>>]), p) ELSE got[<<"page", p>>]
Count(p) == IF Sliced THEN Cardinality(got[<<"offered", p>>]) ELSE got[<<"count", p>>]
HasNext(p) == p < Pages(Count(p))
\* nextPage: the number of a page that was asked for is a string, so that 1 is
\* put behind it.  A client may also count for itself.
NextPage(p) == IF ask.follows /\ p > 1 THEN 10 * p + 1 ELSE p + 1

-----------------------------------------------------------------------------
(* Which reads a query makes next. *)

Read == DOMAIN got
Together(names) == {<<n, 0>> : n \in names} \ Read
\* Stages of reads: each when all before it are complete.
InTurn(stages) ==
  UNION {stages[k] \ Read : k \in {m \in DOMAIN stages : \A j \in 1 .. m - 1 : stages[j] \subseteq Read}}
Names(names) == InTurn([k \in DOMAIN names |-> {<<names[k], 0>>}])

\* Page p: a count and a page at once.  What belongs to the user, or to the type
\* of room, comes first; the types of the rooms on the page come last.
Stages(p) ==
  LET both == {<<"count", p>>, <<"page", p>>} IN
  CASE ask.of = "offers"                    -> << {<<"used", p>>}, {<<"offered", p>>} >>
    [] ask.of = "servicesOfRoomType"        -> << {<<"types", p>>}, both >>
    [] ask.of \in {"room", "roomsOfType"}   -> << both, {<<"roomTypes", p>>} >>
    [] OTHER                                -> << both >>

\* The first page, and the next of each page that is complete and names one.
Complete(p) == \A k \in DOMAIN Stages(p) : Stages(p)[k] \subseteq Read
Asked == {1} \cup {NextPage(p) : p \in {q \in {r[2] : r \in Read} : Complete(q) /\ HasNext(q)}}
PagesDue == UNION {InTurn(Stages(p)) : p \in Asked}

\* What the sheets of an export are made of, one after the other.
ExportExcel == Names(<<"invoices", "byService", "byType">>)
ExportServices == Names(<<"services", "serviceTypes">>)
ExportStaff == Names(<<"serviceStaff", "receptionists">>)

\* Each booking's customer, room and type, beside those of the others.
ExportBookings ==
  IF <<"bookings", 0>> \notin Read THEN {<<"bookings", 0>>}
  ELSE UNION {InTurn(<< {<<"customer", b>>}, {<<"roomOf", b>>}, {<<"typeOf", b>>} >>) :
                b \in got[<<"bookings", 0>>]}

Detail ==
  LET first == Names(<<"room", "type", "ratings">>)
      raters == {<<"rater", i>> : i \in got[<<"ratings", 0>>]} \ Read
  IN IF first # {} THEN first ELSE IF raters # {} THEN raters ELSE Names(<<"stays">>)

\* What is looked up by id and must be there.
Needed == {"room", "type", "rater", "roomTypes", "roomOf", "typeOf"}
Failed == \E r \in Read : r[1] \in Needed /\ got[r] = {}

Due ==
  IF Failed THEN {} ELSE
  CASE ask.for = "daily"          -> Together({"today", "yesterday"})
    [] ask.for = "customers"      -> Together({"todayNew", "yesterdayNew"})
    [] ask.for = "yearly"         -> Together({"year", "lastYear", "months", "lastMonths"})
    [] ask.for = "fiveYears"      -> Names(<<"booked", "services">>)
    [] ask.for = "byRoomType"     -> Names(<<"thisYear">>)
    [] ask.for = "export"         -> ExportExcel
    [] ask.for = "counts"         -> Together({"roomCounts", "serviceCounts"})
    [] ask.for = "availability"   -> Names(<<"rooms", "bookedToday">>)
    [] ask.for = "staffCount"     -> Together({"staff", "receptionists", "serviceStaff"})
    [] ask.for = "statusCount"    -> Together({"pending", "staying", "left"})
    [] ask.for = "exportStaff"    -> ExportStaff
    [] ask.for = "exportServices" -> ExportServices
    [] ask.for = "exportBookings" -> ExportBookings
    [] ask.for = "detail"         -> Detail
    [] ask.for = "list"           -> PagesDue

Found(i, kind) == IF Has(db, i, kind) THEN {i} ELSE {}
WithRole(role) == {u \in Of(db, "user") : db[u].role = role}
WithStatus(status) == {b \in Of(db, "booking") : db[b].status = status}
\* A document that has been read, whether or not it is still there: the type of
\* a room, which is read from it, never changes here.
Doc(i) == LET k == CHOOSE k \in DOMAIN past : i \in DOMAIN past[k] IN past[k][i]

\* What read r finds.
Value(r) ==
  LET n == r[1] k == r[2] IN
  CASE n = "today"         -> Revenue(db, From(Began))
    [] n = "yesterday"     -> Revenue(db, {Began - 1})
    [] n = "todayNew"      -> Customers(db, From(Began))
    [] n = "yesterdayNew"  -> Customers(db, {Began - 1})
    [] n = "year"          -> Revenue(db, DaysOf(Year))
    [] n = "lastYear"      -> Revenue(db, DaysOf(Year - 1))
    [] n = "months"        -> MonthlyRevenue(db, Year)
    [] n = "lastMonths"    -> MonthlyRevenue(db, Year - 1)
    [] n = "booked"        -> BookedServices(db)
    [] n = "thisYear"      -> ByRoomType(db, Issued(db, ThisYear))
    [] n = "invoices"      -> Exported(db)
    [] n = "byService"     -> ByService(db, Exported(db))
    [] n = "byType"        -> ByRoomType(db, Exported(db))
    [] n = "roomCounts"    -> CountBy(db, "room", "roomType")
    [] n = "serviceCounts" -> CountBy(db, "service", "serviceType")
    [] n = "rooms"         -> Of(db, "room")
    [] n = "bookedToday"   -> BookedToday(db)
    [] n = "staff"         -> {u \in Of(db, "user") : db[u].role \in Staff}
    [] n = "receptionists" -> WithRole("receptionist")
    [] n = "serviceStaff"  -> WithRole("service_staff")
    [] n = "pending"       -> WithStatus("Pending")
    [] n = "staying"       -> WithStatus("Checked in")
    [] n = "left"          -> WithStatus("Checked out")
    [] n = "services"      -> Of(db, "service")
    [] n = "serviceTypes"  -> Of(db, "serviceType")
    [] n = "bookings"      -> Of(db, "booking")
    [] n = "customer"      -> Found(db[k].user, "user")
    [] n = "roomOf"        -> Found(db[k].room, "room")
    [] n = "typeOf"        -> Found(Doc(db[k].room).type, "roomType")
    [] n = "room"          -> Found(ask.room, "room")
    [] n = "type"          -> Found(Doc(ask.room).type, "roomType")
    [] n = "ratings"       -> {i \in Of(db, "rating") : db[i].room = ask.room}
    [] n = "rater"         -> Found(db[k].user, "user")
    [] n = "stays"         -> StaysIn(db, ask.room)
    [] n = "types"         -> {t \in Of(db, "serviceType") : db[t].type = ask.owner}
    [] n = "used"          -> {db[i].promotion : i \in {j \in Of(db, "use") : db[j].user = ask.owner}}
    [] n = "offered"       -> Listed(db, k)
    [] n = "count"         -> Cardinality(Listed(db, k))
    [] n = "page"          -> PageAt(Sorted(Listed(db, k)), k)
    [] n = "roomTypes"     -> IF \A i \in Range(got[<<"page", k>>]) : Has(db, Doc(i).type, "roomType")
                              THEN {k} ELSE {}

Answer(r) ==
  /\ r \in Due
  /\ got' = [q \in Read \cup {r} |-> IF q = r THEN Value(r) ELSE got[q]]
  /\ UNCHANGED <<scene, ask, past, now>>

Next ==
  \/ \E r \in Due : Answer(r)
  \/ Midnight
  \/ \E i \in DOMAIN scene.creates : Create(i)
  \/ \E i \in DOMAIN scene.changes : Change(i)
  \/ \E i \in scene.removes : Delete(i)

Spec == Init /\ [][Next]_vars

-----------------------------------------------------------------------------
TypeOK ==
  /\ scene \in Scenarios /\ ask \in scene.asks
  /\ \A k \in DOMAIN past : IsFiniteSet(DOMAIN past[k]) /\ DOMAIN past[k] \subseteq Nat
  /\ now \in DOMAIN Calendar /\ now >= Began
  /\ \A r \in Read : r[1] = "page" => IsInjective(got[r]) /\ Len(got[r]) <= ask.limit

Answered == Due = {} /\ ~Failed
It(name) == got[<<name, 0>>]
First == Head(past)
Between(low, n, high) == low <= n /\ n <= high

\* Though it is put together from reads that others' invoices and a midnight
\* may come between, the dashboard shows no revenue that never was: the last
\* two days come to something between what they came to when the query began
\* and when it ended; the months of this year and those of the last miss their
\* year by what was inserted meanwhile, at most.  The types of rooms come to no
\* more than the year without its last day, which the default range of "the
\* current year" (admin-dashboard.controller.ts:93) leaves out; to just that if
\* nothing changes meanwhile and no room or type is gone.
RevenueAddsUp ==
  Answered =>
    /\ ask.for = "daily" =>
         Between(Revenue(First, From(Began - 1)), It("today") + It("yesterday"),
                 Revenue(db, From(Began - 1)))
    /\ ask.for = "yearly" =>
         LET new(y) == Revenue(db, DaysOf(y)) - Revenue(First, DaysOf(y)) IN
         /\ Between(It("year") - new(Year), Sum(It("months")), It("year") + new(Year))
         /\ Between(It("lastYear") - new(Year - 1), Sum(It("lastMonths")),
                    It("lastYear") + new(Year - 1))
    /\ ask.for = "byRoomType" =>
         LET whole == Revenue(db, DaysOf(Year)) - Revenue(db, {d \in DaysOf(Year) : Calendar[d].last})
         IN /\ Sum(It("thisYear")) <= whole
            /\ Len(past) = 1 /\ (\A i \in Of(db, "invoice") :
                                   HasRoom(db, i) /\ Has(db, TypeOf(db, i), "roomType"))
                 => Sum(It("thisYear")) = whole

\* The sheets of one export agree, though they are read one after the other:
\* what rooms brought in is no more than the invoices listed and those that were
\* being inserted with a date in the range, unless the range ends in the future.
ExportAddsUp ==
  Answered /\ ask.for = "export" /\ ask.until = "begin" =>
    Sum(It("byType")) <= Total(db, It("invoices") \cup (Exported(db) \ Exported(First)))

\* Totals and their parts are counted at once: they differ by no more than one
\* for each change made meanwhile, and nobody is on the sheets of both kinds of
\* staff unless his role was changed.
PartsAddUp ==
  LET changes == Len(past) - 1
      off == CASE ask.for = "staffCount"  -> Cardinality(It("staff"))
                    - Cardinality(It("receptionists")) - Cardinality(It("serviceStaff"))
               [] ask.for = "statusCount" -> Cardinality(Of(db, "booking"))
                    - Cardinality(It("pending")) - Cardinality(It("staying")) - Cardinality(It("left"))
               [] ask.for = "exportStaff" -> Cardinality(It("serviceStaff") \cap It("receptionists"))
               [] OTHER                   -> 0
  IN Answered => Between(-changes, off, changes)

\* The dashboard never promises rooms it has not got: a room somebody sleeps in
\* tonight is not counted as available, whatever else is counted twice.
AvailableIsNotOverstated ==
  Answered /\ ask.for = "availability" =>
    Cardinality(It("rooms")) - Cardinality(It("bookedToday")) <=
      Cardinality({r \in It("rooms") : \A s \in StaysIn(First, r) : Began \notin Nights(s)})

\* The week a room is said to be free in is free, by either search; and it is
\* the first such week, the same by both, if guests come and go at the hours
\* of the house.
WeekIsFree ==
  \A r \in Of(db, "room") :
    LET stays == StaysIn(db, r)
        day == NextWeekByDay(stays, Began)
    IN /\ day >= Began /\ FreeWeek(stays, day)
       /\ FreeWeek(stays, NextWeekBySort(stays, Began))
       /\ (\A s \in stays : Proper(s)) =>
            /\ NextWeekBySort(stays, Began) = day
            /\ \A d \in Began .. day - 1 : ~FreeWeek(stays, d)

Turned == {r[2] : r \in {x \in Read : x[1] \in {"page", "offered"}}}
Shown == UNION {Range(Page(p)) : p \in Turned}

\* A room the search offers for two dates was one that createBooking would have
\* taken for them.
OfferedRoomsCanBeBooked ==
  Answered /\ ask.for = "list" /\ ask.of = "found" =>
    \A r \in Shown : None \notin {ask.checkin, ask.checkout} =>
      \E k \in DOMAIN past :
        \A s \in StaysIn(past[k], r) : ~InTheWay(s, ask.checkin, ask.checkout)

InStock(base, p) == Has(base, p, "promotion") /\ base[p].amount > 0
Unused(base, p) ==
  \A u \in Of(base, "use") : ~(base[u].user = ask.owner /\ base[u].promotion = p)
\* Its stock has gone up: a use has written what was there before others'.
Raised(p) ==
  \E m, n \in DOMAIN past :
    /\ m < n /\ Has(past[m], p, "promotion") /\ Has(past[n], p, "promotion")
    /\ past[m][p].amount < past[n][p].amount

\* A promotion a user is offered was in stock while he had not used it, though
\* his uses and the promotions are read one after the other.  If its stock went
\* up meanwhile, it may have been in stock only after he had not used it.
OffersHold ==
  Answered /\ ask.for = "list" /\ ask.of = "offers" =>
    \A p \in Shown : \E j, k \in DOMAIN past :
      j <= k /\ Unused(past[j], p) /\ InStock(past[k], p) /\ (j = k \/ Raised(p))

Walk == Answered /\ ask.for = "list" /\ ask.of \notin {"offers", "servicesOfRoomType"}
\* What joined the list meanwhile joined it at its end.
Steady ==
  \A k \in DOMAIN past : k > 1 =>
    \A i \in Listed(past[k], 1) \ Listed(past[k - 1], 1) :
      \A m \in 1 .. k - 1 : \A j \in Listed(past[m], 1) : Before(j, i)

\* Who turns the pages misses nothing that was there from beginning to end, if
\* nothing leaves the list and what joins it joins at its end.
WalkMissesNothing(follows) ==
  Walk /\ Steady /\ ask.follows = follows
       /\ (\A k \in DOMAIN past : Listed(First, 1) \subseteq Listed(past[k], 1))
    => Listed(First, 1) \subseteq Shown

\* A client who counts the pages for itself.
CounterMissesNothing == WalkMissesNothing(FALSE)

\* "nextPage: number | null" (common.type.ts:28): who asks for the next page
\* the answer names misses nothing either.
FollowerMissesNothing == WalkMissesNothing(TRUE)

\* Who turns the pages sees nothing twice, if what joins the list joins at its
\* end, whatever leaves it.
WalkRepeatsNothing ==
  Walk /\ Steady =>
    \A p, q \in Turned : p # q => Range(Page(p)) \cap Range(Page(q)) = {}

\* The numbers of the dashboard.
FiguresAddUp == RevenueAddsUp /\ ExportAddsUp /\ PartsAddUp /\ AvailableIsNotOverstated

\* What a guest is offered, rooms and promotions, could be had.
OffersAreReal == OfferedRoomsCanBeBooked /\ OffersHold

\* The pages of a list make up the list.
PagesAddUp == TypeOK /\ CounterMissesNothing /\ WalkRepeatsNothing
=============================================================================
