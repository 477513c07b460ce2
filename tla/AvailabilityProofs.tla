------------------------ MODULE AvailabilityProofs ------------------------
(***************************************************************************)
(* What the day-by-day tests of Availability mean, for every stay and day. *)
(*                                                                         *)
(* calculateNextAvailableWeek and the room search do not speak of nights:  *)
(* they compare moments, and look at the days on which a stay begins and   *)
(* ends by themselves.  The theorems say that this comes to the nights,    *)
(* and that both searches, one by days and one by arrivals, find the first *)
(* free week.                                                              *)
(***************************************************************************)
EXTENDS Availability, FiniteSetTheorems, WellFoundedInduction, TLAPS

\* What is asked of a stay: its moments.
IsStay(s) == s.from \in Nat /\ s.to \in Nat
AreStays(stays) == \A s \in stays : IsStay(s)

-----------------------------------------------------------------------------
(* Days and moments. *)

\* A moment lies on one day, at one of three times.
LEMMA DayOfMoment ==
  ASSUME NEW m \in Nat
  PROVE  /\ DayOf(m) \in Nat /\ m % 3 \in 0 .. 2
         /\ m = 3 * DayOf(m) + (m % 3)
BY SMT DEF DayOf

\* Two stays share a night if each begins before the other has ended.
LEMMA SharedNight ==
  ASSUME NEW a \in Int, NEW b \in Int, NEW c \in Int, NEW d \in Int, a < d, c < b, a < b, c < d
  PROVE  (a .. b - 1) \cap (c .. d - 1) # {}
<1>1. CASE a <= c
  <2>1. c \in (a .. b - 1) \cap (c .. d - 1)
    BY <1>1
  <2>2. QED
    BY <2>1
<1>2. CASE c < a
  <2>1. a \in (a .. b - 1) \cap (c .. d - 1)
    BY <1>2
  <2>2. QED
    BY <2>1
<1>3. QED
  BY <1>1, <1>2

-----------------------------------------------------------------------------
(* RoomService.calculateNextAvailableWeek *)

\* hasOverlap overlooks no night: a week it finds no overlap with is free,
\* also of stays that end or begin at midnight or at any other hour.
THEOREM NoOverlapIsFree ==
  ASSUME NEW s, IsStay(s), NEW day \in Nat, ~HasOverlap(day, s)
  PROVE  Nights(s) \cap Week(day) = {}
<1> DEFINE f == DayOf(s.from)
           t == DayOf(s.to)
<1>1. /\ f \in Nat /\ s.from % 3 \in 0 .. 2 /\ s.from = 3 * f + (s.from % 3)
      /\ t \in Nat /\ s.to % 3 \in 0 .. 2 /\ s.to = 3 * t + (s.to % 3)
  BY DayOfMoment DEF IsStay
<1>2. t = day \/ s.to <= 3 * day + 2 \/ s.from >= 3 * (day + 7) + 1
  BY DEF HasOverlap, Arrival, Departure, IsStay
<1> HIDE DEF f, t
<1>3. t <= day \/ f >= day + 7
  BY <1>1, <1>2
<1>4. (f .. t - 1) \cap (day .. day + 6) = {}
  BY <1>1, <1>3
<1>5. QED
  BY <1>4 DEF Nights, Week, f, t

\* Nor does it see one that is not there, if guests come and go at the hours of
\* the house: the days it treats apart, those of arrival and departure, are
\* treated right.
THEOREM OverlapIsTaken ==
  ASSUME NEW s, IsStay(s), NEW day \in Nat, Proper(s), HasOverlap(day, s)
  PROVE  Nights(s) \cap Week(day) # {}
<1> DEFINE f == DayOf(s.from)
           t == DayOf(s.to)
<1>1. f \in Nat /\ s.from = 3 * f + 2 /\ t \in Nat /\ s.to = 3 * t + 1
  BY DayOfMoment DEF IsStay, Proper
<1>2. f < t
  <2>1. f .. t - 1 # {}
    BY DEF Proper, Nights
  <2>2. QED
    BY <2>1, <1>1
<1>3. \/ f = day
      \/ t # day /\ 3 * day + 2 < s.to /\ 3 * (day + 7) + 1 > s.from
  BY DEF HasOverlap, Arrival, Departure
<1> HIDE DEF f, t
<1>4. f < day + 7 /\ day < t
  BY <1>1, <1>2, <1>3
<1>5. (f .. t - 1) \cap (day .. (day + 7) - 1) # {}
  <2>1. f < t /\ day < day + 7 /\ f < day + 7 /\ day < t
    BY <1>2, <1>4
  <2>2. f \in Int /\ t \in Int /\ day \in Int /\ day + 7 \in Int
    BY <1>1
  <2>3. QED
    BY <2>1, <2>2, SharedNight, Zenon
<1>6. (day + 7) - 1 = day + 6
  OBVIOUS
<1>7. QED
  BY <1>5, <1>6 DEF Nights, Week, f, t

\* A day the search stops at begins a free week; and every day it passes over
\* begins a week somebody has taken a night of.
THEOREM SearchStopsAtFreeWeeks ==
  ASSUME NEW stays, AreStays(stays), NEW day \in Nat, \A s \in stays : Proper(s)
  PROVE  (\A s \in stays : ~HasOverlap(day, s)) <=> FreeWeek(stays, day)
BY NoOverlapIsFree, OverlapIsTaken DEF FreeWeek, AreStays

\* The search itself, which tries one day after the other without a bound.
\* The days from day on that it would stop at, and the first of them.
Open(stays, day) == {n \in Nat : n >= day /\ \A s \in stays : ~HasOverlap(n, s)}
FirstOpen(stays, day) ==
  CHOOSE n \in Open(stays, day) : \A m \in Open(stays, day) : n <= m

\* A set of numbers has a smallest.
LEMMA SmallestOf ==
  ASSUME NEW T \in SUBSET Nat, T # {}
  PROVE  \E n \in T : \A m \in T : n <= m
<1> DEFINE R == OpToRel(<, Nat)
<1>1. IsWellFoundedOn(R, Nat)
  BY NatLessThanWellFounded
<1>2. \A n, m \in Nat : <<m, n>> \in R <=> m < n
  BY DEF OpToRel
<1> HIDE DEF R
<1>3. PICK n \in T : \A m \in T : ~(<<m, n>> \in R)
  BY <1>1, WFMin
<1>4. \A m \in T : ~(m < n)
  BY <1>2, <1>3
<1>5. \A x, y \in Nat : ~(x < y) => y <= x
  OBVIOUS
<1>6. QED
  BY <1>3, <1>4, <1>5

\* Once the last stay has ended, every day is one to stop at.
LEMMA FirstOpenExists ==
  ASSUME NEW stays, AreStays(stays), NEW last \in Nat, NEW day \in Nat,
         \A s \in stays : s.from <= last /\ s.to <= last
  PROVE  /\ FirstOpen(stays, day) \in Open(stays, day)
         /\ \A m \in Open(stays, day) : FirstOpen(stays, day) <= m
<1>1. day + last + 1 \in Open(stays, day)
  <2>1. SUFFICES ASSUME NEW s \in stays PROVE ~HasOverlap(day + last + 1, s)
    BY DEF Open
  <2>2. s.from \in Nat /\ s.to \in Nat /\ s.from <= last /\ s.to <= last
    BY DEF IsStay, AreStays
  <2>3. DayOf(s.from) \in Nat /\ s.from = 3 * DayOf(s.from) + (s.from % 3) /\ s.from % 3 \in 0 .. 2
    BY <2>2, DayOfMoment
  <2>4. DayOf(s.from) # day + last + 1
    BY <2>2, <2>3
  <2>5. QED
    BY <2>2, <2>4 DEF HasOverlap, Arrival
<1>2. Open(stays, day) \in SUBSET Nat
  BY DEF Open
<1>3. \E n \in Open(stays, day) : \A m \in Open(stays, day) : n <= m
  BY <1>1, <1>2, SmallestOf
<1>4. QED
  BY <1>3 DEF FirstOpen

\* The search comes to an end, and at the first day it may stop at: it passes
\* over no free week, however the stays lie (calculateNextAvailableWeek).
THEOREM SearchFindsFirstWeek ==
  ASSUME NEW stays, AreStays(stays), NEW last \in Nat, NEW today \in Nat,
         \A s \in stays : s.from <= last /\ s.to <= last
  PROVE  /\ NextWeekByDay(stays, today) \in Nat /\ NextWeekByDay(stays, today) >= today
         /\ \A s \in stays : ~HasOverlap(NextWeekByDay(stays, today), s)
         /\ \A day \in today .. NextWeekByDay(stays, today) - 1 :
              \E s \in stays : HasOverlap(day, s)
<1> DEFINE Taken(day) == \E s \in stays : HasOverlap(day, s)
           first(day) == FirstOpen(stays, day)
           IsSearch(try) == try = [day \in Nat |-> IF Taken(day) THEN try[day + 1] ELSE day]
<1>1. \A day \in Nat : /\ first(day) \in Nat /\ first(day) >= day /\ ~Taken(first(day))
                       /\ \A m \in Nat : m >= day /\ ~Taken(m) => first(day) <= m
  BY FirstOpenExists DEF Open
<1>2. NextWeekByDay(stays, today) = (CHOOSE try : IsSearch(try))[today]
  BY DEF NextWeekByDay
<1> HIDE DEF Taken, first
<1>3. \A day \in Nat : first(day) = IF Taken(day) THEN first(day + 1) ELSE day
  <2> TAKE day \in Nat
  <2>1. CASE Taken(day)
    <3>1. first(day) # day /\ first(day) >= day + 1
      BY <1>1, <2>1
    <3>2. first(day + 1) <= first(day) /\ first(day) <= first(day + 1)
      BY <1>1, <3>1
    <3>3. QED
      BY <1>1, <2>1, <3>2
  <2>2. CASE ~Taken(day)
    <3>1. first(day) <= day /\ first(day) >= day /\ first(day) \in Nat
      BY <1>1, <2>2
    <3>2. QED
      BY <2>2, <3>1
  <2>3. QED
    BY <2>1, <2>2
<1>4. IsSearch([day \in Nat |-> first(day)])
  BY <1>3
<1>5. PICK try : IsSearch(try) /\ NextWeekByDay(stays, today) = try[today]
  BY <1>2, <1>4
<1>6. \A day \in Nat : try[day] = IF Taken(day) THEN try[day + 1] ELSE day
  BY <1>5
<1> HIDE DEF IsSearch
<1>7. \A day \in Nat : try[day] = first(day)
  <2> DEFINE Bad == {k \in Nat : \E day \in Nat : first(day) = day + k /\ try[day] # first(day)}
  <2>1. SUFFICES ASSUME Bad # {} PROVE FALSE
    <3>1. SUFFICES ASSUME NEW day \in Nat, try[day] # first(day) PROVE Bad # {}
      OBVIOUS
    <3>2. first(day) - day \in Nat /\ first(day) = day + (first(day) - day)
      BY <1>1
    <3>3. QED
      BY <3>1, <3>2
  <2>2. PICK k \in Bad : \A j \in Bad : k <= j
    <3>1. Bad \in SUBSET Nat
      OBVIOUS
    <3> HIDE DEF Bad
    <3>2. QED
      BY <2>1, <3>1, SmallestOf
  <2>3. PICK day \in Nat : first(day) = day + k /\ try[day] # first(day)
    OBVIOUS
  <2>4. Taken(day) /\ first(day) = first(day + 1) /\ try[day] = try[day + 1]
    BY <1>3, <1>6, <2>3
  <2>5. first(day + 1) = (day + 1) + (k - 1) /\ k - 1 \in Nat
    BY <1>1, <2>3, <2>4
  <2>6. k - 1 \in Bad
    BY <2>3, <2>4, <2>5
  <2>7. QED
    BY <2>2, <2>5, <2>6
<1>8. \A day \in today .. first(today) - 1 : Taken(day)
  BY <1>1
<1>9. QED
  BY <1>1, <1>5, <1>7, <1>8 DEF Taken

\* So a customer is shown the next free week: that of the day found is free at
\* whatever hours the stays begin and end, and if those are the hours of the
\* house, no earlier day begins a free one.
THEOREM NextWeekIsFreeAndFirst ==
  ASSUME NEW stays, AreStays(stays), NEW last \in Nat, NEW today \in Nat,
         \A s \in stays : s.from <= last /\ s.to <= last
  PROVE  /\ FreeWeek(stays, NextWeekByDay(stays, today))
         /\ (\A s \in stays : Proper(s)) =>
              \A day \in today .. NextWeekByDay(stays, today) - 1 : ~FreeWeek(stays, day)
<1> DEFINE week == NextWeekByDay(stays, today)
<1>1. /\ week \in Nat /\ week >= today /\ \A s \in stays : ~HasOverlap(week, s)
      /\ \A day \in today .. week - 1 : \E s \in stays : HasOverlap(day, s)
  BY SearchFindsFirstWeek
<1> HIDE DEF week
<1>2. FreeWeek(stays, week)
  BY <1>1, NoOverlapIsFree DEF FreeWeek, AreStays
<1>3. ASSUME \A s \in stays : Proper(s), NEW day \in today .. week - 1
      PROVE  ~FreeWeek(stays, day)
  <2>1. day \in Nat
    BY <1>1
  <2>2. PICK s \in stays : HasOverlap(day, s)
    BY <1>1
  <2>3. Nights(s) \cap Week(day) # {}
    BY <1>3, <2>1, <2>2, OverlapIsTaken DEF AreStays
  <2>4. QED
    BY <2>3 DEF FreeWeek
<1>4. QED
  BY <1>2, <1>3 DEF week

-----------------------------------------------------------------------------
(* RoomService.filterRoomsByRoomTypeFields *)

\* Its two halves, written apart, agree with the rest of the server: the $cond
\* moves the week on over the stays hasOverlap sees, and no room that is marked
\* available for two dates has a booking the overlap query of createBooking finds.
THEOREM SearchAgreesWithBooking ==
  ASSUME NEW stays, AreStays(stays), NEW checkin \in Nat, NEW checkout \in Nat
  PROVE  /\ \A s \in stays, day \in Nat : Pushes(day, s) <=> HasOverlap(day, s)
         /\ IsAvailable(stays, checkin, checkout) <=>
              \A s \in stays : ~InTheWay(s, checkin, checkout)
<1>1. \A s \in stays, day \in Nat : Pushes(day, s) <=> HasOverlap(day, s)
  BY DEF Pushes, HasOverlap, IsStay, AreStays, Arrival, Departure
<1>2. checkin # None /\ checkout # None
  BY DEF None
<1>3. QED
  BY <1>1, <1>2 DEF IsAvailable, InTheWay

\* Two bookings at the hours of the house are in each other's way for the overlap
\* query exactly if they share a night: guests may come on the day others leave.
THEOREM InTheWaySharesANight ==
  ASSUME NEW s, IsStay(s), Proper(s), NEW a \in Nat, NEW b \in Nat, a < b
  PROVE  InTheWay(s, Arrival(a), Departure(b)) <=> Nights(s) \cap (a .. b - 1) # {}
<1> DEFINE f == DayOf(s.from)
           t == DayOf(s.to)
<1>1. f \in Nat /\ s.from = 3 * f + 2 /\ t \in Nat /\ s.to = 3 * t + 1
  BY DayOfMoment DEF IsStay, Proper
<1>2. f < t
  <2>1. f .. t - 1 # {}
    BY DEF Proper, Nights
  <2>2. QED
    BY <2>1, <1>1
<1>3. InTheWay(s, Arrival(a), Departure(b)) <=> 3 * f + 2 < 3 * b + 1 /\ 3 * t + 1 > 3 * a + 2
  BY <1>1 DEF InTheWay, Arrival, Departure
<1> HIDE DEF f, t
<1>4. InTheWay(s, Arrival(a), Departure(b)) <=> f < b /\ a < t
  BY <1>1, <1>3
<1>5. f < b /\ a < t => (f .. t - 1) \cap (a .. b - 1) # {}
  BY <1>1, <1>2, SharedNight
<1>6. (f .. t - 1) \cap (a .. b - 1) # {} => f < b /\ a < t
  BY <1>1
<1>7. QED
  BY <1>4, <1>5, <1>6 DEF Nights, f, t

-----------------------------------------------------------------------------
(* Recursion over the subsets of a finite set. *)

\* What holds of a set as soon as it holds of the set without any one of its
\* elements, and holds of the empty set, holds of every finite set.
LEMMA SetInduction ==
  ASSUME NEW S, IsFiniteSet(S), NEW Good,
         \A T \in SUBSET S : (\A x \in T : T \ {x} \in Good) => T \in Good
  PROVE  \A T \in SUBSET S : T \in Good
<1> DEFINE Bad == {n \in Nat : \E T \in SUBSET S : T \notin Good /\ Cardinality(T) = n}
<1>1. SUFFICES ASSUME NEW T \in SUBSET S, T \notin Good PROVE FALSE
  OBVIOUS
<1>2. \A U \in SUBSET S : IsFiniteSet(U) /\ Cardinality(U) \in Nat
  BY FS_Subset, FS_CardinalityType
<1>3. Cardinality(T) \in Bad
  BY <1>1, <1>2
<1>4. PICK n \in Bad : \A m \in Bad : n <= m
  <2>1. Bad \in SUBSET Nat
    OBVIOUS
  <2> HIDE DEF Bad
  <2>2. QED
    BY <1>3, <2>1, SmallestOf
<1>5. PICK U \in SUBSET S : U \notin Good /\ Cardinality(U) = n
  OBVIOUS
<1>6. PICK x \in U : U \ {x} \notin Good
  BY <1>5
<1>7. IsFiniteSet(U \ {x}) /\ Cardinality(U \ {x}) = n - 1 /\ n \in Nat
  BY <1>2, <1>5, <1>6, FS_RemoveElement
<1>8. Cardinality(U \ {x}) \in Nat /\ U \ {x} \in SUBSET S
  BY <1>2
<1>9. n - 1 \in Bad
  BY <1>6, <1>7, <1>8
<1>10. QED
  BY <1>4, <1>7, <1>9

\* A function may be defined by what it is for the empty set and how it goes on
\* from a set without the element that is picked from it.
IsPick(S, pick) == \A T \in SUBSET S : T # {} => pick[T] \in T
IsFold(S, f, pick, base, step) ==
  \A T \in SUBSET S : f[T] = IF T = {} THEN base ELSE step[<<pick[T], f[T \ {pick[T]}]>>]

\* A function that takes out one element after the other is defined.
LEMMA FoldExists ==
  ASSUME NEW S, IsFiniteSet(S), NEW pick, IsPick(S, pick), NEW V,
         NEW base \in V, NEW step \in [S \X V -> V]
  PROVE  \E f \in [SUBSET S -> V] : IsFold(S, f, pick, base, step)
<1> DEFINE Small(n) == {T \in SUBSET S : Cardinality(T) <= n}
           Goes(f, T) == f[T] = IF T = {} THEN base ELSE step[<<pick[T], f[T \ {pick[T]}]>>]
           Up(n) == \E f \in [Small(n) -> V] : \A T \in Small(n) : Goes(f, T)
           Bad == {n \in Nat : ~Up(n)}
<1>1. \A T \in SUBSET S : IsFiniteSet(T) /\ Cardinality(T) \in Nat /\ Cardinality(T) <= Cardinality(S)
  BY FS_Subset, FS_CardinalityType
<1>2. Cardinality(S) \in Nat
  BY FS_CardinalityType
<1>3. \A T \in SUBSET S : T # {} =>
         /\ pick[T] \in S /\ T \ {pick[T]} \in SUBSET S
         /\ Cardinality(T \ {pick[T]}) = Cardinality(T) - 1
  BY <1>1, FS_RemoveElement DEF IsPick
<1>4. Up(0)
  <2>1. \A T \in Small(0) : T = {}
    BY <1>1, FS_EmptySet
  <2>2. [T \in Small(0) |-> base] \in [Small(0) -> V]
    OBVIOUS
  <2>3. \A T \in Small(0) : Goes([U \in Small(0) |-> base], T)
    BY <2>1
  <2>4. QED
    BY <2>2, <2>3
<1>5. ASSUME NEW n \in Nat, Up(n) PROVE Up(n + 1)
  <2>1. PICK f \in [Small(n) -> V] : \A T \in Small(n) : Goes(f, T)
    BY <1>5
  <2> DEFINE g == [T \in Small(n + 1) |->
                     IF T = {} THEN base ELSE step[<<pick[T], f[T \ {pick[T]}]>>]]
  <2>2. \A T \in Small(n + 1) : T # {} => T \ {pick[T]} \in Small(n) /\ pick[T] \in S
    BY <1>1, <1>3
  <2>3. g \in [Small(n + 1) -> V]
    BY <2>2
  <2>4. \A T \in Small(n) : T \in Small(n + 1) /\ g[T] = f[T]
    BY <1>1, <2>1
  <2>5. \A T \in Small(n + 1) : Goes(g, T)
    BY <2>2, <2>4
  <2>6. QED
    BY <2>3, <2>5
<1>6. Up(Cardinality(S))
  <2>1. SUFFICES ASSUME Bad # {} PROVE FALSE
    BY <1>2
  <2>2. PICK n \in Bad : \A m \in Bad : n <= m
    <3>1. Bad \in SUBSET Nat
      OBVIOUS
    <3> HIDE DEF Bad
    <3>2. QED
      BY <2>1, <3>1, SmallestOf
  <2>3. n \in Nat /\ ~Up(n)
    OBVIOUS
  <2> HIDE DEF Up
  <2>4. n # 0
    BY <1>4, <2>3
  <2>5. n - 1 \in Nat
    BY <2>3, <2>4
  <2>6. CASE Up(n - 1)
    <3>1. Up((n - 1) + 1)
      BY <1>5, <2>5, <2>6
    <3>2. (n - 1) + 1 = n
      BY <2>3
    <3>3. QED
      BY <2>3, <3>1, <3>2
  <2>7. CASE ~Up(n - 1)
    <3>1. n - 1 \in Bad
      BY <2>5, <2>7
    <3>2. QED
      BY <2>2, <2>3, <3>1
  <2>8. QED
    BY <2>6, <2>7
<1>7. Small(Cardinality(S)) = SUBSET S
  BY <1>1
<1>8. PICK f \in [SUBSET S -> V] : \A T \in SUBSET S : Goes(f, T)
  BY <1>6, <1>7
<1>9. QED
  BY <1>7, <1>8 DEF IsFold

-----------------------------------------------------------------------------
(* The $reduce, after the stays up to one that arrives last. *)

Latest(some) == CHOOSE s \in some : \A t \in some : t.from <= s.from
Moved(day, stay) == IF Pushes(day, stay) THEN DayOf(stay.to) ELSE day

\* A set of stays has one that arrives last.
LEMMA LatestExists ==
  ASSUME NEW stays, AreStays(stays), IsFiniteSet(stays)
  PROVE  \A some \in SUBSET stays : some # {} =>
           /\ Latest(some) \in some
           /\ \A t \in some : t.from <= Latest(some).from
<1> DEFINE Good == {some \in SUBSET stays : some # {} => \E s \in some : \A t \in some : t.from <= s.from}
<1>1. ASSUME NEW T \in SUBSET stays, \A x \in T : T \ {x} \in Good PROVE T \in Good
  <2>1. SUFFICES ASSUME T # {} PROVE \E s \in T : \A t \in T : t.from <= s.from
    OBVIOUS
  <2>2. PICK x \in T : TRUE
    BY <2>1
  <2>3. \A t \in T : t.from \in Nat
    BY DEF AreStays, IsStay
  <2>4. CASE T \ {x} = {}
    BY <2>2, <2>3, <2>4
  <2>5. CASE T \ {x} # {}
    <3>1. PICK s \in T \ {x} : \A t \in T \ {x} : t.from <= s.from
      BY <1>1, <2>2, <2>5
    <3>2. CASE x.from <= s.from
      BY <3>1, <3>2
    <3>3. CASE s.from <= x.from
      <4>1. \A t \in T : t.from <= x.from
        BY <2>2, <2>3, <3>1, <3>3
      <4>2. QED
        BY <2>2, <4>1
    <3>4. QED
      BY <2>2, <2>3, <3>2, <3>3
  <2>6. QED
    BY <2>4, <2>5
<1>2. \A T \in SUBSET stays : T \in Good
  <2> HIDE DEF Good
  <2>1. QED
    BY <1>1, SetInduction
<1>3. ASSUME NEW some \in SUBSET stays, some # {}
      PROVE  Latest(some) \in some /\ \A t \in some : t.from <= Latest(some).from
  <2>1. \E s \in some : \A t \in some : t.from <= s.from
    BY <1>2, <1>3
  <2>2. QED
    BY <2>1 DEF Latest
<1>4. QED
  BY <1>3

\* And there is a time when all are over.
LEMMA StaysEnd ==
  ASSUME NEW stays, AreStays(stays), IsFiniteSet(stays)
  PROVE  \E last \in Nat : \A s \in stays : s.from <= last /\ s.to <= last
<1> DEFINE Good == {some \in SUBSET stays :
                      \E last \in Nat : \A s \in some : s.from <= last /\ s.to <= last}
<1>1. ASSUME NEW T \in SUBSET stays, \A x \in T : T \ {x} \in Good PROVE T \in Good
  <2>1. CASE T = {}
    BY <2>1
  <2>2. CASE T # {}
    <3>1. PICK x \in T : T \ {x} \in Good
      BY <1>1, <2>2
    <3>2. PICK n \in Nat : \A s \in T \ {x} : s.from <= n /\ s.to <= n
      BY <3>1
    <3>3. x.from \in Nat /\ x.to \in Nat /\ \A s \in T : s.from \in Nat /\ s.to \in Nat
      BY DEF AreStays, IsStay
    <3>4. n + x.from + x.to \in Nat /\ x.from <= n + x.from + x.to /\ x.to <= n + x.from + x.to
      BY <3>3
    <3>5. \A s \in T \ {x} : s.from <= n + x.from + x.to /\ s.to <= n + x.from + x.to
      BY <3>2, <3>3
    <3>6. \A s \in T : s.from <= n + x.from + x.to /\ s.to <= n + x.from + x.to
      BY <3>4, <3>5
    <3>7. QED
      BY <3>4, <3>6
  <2>3. QED
    BY <2>1, <2>2
<1>2. stays \in Good
  <2>1. \A T \in SUBSET stays : T \in Good
    <3> HIDE DEF Good
    <3>1. QED
      BY <1>1, SetInduction
  <2>2. QED
    BY <2>1
<1>3. QED
  BY <1>2

\* What one stay after the other does to the day found: those seen are over by
\* then or begin after the week, and if they keep the hours of the house they have
\* taken every week that begins earlier.
Cleared(some, today, day) ==
  /\ day \in Nat /\ day >= today
  /\ \A s \in some : DayOf(s.to) <= day \/ s.from >= Departure(day + 7)
  /\ (\A s \in some : Proper(s)) => \A m \in today .. day - 1 : ~FreeWeek(some, m)

\* One more stay, the latest, keeps the day found clear of all so far.
LEMMA ClearedStep ==
  ASSUME NEW some, AreStays(some), NEW s \in some, \A t \in some : t.from <= s.from,
         \A t \in some : t.from < t.to,
         NEW today \in Nat, NEW day, Cleared(some \ {s}, today, day)
  PROVE  Cleared(some, today, Moved(day, s))
<1>1. day \in Nat /\ day >= today
  BY DEF Cleared
<1>2. \A t \in some : /\ t.from \in Nat /\ t.to \in Nat
                      /\ DayOf(t.from) \in Nat /\ t.from % 3 \in 0 .. 2 /\ t.from = 3 * DayOf(t.from) + (t.from % 3)
                      /\ DayOf(t.to) \in Nat /\ t.to % 3 \in 0 .. 2 /\ t.to = 3 * DayOf(t.to) + (t.to % 3)
  BY DayOfMoment DEF AreStays, IsStay
<1> DEFINE f == DayOf(s.from)
           e == DayOf(s.to)
<1>3. /\ f \in Nat /\ s.from % 3 \in 0 .. 2 /\ s.from = 3 * f + (s.from % 3)
      /\ e \in Nat /\ s.to % 3 \in 0 .. 2 /\ s.to = 3 * e + (s.to % 3) /\ s.from < s.to
  BY <1>2
<1>4. CASE ~Pushes(day, s)
  <2>1. Moved(day, s) = day
    BY <1>4 DEF Moved
  <2>2. e <= day \/ s.from >= Departure(day + 7)
    <3>1. s.from >= 3 * (day + 7) + 1 \/ s.to <= 3 * day + 2 \/ e = day
      BY <1>1, <1>3, <1>4 DEF Pushes, Departure, Arrival
    <3> HIDE DEF e, f
    <3>2. QED
      BY <1>1, <1>3, <3>1 DEF Departure
  <2>3. \A t \in some : DayOf(t.to) <= day \/ t.from >= Departure(day + 7)
    BY <2>2 DEF Cleared
  <2>4. (\A t \in some : Proper(t)) => \A m \in today .. day - 1 : ~FreeWeek(some, m)
    BY DEF Cleared, FreeWeek
  <2>5. QED
    BY <1>1, <2>1, <2>3, <2>4 DEF Cleared
<1>5. CASE Pushes(day, s)
  <2>1. Moved(day, s) = e
    BY <1>5 DEF Moved
  <2>2. \/ f = day
        \/ s.from < 3 * (day + 7) + 1 /\ s.to > 3 * day + 2
    BY <1>5 DEF Pushes, Departure, Arrival
  <2> HIDE DEF e, f
  <2>3. e >= day /\ s.from < 3 * (day + 7) + 1
    BY <1>1, <1>3, <2>2
  <2>4. \A t \in some : DayOf(t.to) <= e
    <3> SUFFICES ASSUME NEW t \in some PROVE DayOf(t.to) <= e
      OBVIOUS
    <3>1. CASE t = s
      BY <1>3, <3>1 DEF e
    <3>2. CASE t # s
      <4>1. DayOf(t.to) <= day \/ t.from >= 3 * (day + 7) + 1
        BY <3>2 DEF Cleared, Departure
      <4>2. t.from <= s.from /\ t.from \in Nat /\ DayOf(t.to) \in Nat
        BY <1>2
      <4>3. QED
        BY <1>1, <1>3, <2>3, <4>1, <4>2
    <3>3. QED
      BY <3>1, <3>2
  <2>5. ASSUME \A t \in some : Proper(t), NEW m \in today .. e - 1
        PROVE  ~FreeWeek(some, m)
    <3>1. m \in Nat /\ m < e /\ m >= today
      BY <1>3
    <3>2. CASE m < day
      <4>1. ~FreeWeek(some \ {s}, m)
        <5>1. m \in today .. day - 1
          BY <1>1, <3>1, <3>2
        <5>2. QED
          BY <2>5, <5>1 DEF Cleared
      <4>2. QED
        BY <4>1 DEF FreeWeek
    <3>3. CASE m >= day
      <4>1. f < e /\ f < m + 7
        <5>1. s.from = 3 * f + 2 /\ s.to = 3 * e + 1
          BY <1>3, <2>5 DEF Proper
        <5>2. QED
          BY <1>1, <1>3, <2>3, <3>1, <3>3, <5>1
      <4>2. (f .. e - 1) \cap (m .. (m + 7) - 1) # {}
        <5>1. f \in Int /\ e \in Int /\ m \in Int /\ m + 7 \in Int /\ m < e /\ m < m + 7
          BY <1>3, <3>1
        <5>2. QED
          BY ONLY <4>1, <5>1, SharedNight
      <4>3. Week(m) = m .. (m + 7) - 1
        BY <3>1 DEF Week
      <4>4. Nights(s) \cap Week(m) # {}
        BY <4>2, <4>3 DEF Nights, f, e
      <4>5. QED
        BY <4>4 DEF FreeWeek
    <3>4. QED
      BY <1>1, <3>1, <3>2, <3>3
  <2>6. e >= today
    BY <1>1, <1>3, <2>3
  <2>7. QED
    BY <1>3, <2>1, <2>4, <2>5, <2>6 DEF Cleared
<1>6. QED
  BY <1>4, <1>5

\* The week is free, though the stays are gone through only once; and where all
\* keep the hours of the house, no earlier one is.
THEOREM SortFindsFirstWeek ==
  ASSUME NEW stays, AreStays(stays), IsFiniteSet(stays), \A s \in stays : s.from < s.to,
         NEW today \in Nat
  PROVE  /\ NextWeekBySort(stays, today) \in Nat /\ NextWeekBySort(stays, today) >= today
         /\ FreeWeek(stays, NextWeekBySort(stays, today))
         /\ (\A s \in stays : Proper(s)) =>
              \A day \in today .. NextWeekBySort(stays, today) - 1 : ~FreeWeek(stays, day)
<1> DEFINE IsReduce(g) == g = [some \in SUBSET stays |->
                               IF some = {} THEN today
                               ELSE IF Pushes(g[some \ {Latest(some)}], Latest(some))
                                    THEN DayOf(Latest(some).to) ELSE g[some \ {Latest(some)}]]
           pick == [some \in SUBSET stays |-> Latest(some)]
           step == [p \in stays \X Int |-> Moved(p[2], p[1])]
<1>1. NextWeekBySort(stays, today) = (CHOOSE g : IsReduce(g))[stays]
  BY DEF NextWeekBySort, Latest
<1>2. IsPick(stays, pick)
  BY LatestExists DEF IsPick
<1>3. step \in [stays \X Int -> Int]
  <2>1. \A s \in stays, d \in Int : Moved(d, s) \in Int
    <3>1. \A s \in stays : DayOf(s.to) \in Int
      BY DayOfMoment DEF AreStays, IsStay
    <3>2. QED
      BY <3>1 DEF Moved
  <2>2. \A p \in stays \X Int : p[1] \in stays /\ p[2] \in Int
    OBVIOUS
  <2>3. \A p \in stays \X Int : Moved(p[2], p[1]) \in Int
    BY <2>1, <2>2
  <2>4. QED
    BY <2>3
<1>4. \E g : IsReduce(g)
  <2>1. PICK g \in [SUBSET stays -> Int] : IsFold(stays, g, pick, today, step)
    <3> HIDE DEF pick, step
    <3>1. today \in Int
      OBVIOUS
    <3>2. QED
      BY <1>2, <1>3, <3>1, FoldExists
  <2>2. \A some \in SUBSET stays : some # {} =>
           step[<<pick[some], g[some \ {pick[some]}]>>] = Moved(g[some \ {Latest(some)}], Latest(some))
    BY <1>2, <2>1 DEF IsPick
  <2>3. \A some \in SUBSET stays :
           g[some] = IF some = {} THEN today ELSE Moved(g[some \ {Latest(some)}], Latest(some))
    BY <2>1, <2>2 DEF IsFold
  <2>4. IsReduce(g)
    BY <2>1, <2>3 DEF Moved
  <2>5. QED
    BY <2>4
<1>5. PICK g : IsReduce(g) /\ NextWeekBySort(stays, today) = g[stays]
  BY <1>1, <1>4
<1>6. \A some \in SUBSET stays :
         g[some] = IF some = {} THEN today ELSE Moved(g[some \ {Latest(some)}], Latest(some))
  BY <1>5 DEF Moved
<1> HIDE DEF IsReduce
<1> DEFINE Good == {some \in SUBSET stays : Cleared(some, today, g[some])}
<1>7. ASSUME NEW T \in SUBSET stays, \A x \in T : T \ {x} \in Good PROVE T \in Good
  <2>1. CASE T = {}
    <3>1. g[T] = today
      BY <1>6, <2>1
    <3>2. QED
      BY <2>1, <3>1 DEF Cleared
  <2>2. CASE T # {}
    <3>1. Latest(T) \in T /\ \A t \in T : t.from <= Latest(T).from
      BY <2>2, LatestExists
    <3>2. Cleared(T \ {Latest(T)}, today, g[T \ {Latest(T)}])
      BY <1>7, <3>1
    <3>3. AreStays(T) /\ \A t \in T : t.from < t.to
      BY DEF AreStays
    <3>4. Cleared(T, today, Moved(g[T \ {Latest(T)}], Latest(T)))
      BY <3>1, <3>2, <3>3, ClearedStep
    <3>5. QED
      BY <1>6, <2>2, <3>4
  <2>3. QED
    BY <2>1, <2>2
<1>8. stays \in Good
  <2>1. \A T \in SUBSET stays : T \in Good
    <3> HIDE DEF Good
    <3>1. QED
      BY <1>7, SetInduction
  <2>2. QED
    BY <2>1
<1>9. Cleared(stays, today, g[stays])
  BY <1>8
<1> DEFINE week == g[stays]
<1> HIDE DEF week
<1>10. FreeWeek(stays, week)
  <2> SUFFICES ASSUME NEW s \in stays PROVE Nights(s) \cap Week(week) = {}
    BY DEF FreeWeek
  <2>1. week \in Nat /\ (DayOf(s.to) <= week \/ s.from >= 3 * (week + 7) + 1)
    BY <1>9 DEF Cleared, Departure, week
  <2>2. DayOf(s.from) \in Nat /\ s.from = 3 * DayOf(s.from) + (s.from % 3) /\ s.from % 3 \in 0 .. 2
        /\ DayOf(s.to) \in Nat
    BY DayOfMoment DEF AreStays, IsStay
  <2>3. DayOf(s.to) <= week \/ DayOf(s.from) >= week + 7
    <3> HIDE DEF DayOf
    <3>1. QED
      BY <2>1, <2>2
  <2>4. QED
    BY <2>1, <2>2, <2>3 DEF Nights, Week
<1>11. QED
  BY <1>5, <1>9, <1>10 DEF Cleared, week

=============================================================================
