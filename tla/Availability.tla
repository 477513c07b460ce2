---------------------------- MODULE Availability ----------------------------
(***************************************************************************)
(* When a room is free: the two searches for its next free week, the test  *)
(* the room search makes, and the one createBooking makes.                 *)
(*                                                                         *)
(* A moment is 3 times a day plus 0 for midnight UTC, where a date without *)
(* a time falls, 1 for 05:00 UTC (noon at the resort, when guests leave),  *)
(* 2 for 07:00 UTC (14:00, when they arrive).  A stay is a record with the *)
(* moments from and to.                                                    *)
(***************************************************************************)
EXTENDS Integers, SequencesExt

DayOf(moment) == moment \div 3
Arrival(day) == 3 * day + 2
Departure(day) == 3 * day + 1
None == -1  \* a date that is not given

-----------------------------------------------------------------------------
(* RoomService.calculateNextAvailableWeek: try one day after the other. *)

\* hasOverlap, for the week that begins on day.
HasOverlap(day, stay) ==
  \/ DayOf(stay.from) = day
  \/ /\ DayOf(stay.to) # day
     /\ Arrival(day) < stay.to /\ Departure(day + 7) > stay.from

\* Mutant: the day a guest leaves is no exception.
NextWeekByDayClosed(stays, today) ==
  LET Try[day \in Nat] ==
        IF \E s \in stays : Arrival(day) <= s.to + 1 /\ Departure(day + 7) > s.from
        THEN Try[day + 1] ELSE day
  IN Try[today]

\* The first day of the week found.
NextWeekByDay(stays, today) ==
  LET Try[day \in Nat] ==
        IF \E s \in stays : HasOverlap(day, s) THEN Try[day + 1] ELSE day
  IN Try[today]

-----------------------------------------------------------------------------
(* RoomService.filterRoomsByRoomTypeFields: a $reduce over the stays in the *)
(* order of their arrivals.                                                *)

\* The condition of its $cond.
Pushes(day, stay) ==
  \/ stay.from < Departure(day + 7) /\ stay.to > Arrival(day) /\ DayOf(stay.to) # day
  \/ DayOf(stay.from) = day

NextWeekBySort(stays, today) ==
  LET Latest(some) == CHOOSE s \in some : \A t \in some : t.from <= s.from
      After[some \in SUBSET stays] ==
        IF some = {} THEN today
        ELSE LET s == Latest(some)
                 day == After[some \ {s}]
             IN IF Pushes(day, s) THEN DayOf(s.to) ELSE day
  IN After[stays]

\* Its isAvailable, for the dates searched.  MongoDB orders a missing date
\* below every other.
IsAvailable(stays, checkin, checkout) ==
  ~\E s \in stays : /\ checkout # None /\ s.from < checkout
                    /\ checkin = None \/ s.to > checkin

\* The overlap query of createBooking: a stay that is in the way.
InTheWay(stay, checkin, checkout) == stay.from < checkout /\ stay.to > checkin

-----------------------------------------------------------------------------
\* The nights of a stay, and of the week that begins on day.
Nights(stay) == DayOf(stay.from) .. DayOf(stay.to) - 1
Week(day) == day .. day + 6
FreeWeek(stays, day) == \A s \in stays : Nights(s) \cap Week(day) = {}
\* A guest comes at 14:00 and leaves at noon of a later day.
Proper(stay) == stay.from % 3 = 2 /\ stay.to % 3 = 1 /\ Nights(stay) # {}
=============================================================================
