---------------------------- MODULE RoomCalendar ----------------------------
(***************************************************************************)
(* What a booking promises: a night of a room goes to one booking, and a   *)
(* booking once made stays as it is.  Reservation implements this when     *)
(* requests come one at a time.                                            *)
(***************************************************************************)
EXTENDS Integers

CONSTANTS
  Requests,  \* who may book
  Stays      \* records: a room, the first night, the day of departure

VARIABLE booked  \* a function from those who have booked to their stays

Clash(s, t) == s.room = t.room /\ s.from < t.to /\ t.from < s.to

Init == booked = [r \in {} |-> {}]

\* r books stay s, free until now.
Reserve(r, s) ==
  /\ r \notin DOMAIN booked
  /\ \A q \in DOMAIN booked : ~Clash(booked[q], s)
  /\ booked' = [q \in DOMAIN booked \cup {r} |-> IF q = r THEN s ELSE booked[q]]

Next == \E r \in Requests, s \in Stays : Reserve(r, s)

Spec == Init /\ [][Next]_booked
=============================================================================
