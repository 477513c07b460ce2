--------------------------- MODULE MCReservation ---------------------------
(* Instances of Reservation for TLC.  The asks share nights (1-3 and 2-4), *)
(* touch without sharing (1-3 and 3-5), are for another room, or have their *)
(* dates the wrong way round; with and without promotion, services (one    *)
(* of them twice, or spelt otherwise) and transfer.  One stay of roomA is  *)
(* asked for by another spelling of its id.                                *)
EXTENDS Reservation, TLC

CONSTANTS roomA, roomB, spa, p1, plain, capitals

Ask(room, spelling, from, to, withPromo, wants, transfer) ==
  [room |-> room, roomAs |-> spelling, from |-> from, to |-> to,
   withPromo |-> withPromo, wants |-> wants, transfer |-> transfer]

Spa == <<spa, plain>>
\* Two requests: every kind of ask meets every other.
WideAsks == { Ask(roomA, plain,    1, 3, TRUE,  <<>>, TRUE),
              Ask(roomA, plain,    2, 4, TRUE,  <<Spa>>, FALSE),
              Ask(roomA, plain,    3, 5, FALSE, <<>>, TRUE),
              Ask(roomA, capitals, 2, 4, FALSE, <<Spa>>, TRUE),
              Ask(roomB, plain,    1, 3, TRUE,  <<Spa>>, TRUE),
              Ask(roomB, plain,    1, 2, TRUE,  <<Spa, Spa>>, FALSE),
              Ask(roomB, plain,    2, 3, FALSE, <<<<spa, capitals>>>>, FALSE),
              Ask(roomB, plain,    4, 2, FALSE, <<>>, FALSE) }
\* Three requests: overlapping and touching stays in one room, one of them under
\* the other spelling of its id.
NarrowAsks == { Ask(roomA, plain,    1, 3, TRUE,  <<>>, FALSE),
                Ask(roomA, plain,    2, 4, FALSE, <<>>, FALSE),
                Ask(roomA, capitals, 3, 5, TRUE,  <<>>, FALSE) }
\* Stays whose requests write the room's id as the server does.
PlainAsks == {a \in NarrowAsks : a.roomAs = plain}

OneOrTwo == {1, 2}
Both == {plain, capitals}
\* A free stay by its promotion, and one that costs nothing to begin with.
FreeNights == { <<Ask(roomA, plain, 1, 3, TRUE, <<>>, TRUE), {p1}>>,
                <<Ask(roomA, plain, 3, 5, FALSE, <<>>, TRUE), {}>> }
Nothing == {}
Symmetry == Permutations(Requests) \cup Permutations(Users)
=============================================================================
