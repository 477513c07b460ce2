SPECIFICATION ReservationSpec
CONSTANTS
  Requests = {r1, r2}
  Users = {u1, u2}
  p1 = p1
  plain = plain
  capitals = capitals
  Spellings <- Both
  Plain = plain
  roomA = roomA
  roomB = roomB
  spa = spa
  Promos = {p1}
  Amounts <- OneOrTwo
  Serial = FALSE
  Rooms = {roomA, roomB}
  Services = {spa}
  Asks <- PlainAsks
  Gratis <- Nothing
  Faults = FALSE
SYMMETRY Symmetry
INVARIANTS NoDoubleBooking
CHECK_DEADLOCK FALSE
