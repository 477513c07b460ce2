SPECIFICATION ReservationSpec
CONSTANTS
  Requests = {r1, r2, r3}
  Users = {u1, u2}
  p1 = p1
  plain = plain
  capitals = capitals
  Spellings <- Both
  Plain = plain
  roomA = roomA
  roomB = roomB
  spa = spa
  Promos = {p1}
  Amounts <- OneOrTwo
  Serial = TRUE
  Rooms = {roomA}
  Services = {}
  Asks <- NarrowAsks
  Gratis <- Nothing
  Faults = TRUE
SYMMETRY Symmetry
INVARIANTS NoDoubleBookingAsSpelt OneDiscountPerCustomer DiscountsWithinStock RedemptionsAreExact
PROPERTIES CalendarSpec LedgerSpec
CHECK_DEADLOCK FALSE
