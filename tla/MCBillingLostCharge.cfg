SPECIFICATION Spec
CONSTANTS
  Requests = {r1, r2, r3}
  spa = spa
  tour = tour
  meal = meal
  bar = bar
  ServiceIds = {spa, tour}
  RoomServiceIds = {meal, bar}
  Prices = {1, 2}
  RoomCharge = 2
  Changing = {}
  Ops <- AllOps
  FirstServices <- FirstLists
  Faults = TRUE
SYMMETRY Symmetry
CHECK_DEADLOCK FALSE
INVARIANT ChargesAreComplete
