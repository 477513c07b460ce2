SPECIFICATION Spec
CONSTANTS
  Requests = {r1, r2, r3}
  Stock <- SmallStock
  Names = {"x", "y", "z"}
  Prices = {1, 2, 4, 6, 7}
  Scores = {6, 17, 30}
  Entries <- TwoBookings
  Asks <- AllAsks
SYMMETRY Symmetry
INVARIANTS CatalogIsSound PriceNearBase AverageOfRatings ListsHold
PROPERTIES AloneIsExact
CHECK_DEADLOCK FALSE
