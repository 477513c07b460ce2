SPECIFICATION Spec
CONSTANTS
  Requests = {r1, r2, r3}
  Users = {u1, u2}
  Promos = {p1, p2}
  Amounts <- MCAmounts
  Spellings = {plain, capitals}
  Plain = plain
  Serial = FALSE
SYMMETRY Symmetry
INVARIANTS TypeOK AmountBounds NoStockLost EntryIsDebited
CHECK_DEADLOCK FALSE
