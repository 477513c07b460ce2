SPECIFICATION Spec
CONSTANTS
  Requests = {r1, r2, r3}
  ann = ann
  own = own
  google = google
  Emails = {ann}
  Passwords = {own, google}
  GooglePassword = google
  Asks <- AllAsks
SYMMETRY Symmetry
INVARIANTS AccountsAreSound SessionsLast ResetOnce StaffTypes
PROPERTIES LinksBindAccounts
CHECK_DEADLOCK FALSE
