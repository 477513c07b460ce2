SPECIFICATION Spec
CONSTANTS
  Requests = {r1, r2}
  ann = ann
  own = own
  google = google
  Emails = {ann}
  Passwords = {own, google}
  GooglePassword = google
  Asks <- LoginAsks
SYMMETRY Symmetry
PROPERTIES IncorrectIsWrong
CHECK_DEADLOCK FALSE
