SPECIFICATION Spec
CONSTANTS
  a = a
  b = b
  c = c
  Invoices = {a, b, c}
  Handlers = {h1, h2}
  Strays = {"PAID"}
  MaxDeliveries = 2
  Scenarios <- Either
INVARIANTS StatusIsKnown MailIsSound
PROPERTIES StatusGoesForward Settles
CHECK_DEADLOCK FALSE
