CONSTANTS
  Calendar <- MCCalendar
  Scenarios <- MCScenarios
  MaxChanges = 3
SPECIFICATION Spec
CHECK_DEADLOCK FALSE
INVARIANTS FollowerMissesNothing
