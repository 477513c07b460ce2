CONSTANTS
  Calendar <- MCCalendar
  Scenarios <- MCScenarios
  MaxChanges = 3
SPECIFICATION Spec
INVARIANTS FiguresAddUp WeekIsFree OffersAreReal PagesAddUp
CHECK_DEADLOCK FALSE
