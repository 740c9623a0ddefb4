\* Three events of four kinds, three days of two instants, pages of one event.
CONSTANTS
  Event = {e1, e2, e3}
  Kind <- MCKind
  Query <- MCQuery
  DayLength = 2
  MaxTime = 4
  PageSize = 1
  Nothing = Nothing
SPECIFICATION FeedsSpec
SYMMETRY Symmetry
INVARIANT LabelFound
PROPERTIES NothingSkipped ScopesAdvance
CHECK_DEADLOCK FALSE
