SPECIFICATION Spec
CONSTANTS
  Callers = {c1, c2}
  foreign = foreign
  Levels <- AllLevels
  Categories = {"document", "flow"}
  Filters <- AllFilters
  AnyLevel = AnyLevel
  Unread = Unread
  NoOne = NoOne
  MaxRows = 2
  MaxTime = 3
INVARIANTS
  HeadOfMatches
PROPERTIES
  ReadOnce
  AllOrNothing
