SPECIFICATION Spec
CONSTANTS
  Callers = {c1}
  foreign = foreign
  Levels = {"info"}
  Categories = {"flow"}
  Filters <- Everything
  AnyLevel = AnyLevel
  Unread = Unread
  NoOne = NoOne
  MaxRows = 2
  MaxTime = 2
INVARIANT NewestFirst
