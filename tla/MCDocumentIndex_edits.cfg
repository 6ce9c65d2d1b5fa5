SPECIFICATION FairSpec
CONSTANTS
  Paths = {1, 2}
  LowerOf <- OwnLower
  Docs <- LinkedPair
  x = x
  y = y
  t = t
  Ids = {x, y}
  Artifacts = {t}
  Absent = Absent
  Broken = Broken
  Unread = Unread
  Indexers = {i1, i2}
  NoOne = NoOne
  MaxRuns = 2
  MaxEdits = 1
INVARIANTS
  NoticesAreMarked
  CurrentUnlessEdited
PROPERTIES
  NothingDropped
  ImplementsRegister
  RunsEnd
CHECK_DEADLOCK FALSE
