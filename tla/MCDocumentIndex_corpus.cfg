SPECIFICATION Spec
CONSTANTS
  Paths = {1, 2, 3}
  LowerOf <- TwinLower
  Docs <- AtMostOneRelation
  x = x
  y = y
  t = t
  Ids = {x, y}
  Artifacts = {t}
  Absent = Absent
  Broken = Broken
  Unread = Unread
  Indexers = {i1}
  NoOne = NoOne
  MaxRuns = 1
  MaxEdits = 0
INVARIANT LostTargetsReported
PROPERTY RebuildMatchesCorpus
CHECK_DEADLOCK FALSE
