CONSTANTS
  w1 = w1
  w2 = w2
  m1 = m1
  e1 = e1
  e2 = e2
  d1 = d1
  d2 = d2
  Absent = Absent
  Empty = Empty
  Torn = Torn
  Writers <- MCWriters
  Mutable <- MCMutable
  AppendOnly <- MCAppendOnly
  Linkless <- MCLinkless
  Data <- MCData
SPECIFICATION Spec
INVARIANTS
  NoHalfWritten
  ClaimHonoured
  OneWinner
PROPERTIES
  AppendOnlyKept
  ImplementsAtomicArtifacts
SYMMETRY Symmetry
