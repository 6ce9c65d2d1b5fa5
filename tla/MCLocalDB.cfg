SPECIFICATION Spec
CONSTANTS
  Processes = {p1, p2}
  Current = 1
  Generations <- Builds
  NoFile = NoFile
  NoHandle = NoHandle
  Closed = Closed
  NoOne = NoOne
  MaxFiles = 4
INVARIANTS
  GenerationTrusted
  OneDatabase
  RebuildStartsEmpty
PROPERTY ResetFailsLoudly
SYMMETRY Alike
