SPECIFICATION CoreSpec
CONSTANTS
  dev = dev
  prod = prod
  stray = stray
  question = question
  None = None
  Environments <- MCEnvironments
  Names <- MCNames
  Blockers <- MCBlockers
  Histories <- MCHistories
  MaxHistory = 13
  Decisions = {d1, d2}
  Contents = {c1, c2}
  Absent = Absent
  Unreplaced = Unreplaced
  Fields = {f1}
  ExitCodes = {0, 1}
  Pointer = {x1}
  Nil = Nil
  Zero = Zero
  MaxLogs = 4
  MaxCopies = 1
  MaxLength = 2
  MaxSpare = 1
INVARIANTS
  HistoryIsAWalk
  CompletedWhereDeclared
  EntriesKept
  StoredWhereDeclared
PROPERTIES
  AcceptedByUpdateGate
  LoopNotSkipped
  ContentImmutable
  SupersededForGood
CHECK_DEADLOCK FALSE
