SPECIFICATION Spec
CONSTANTS
  p1 = p1
  p2 = p2
  t1 = t1
  c1 = c1
  e1 = e1
  id1 = id1
  id2 = id2
  es = es
  en = en
  ann = ann
  bob = bob
  Nameless = Nameless
  Config = Config
  Roster = Roster
  Absent = Absent
  Claimed = Claimed
  Processes <- MCProcesses
  MaxTime = 1
  MaxBacks = 1
  Tasks <- MCTasks
  Decisions <- MCDecisions
  Entries <- MCEntries
  Linkless <- MCEntries
  SingletonIds <- MCSingletonIds
  Languages <- MCLanguages
  Names <- MCNames
  Rosters <- MCRosters
  RefChoices <- MCRefs
  Serialized <- MCSerialized
SYMMETRY Symmetry
CONSTRAINT FewFiles
INVARIANTS
  ReferencesResolve
  OwnWriteReturned
PROPERTIES
  OriginKept
  KeptInTurn
