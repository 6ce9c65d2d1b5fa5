SPECIFICATION LeavesSpec
CONSTANTS
  Callers = {c1, c2}
  MaxMs = 2
  MaxEntropy = 3
  MaxStep = 2
  MaxBacks = 1
  MaxCalls = 4
  Texts <- AllTexts
  NoText <- EmptyText
  Outputs <- SomeOutputs
  ann = ann
  sha1 = sha1
  sha2 = sha2
  Words <- SomeWords
  Blank = blank
  NoValue = unset
  Commits = {sha1, sha2}
  Numbers <- Components
  Minimum <- LeastGit
  MaxChanges = 3
  Foreign <- OtherOutput
  Files <- SomeFiles
  FileLines <- LineTexts
  Trees <- SomeTrees
  Streams <- SomeStreams
  DecodesTo <- IsDecoding
  Malformed = malformed
  Envelope <- SomeEnvelope
  Business <- SomeBusiness
  Conditional = {"originTaskRef"}
  Nested = {"assignee"}
  Unknown = {"priority"}
INVARIANTS
  CreationOrder
  StatusFaithful
  BlockReassembles
  OnlyPlainAccepted
  OnlyFaultsNamed
PROPERTY AnswersWhole
CHECK_DEADLOCK FALSE
