SPECIFICATION Spec
CONSTANTS
  NSlots = 2
  ChunkMax = 2
  ChunksPerRound = 2
  MaxTries = 2
  MaxSeq = 3
  Tid = {1, 2}
  UserTid = {1, 2}
  File = {"f", "g"}
  LegalName = {"f", "g"}
  SendFiles = {}
  FileSize <- MCFileSize
  InitSize = {0, 3}
  Span <- MCSpan
  Name = {"x", "y", "z"}
  Candidate <- MCCandidate
  Preexisting = {"x"}
  FlushMayFail = FALSE
  MayBeKilled = FALSE
  NoFile = NoFile
  NoName = NoName
INVARIANTS SavedComplete ReceivedMatchesDisk InitsInOrder
PROPERTIES FrozenWhileReceiving
