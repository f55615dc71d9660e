SPECIFICATION Spec
CONSTANTS
  NSlots = 1
  ChunkMax = 2
  ChunksPerRound = 2
  MaxTries = 2
  MaxSeq = 2
  Tid = {1, 2}
  UserTid = {0, 1, 2}
  File = {"f", "g"}
  LegalName = {"f", "g"}
  SendFiles = {"f", "g"}
  FileSize <- MCFileSize
  InitSize = {3}
  Span <- MCSpan
  Name = {"x", "y", "z"}
  Candidate <- MCCandidate
  Preexisting = {"x"}
  FlushMayFail = FALSE
  MayBeKilled = TRUE
  NoFile = NoFile
  NoName = NoName
INVARIANTS TypeOK NoStrayFiles RecvInv SendInv RepliesNameKnownTids
PROPERTIES KeptUntouched CompleteAfterAll ChunksFollowAccept
