SPECIFICATION Spec
CONSTANTS
  RecvSlots = 1
  ChunkMax = 2
  ChunksPerRound = 2
  MaxTid = 2
  MaxSends = 2
  TypedTid = {1, 2}
  File = {"g", "h"}
  SendFiles = {"g","h"}
  FileSize <- MCFileSize
  Name = {"x", "y", "z"}
  Candidate <- MCCandidate
  Sender = "alice"
  Receiver = "bob"
  Stranger = "carol"
  PhrasesIn <- MCPhrasesIn
  Window = 1
  Lossy = FALSE
  StrangerFiles = {}
  Chatting = TRUE
  MayLeave = {}
  NoFile = NoFile
  NoName = NoName
CHECK_DEADLOCK FALSE
INVARIANT KeptFilesMatch
