SPECIFICATION FairSpec
CONSTANTS
  RecvSlots = 1
  ChunkMax = 2
  ChunksPerRound = 2
  MaxTid = 2
  MaxSends = 1
  TypedTid = {1, 2}
  File = {"f", "g"}
  SendFiles = {"f"}
  FileSize <- MCFileSize
  Name = {"x", "y", "z"}
  Candidate <- MCCandidate
  Sender = "alice"
  Receiver = "bob"
  Stranger = "carol"
  PhrasesIn <- MCPhrasesIn
  Window = 2
  Lossy = TRUE
  StrangerFiles = {}
  Chatting = TRUE
  MayLeave = {"alice", "bob"}
  NoFile = NoFile
  NoName = NoName
CHECK_DEADLOCK FALSE
INVARIANTS EndsInv
PROPERTIES TransfersEnd Delivers
