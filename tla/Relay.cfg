SPECIFICATION Spec
CONSTANTS
  RecvSlots = 2
  ChunkMax = 2
  ChunksPerRound = 2
  MaxTid = 2
  MaxSends = 2
  TypedTid = {0, 1, 2}
  File = {"f", "g"}
  SendFiles = {"g"}
  FileSize <- MCFileSize
  Name = {"x", "y", "z"}
  Candidate <- MCCandidate
  Sender = "alice"
  Receiver = "bob"
  Stranger = "carol"
  PhrasesIn <- MCPhrasesIn
  Window = 1
  Lossy = FALSE
  StrangerFiles = {"f"}
  Chatting = FALSE
  MayLeave = {}
  NoFile = NoFile
  NoName = NoName
CHECK_DEADLOCK FALSE
INVARIANTS TypeOK RelayInv DetailsMatch EndsAgree
PROPERTIES CompleteIsWhole Delivers
