SPECIFICATION Spec
CONSTANTS
  FrameLen <- MCFrameLen
  CapInit = 2
  CapMax = 4
  Rounds = 3
  Stdin = {"tty", "pipe"}
  LineKinds = {"void", "text", "quit", "login", "sendfile", "cancel"}
  MaxFrames = 3
  MaxLines = 3
CHECK_DEADLOCK FALSE
INVARIANTS TypeOK StreamIntact NothingLeftBehind NeverGivesUp LoopInv
PROPERTIES FramesInOrder
