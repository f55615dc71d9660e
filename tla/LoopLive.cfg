SPECIFICATION FairSpec
CONSTANTS
  FrameLen <- MCFrameLen
  CapInit = 2
  CapMax = 4
  Rounds = 2
  Stdin = {"tty", "pipe"}
  LineKinds = {"text", "sendfile", "login"}
  MaxFrames = 2
  MaxLines = 3
CHECK_DEADLOCK FALSE
PROPERTIES FramesHandled SignalEndsLoop TransferAdvances LinesRead
