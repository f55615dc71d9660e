SPECIFICATION FairSpec
CONSTANTS
  FrameLen <- MCFrameLen
  CapInit = 2
  CapMax = 4
  Rounds = 2
  Stdin = {"pipe"}
  LineKinds = {"text"}
  MaxFrames = 1
  MaxLines = 1
CHECK_DEADLOCK FALSE
PROPERTY EofEndsLoop
