SPECIFICATION Spec
CONSTANTS
  Base = 8
  Magic <- MCMagic
  MaxPayload = 80
  ZeroChar = 2
  Radix = 3
  MaxSize = 25
  NameMax = 2
  UsersMax = 8
  Message <- MCMessage
  MaxSent = 2
CHECK_DEADLOCK FALSE
INVARIANTS TypeOK BufferAligned
PROPERTIES MessagesSurvive
