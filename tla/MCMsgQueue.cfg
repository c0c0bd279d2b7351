SPECIFICATION Spec
CONSTANTS
  Size = 9
  BufSize = 8
  Byte <- MCByte
  Msg <- MCMsg
  NoMsg = NoMsg
INVARIANTS
  TypeOK
  HeadIsFrameStart
  EndsAreFollowedByStarts
PROPERTIES
  ImplementsLossyFifo
  PublishReturns
