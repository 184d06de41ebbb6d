CONSTANTS
  Text <- MCText
  BufSize = 2
  Chunks <- MCChunks
  Retries = FALSE

SPECIFICATION ClientSpec

INVARIANTS
  TypeOK
  NoneLost
  FramesDelivered
  PlaceLostAtFrameEnd

PROPERTIES
  MethodsReturn
  TextIsDelivered

\* A client stops at the end of its text and after an exception.
CHECK_DEADLOCK FALSE
