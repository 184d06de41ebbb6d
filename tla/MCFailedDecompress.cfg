CONSTANTS
  Text <- MCText
  BufSize = 2
  Chunks <- MCChunks
  Retries = TRUE

SPECIFICATION Spec

INVARIANT FailedDecoderIsReset

\* A client stops at the end of its text and after an exception.
CHECK_DEADLOCK FALSE
