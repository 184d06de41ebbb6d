CONSTANTS
  Text <- MCText
  BufSize = 2
  Chunks <- MCChunks
  Retries = FALSE

SPECIFICATION Spec

INVARIANT RemainingInputIsPresented

\* A client stops at the end of its text and after an exception.
CHECK_DEADLOCK FALSE
