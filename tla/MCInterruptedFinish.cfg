CONSTANTS
  Threads = {t1}
  Serialized = TRUE
  BufSize = 2
  MaxHeld = 1
  MaxUnsent = 2
  Arguments <- MCArguments
  MaxEmitted = 5

SPECIFICATION Spec

INVARIANT ClosingIsFinished

\* A client may stop calling; here it does after MaxEmitted bytes.
CHECK_DEADLOCK FALSE
