CONSTANTS
  Threads = {t1, t2}
  Serialized = FALSE
  BufSize = 2
  MaxHeld = 1
  MaxUnsent = 2
  Arguments <- MCArguments
  MaxEmitted = 3

SPECIFICATION Spec

INVARIANT OneThreadInContext

\* A client may stop calling; here it does after MaxEmitted bytes.
CHECK_DEADLOCK FALSE
