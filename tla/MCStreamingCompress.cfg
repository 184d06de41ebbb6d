CONSTANTS
  Threads = {t1, t2}
  Serialized = TRUE
  BufSize = 2
  MaxHeld = 1
  MaxUnsent = 2
  Arguments <- MCArguments
  MaxEmitted = 3

SPECIFICATION FairSpec

INVARIANTS
  TypeOK
  FrameReachesClient

PROPERTIES
  DrainReturnsAll
  PendingReachesClient
  MethodsReturn

\* A client may stop calling; here it does after MaxEmitted bytes.
CHECK_DEADLOCK FALSE
