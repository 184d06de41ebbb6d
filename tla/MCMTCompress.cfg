SPECIFICATION FairSpec

INVARIANTS
  TypeOK
  InputIntact
  FrameIsInput

PROPERTY CallReturns

\* A program stops when it has freed its context.
CHECK_DEADLOCK FALSE
