CONSTANTS
  d1 = d1
  c1 = c1
  c2 = c2
  None = None
  DictString = DictString

SPECIFICATION FairSpec

INVARIANTS
  TypeOK
  OneShotAnswers
  AliveWhileUsed
  IOHoldsWritten
  

PROPERTIES
  SkippableFramesAreRead
  OnlyRaisesLeak
  ImplementsQueue
  AcceptedJobsRun
  CallsReturn

\* A method that has returned is at its end; a program stops.
CHECK_DEADLOCK FALSE
