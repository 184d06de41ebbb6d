SPECIFICATION Spec

INVARIANTS
  RoundTrip
  MatchesAreValid
  SidesAgree
  InBounds
  BoundsSuffice

\* What is read comes to its end.
CHECK_DEADLOCK FALSE
