\* What a duplicate is answered in at-most-once mode.
SPECIFICATION Spec
CONSTANTS
  Keys = {k1, k2}
  AtLeastOnce = FALSE
  MaxProcessed = 2
  ExpirySeconds = 1
  TicksPerSecond = 2
  Lifetime = 3
  MaxTime = 4
  MaxExecutions = 4
SYMMETRY KeySymmetry
INVARIANTS
  RepliesTellOutcome
\* No datagram need ever arrive, and the clock stops at its bound.
CHECK_DEADLOCK FALSE
