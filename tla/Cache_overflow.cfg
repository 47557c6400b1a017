\* The size of the cache when keys come again after they expire.
SPECIFICATION Spec
CONSTANTS
  Keys = {k1, k2, k3, k4}
  AtLeastOnce = FALSE
  MaxProcessed = 2
  ExpirySeconds = 1
  TicksPerSecond = 2
  Lifetime = 9
  MaxTime = 9
  MaxExecutions = 5
SYMMETRY KeySymmetry
INVARIANTS
  CapacityRespected
\* No datagram need ever arrive, and the clock stops at its bound.
CHECK_DEADLOCK FALSE
