\* Keys come again only while their entries are fresh; more keys than capacity.
SPECIFICATION Spec
CONSTANTS
  Keys = {k1, k2, k3}
  AtLeastOnce = FALSE
  MaxProcessed = 2
  ExpirySeconds = 1
  TicksPerSecond = 2
  Lifetime = 3
  MaxTime = 4
  MaxExecutions = 5
SYMMETRY KeySymmetry
INVARIANTS
  TypeOK
  EvictionDefined
  CapacityRespected
  Retained
  AtMostOnce
\* No datagram need ever arrive, and the clock stops at its bound.
CHECK_DEADLOCK FALSE
