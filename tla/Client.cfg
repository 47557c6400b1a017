\* One client, two requests, an unreliable network; a tick is ten seconds.
SPECIFICATION FairClientSpec
CONSTANTS
  Clients = {c1}
  MaxRequests = 2
  Invocation = "most"
  Timeout = 1
  GiveUp = 3
  Interval = 1
  MaxDelay = 1
  Copies = 1
  MaxUpdates = 1
  MaxInbox = 2
  Keys <- MCKeys
  AtLeastOnce = FALSE
  MaxProcessed = 2
  ExpirySeconds = 3
  TicksPerSecond = 1
  Lifetime = 3
  MaxTime = 7
  MaxExecutions = 4
INVARIANTS
  ClientTypeOK
  ExactlyOnce
  OwnAnswers
PROPERTIES
  RetriesInTime
  ReturnsToMenu
\* The user need not make a request, and the clock stops at its bound.
CHECK_DEADLOCK FALSE
