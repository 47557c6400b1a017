\* One room and two days under two monitors: what clients are told.
SPECIFICATION ServerSpec
CONSTANTS
  Days = {mon, tue}
  Facilities = {gym}
  Names = {gym, nowhere}
  Offered <- Mornings
  BookTimes <- MorningTimes
  Offsets <- MorningOffsets
  FirstId = 1
  IdSpace = 4
  MaxId = 3
  Clients = {c1}
  MonitorTimes <- MorningMonitors
  Intervals = {1}
  MaxMonitors = 1
  MaxTime = 1
INVARIANTS
  ServerTypeOK
PROPERTIES
  ChangesNotified
  ErrorsChangeNothing
