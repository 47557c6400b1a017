\* A request answered with an error.
SPECIFICATION ServerSpec
CONSTANTS
  Days = {mon}
  Facilities = {gym}
  Names = {gym, nowhere}
  Offered <- Mornings
  BookTimes <- AnyTimes
  Offsets <- MorningOffsets
  FirstId = 1
  IdSpace = 4
  MaxId = 3
  Clients = {c1}
  MonitorTimes <- MorningMonitors
  Intervals = {1}
  MaxMonitors = 1
  MaxTime = 1
PROPERTIES
  ErrorsChangeNothing
