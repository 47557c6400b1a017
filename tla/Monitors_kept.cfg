\* How long a registration lasts when its client makes another.
SPECIFICATION Spec
CONSTANTS
  Days = {mon}
  Facilities = {gym, pool}
  Clients = {c1, c2}
  MonitorTimes <- Eight
  Intervals = {0, 2}
  MaxMonitors = 2
  MaxTime = 2
PROPERTIES
  KeptForInterval
\* Nobody need ever register, and the clock stops at its bound.
CHECK_DEADLOCK FALSE
