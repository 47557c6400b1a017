\* Two clients, two facilities, three registrations, two intervals.
SPECIFICATION FairSpec
CONSTANTS
  Days = {mon}
  Facilities = {gym, pool}
  Clients = {c1, c2}
  MonitorTimes <- Eight
  Intervals = {0, 2}
  MaxMonitors = 3
  MaxTime = 3
INVARIANTS
  EveryMonitorTimed
PROPERTIES
  MonitorsEnd
\* Nobody need ever register, and the clock stops at its bound.
CHECK_DEADLOCK FALSE
