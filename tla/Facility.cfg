\* Two facilities and two days, three bookings, every kind of offset; the
\* promise they implement.
SPECIFICATION Spec
CONSTANTS
  mon = mon
  tue = tue
  gym = gym
  pool = pool
  Days = {mon, tue}
  Facilities = {gym, pool}
  Offered <- Rooms
  BookTimes <- RoomTimes
  Offsets <- RoomOffsets
  FirstId = 1
  IdSpace = 5
  MaxId = 4
INVARIANTS
  TypeOK
  SlotsConserved
  NoDoubleBooking
  QueryTruthful
  UniqueIds
  FreshIds
  BookingsAligned
PROPERTIES
  ImplementsCalendar
