----------------------------- MODULE MCFacility -----------------------------
(***************************************************************************)
(* An instance of Facility for TLC.  The gym is open from 16:30 to closing *)
(* time on one day, with 15:30 as a half hour apart, and the pool for an   *)
(* hour on each of two days: moves and extensions meet closing time, a gap *)
(* and each other, bookings of two days and two facilities share the IDs.  *)
(***************************************************************************)
EXTENDS Facility

CONSTANTS gym, pool, mon, tue

HalfHour(day, start) ==
  [day |-> day, startTime |-> start, endTime |-> HalfHourAfter(start)]

Rooms ==
  [f \in Facilities |->
     IF f = gym THEN { HalfHour(mon, s) : s \in {1530, 1630, 1700, 1730} }
     ELSE { HalfHour(d, s) : d \in {mon, tue}, s \in {1700, 1730} }]

RoomTimes == {1630, 1730, 1800}
RoomOffsets == {-120, -30, 0, 15, 60}
=============================================================================
