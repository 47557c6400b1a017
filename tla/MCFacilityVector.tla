-------------------------- MODULE MCFacilityVector --------------------------
(***************************************************************************)
(* An instance of FacilityVector for TLC: a room opened with half hours,   *)
(* added out of order, and one opened with an hour, half hours and two     *)
(* hours of another day.                                                   *)
(***************************************************************************)
EXTENDS FacilityVector

Opening(day, start, end) == [day |-> day, startTime |-> start, endTime |-> end]

MCOpenings ==
  { << Opening(0, 1700, 1730), Opening(1, 1730, 1800), Opening(0, 1630, 1700),
       Opening(0, 1730, 1800), Opening(0, 1530, 1600) >>,
    << Opening(1, 1600, 1800), Opening(0, 1730, 1800), Opening(0, 1630, 1730),
       Opening(0, 1600, 1630) >> }

MCBookTimes == {1600, 1630, 1730, 1800}
MCOffsets == {-60, -30, 60}
=============================================================================
