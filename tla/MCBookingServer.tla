-------------------------- MODULE MCBookingServer --------------------------
(***************************************************************************)
(* Instances of BookingServer for TLC.                                     *)
(***************************************************************************)
EXTENDS BookingServer

(* Every day is open for three half hours from 8:00.                       *)
Mornings ==
  [f \in Facilities |->
     { h \in HalfHours : h.startTime \in {800, 830, 900} }]

(* Bookings of the first half hour, or of nothing; moves and extensions    *)
(* reach the others.                                                       *)
MorningTimes == {800, 830}
MorningOffsets == {-60, 30, 60}

(* Monitors of the middle of the morning, of all of it, or of nothing.     *)
MorningMonitors == {815, 930}

(* The same, with a time that is none on any clock.                        *)
AnyTimes == {800, 830, 2500}
=============================================================================
