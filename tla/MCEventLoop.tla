---------------------------- MODULE MCEventLoop -----------------------------
(***************************************************************************)
(* An instance of EventLoop for TLC: bytes of sixteen values, buffers of   *)
(* 32 of them.                                                             *)
(***************************************************************************)
EXTENDS EventLoop, TLC

CONSTANTS java, tester

Text(size) == [i \in 1..size |-> i % Base]

Gym == Text(3)

MCFacilities == {Gym}

(* Facility '...' not found!                                               *)
MCNotFoundText == [before |-> Text(4), behind |-> Text(4)]

MCTexts == [noIds |-> Text(1), noId |-> Text(2), noInterval |-> Text(3), invalid |-> Text(4)]

MCOutcomes == {[status |-> 0, message |-> Text(25)], [status |-> 1, message |-> << >>]}

MCJunk == {[i \in 1..5 |-> 0], [i \in 1..5 |-> Base - 1]}

Choice(op, name, day, start, end, id, minutes, interval) ==
  [requestId |-> 0, operation |-> op, facilityName |-> name, day |-> day,
   startTime |-> start, endTime |-> end, bookingId |-> id, offsetMinutes |-> minutes,
   monitorInterval |-> interval]

Query(size) == Choice(QUERY, Text(size), 6, 0, 0, << >>, << >>, << >>)

(* Negative numbers, an extra field without the other, and queries of      *)
(* facilities whose names have the lengths at which something changes.     *)
MCChoices ==
  java :> << { Choice(CHANGE, Gym, 0, 0, 0, <<300>>, <<-30>>, << >>),
               Query(18) },
             { Choice(CANCEL, Gym, 0, 0, 0, <<-2>>, << >>, << >>),
               Choice(MONITOR, Gym, 5, 0, 255, << >>, << >>, <<-7>>),
               Query(26) } >> @@
  tester :> << { Choice(BOOK, Gym, -1, 100, -3, << >>, << >>, << >>),
                 Choice(EXTEND, Gym, 0, 0, 0, <<1>>, << >>, << >>),
                 Query(2), Query(20), Query(23) } >>
=============================================================================
