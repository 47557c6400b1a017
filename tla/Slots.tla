------------------------------- MODULE Slots -------------------------------
(***************************************************************************)
(* Facility::TimeSlot and its division into half hours.  The server offers *)
(* half hours between 08:00 and 18:00; a booking is one interval of a day  *)
(* that stands for the half hours it is made of.                           *)
(***************************************************************************)
EXTENDS TimeUtil

CONSTANT Days      \* the days a request may name

MaxUInt16 == 65535
UInt16 == 0..MaxUInt16

TimeSlot == [day : Days, startTime : UInt16, endTime : UInt16]

(* The start of part number k of a slot: the loop of                       *)
(* splitIntoThirtyMinSlots begins at the raw start time and advances       *)
(* through minutes from there.                                             *)
PartStart(slot, k) ==
  IF k = 0 THEN slot.startTime ELSE ToHHMM(ToMinutes(slot.startTime) + 30 * k)

(* splitIntoThirtyMinSlots(slot), as a set.  A step of the loop adds at    *)
(* least 30 to an HHMM value, which bounds the number of parts.            *)
Parts(slot) ==
  { [day       |-> slot.day,
     startTime |-> PartStart(slot, k),
     endTime   |-> PartStart(slot, k + 1)] :
       k \in { j \in 0..((slot.endTime - slot.startTime) \div 30) :
                PartStart(slot, j) < slot.endTime } }

(* The boundaries of the half hours initFacilities generates: 800, 830,    *)
(* ..., 1800.                                                              *)
Boundary(k) == ToHHMM(480 + 30 * k)

HalfHourStarts == { Boundary(k) : k \in 0..19 }

HalfHours ==
  { [day |-> d, startTime |-> s, endTime |-> HalfHourAfter(s)] :
       d \in Days, s \in HalfHourStarts }

(* A slot made of such half hours, one after the other.                    *)
Aligned(slot) ==
  /\ slot \in TimeSlot
  /\ \E a \in 0..19, b \in 1..20 :
       a < b /\ slot.startTime = Boundary(a) /\ slot.endTime = Boundary(b)

(* The slot of a booking moved by an offset, in minutes and back.          *)
Shifted(slot, offset) ==
  [day       |-> slot.day,
   startTime |-> ToHHMM(ToMinutes(slot.startTime) + offset),
   endTime   |-> ToHHMM(ToMinutes(slot.endTime) + offset)]

InOpeningHours(slot) ==
  slot.startTime >= 800 /\ slot.endTime <= 1800 /\ slot.startTime < slot.endTime

(* The interval an extension adds to a booking.                            *)
Extension(slot, minutes) ==
  [day       |-> slot.day,
   startTime |-> slot.endTime,
   endTime   |-> ToHHMM(ToMinutes(slot.endTime) + minutes)]

(* Two slots of one day that have a moment in common.                      *)
Overlap(a, b) ==
  /\ a.day = b.day
  /\ a.startTime < a.endTime /\ b.startTime < b.endTime
  /\ a.startTime < b.endTime /\ b.startTime < a.endTime

=============================================================================
