------------------------------ MODULE Facility ------------------------------
(***************************************************************************)
(* The Facility objects of the server (Facility.cpp): for each facility    *)
(* the half hours still on offer and the bookings made so far, and the one *)
(* counter that numbers the bookings of all of them.                       *)
(*                                                                         *)
(* availableSlots is a vector the code keeps sorted by day and start time. *)
(* Here it is the number of copies of each half hour in that vector: what  *)
(* a sorted vector holds besides its order.  Copies are counted because    *)
(* nothing in push_back prevents a second copy of the same half hour.      *)
(***************************************************************************)
EXTENDS Slots, FiniteSets

CONSTANTS
  Facilities,    \* names of the facilities
  Offered,       \* the half hours each facility is opened with
  BookTimes,     \* HHMM values a BOOK request may carry as start or end
  Offsets,       \* minutes a CHANGE or EXTEND request may carry
  FirstId,       \* first booking ID (1000 in the program)
  IdSpace,       \* number of values of the ID counter (2^32 in the program)
  MaxId          \* bound: no booking is made once the counter is here

ASSUME FacilityAssumption ==
  /\ Offered \in [Facilities -> SUBSET HalfHours]
  /\ BookTimes \subseteq UInt16
  /\ Offsets \subseteq Int
  /\ IdSpace \in Nat \ {0}
  /\ FirstId \in 0..(IdSpace - 1)
  /\ MaxId \in Nat

VARIABLES
  availableSlots,  \* [facility -> [half hour -> copies in the vector]]
  bookings,        \* [facility -> [booking ID -> slot]], a partial function
  currentId        \* the static counter of generateBookingId

vars == <<availableSlots, bookings, currentId>>

Ids == 0..(IdSpace - 1)

-----------------------------------------------------------------------------
(* The vector operations, applied to all the parts of one slot.            *)

PushBack(avail, parts) ==
  [h \in HalfHours |-> IF h \in parts THEN avail[h] + 1 ELSE avail[h]]

(* Mutant: the matched half hours stay in the vector.                      *)
EraseMatched_Skipped(avail, parts) == avail

(* bookSlot erases by index: one copy of each matched half hour.           *)
EraseMatched(avail, parts) ==
  [h \in HalfHours |-> IF h \in parts THEN avail[h] - 1 ELSE avail[h]]

(* Mutant: remove without erase, which leaves the vector as long as it was.*)
EraseAll_Skipped(avail, parts) == avail

(* erase(remove(...)): every copy goes.                                    *)
EraseAll(avail, parts) ==
  [h \in HalfHours |-> IF h \in parts THEN 0 ELSE avail[h]]

(* unordered_map::emplace leaves the map alone when the key is there.      *)
Emplace(map, id, slot) ==
  [i \in DOMAIN map \cup {id} |-> IF i \in DOMAIN map THEN map[i] ELSE slot]

Erase(map, id) == [i \in DOMAIN map \ {id} |-> map[i]]

-----------------------------------------------------------------------------
(* Reading the offer.                                                      *)

(* Mutant: any half hour of the day will do, on offer or not.              *)
Covered_Unchecked(avail, slot) ==
  \A p \in Parts(slot) : p \in HalfHours /\ p.endTime <= slot.endTime

(* Mutant: only the starts are compared.                                   *)
Covered_StartsOnly(avail, slot) ==
  \A p \in Parts(slot) : p \in HalfHours /\ avail[p] > 0

(* The half hours from the slot's start on follow each other in the vector *)
(* up to exactly its end.                                                  *)
Covered(avail, slot) ==
  \A p \in Parts(slot) :
    p \in HalfHours /\ avail[p] > 0 /\ p.endTime <= slot.endTime

(* isAvailable: an empty or reversed interval is available.                *)
IsAvailable(avail, slot) ==
  slot.startTime < slot.endTime => Covered(avail, slot)

(* bookSlot's search: it succeeds on an empty interval, fails on a         *)
(* reversed one.                                                           *)
Matches(avail, slot) ==
  \/ slot.startTime = slot.endTime
  \/ slot.startTime < slot.endTime /\ Covered(avail, slot)

(* getAvailability: the half hours of the day it reports with "yes".       *)
Reported(f, day) ==
  { h \in HalfHours : h.day = day /\ IsAvailable(availableSlots[f], h) }

-----------------------------------------------------------------------------
(* The operations.  Each one is one call on one Facility, and the server   *)
(* runs them one at a time.                                                *)

Init ==
  /\ availableSlots = [f \in Facilities |->
                         [h \in HalfHours |-> IF h \in Offered[f] THEN 1 ELSE 0]]
  /\ bookings = [f \in Facilities |-> << >>]
  /\ currentId = FirstId

(* Mutant: the counter is read but not advanced.                           *)
BookSlot_SameId(f, slot) ==
  /\ currentId < MaxId
  /\ Matches(availableSlots[f], slot)
  /\ bookings' = [bookings EXCEPT ![f] = Emplace(@, currentId, slot)]
  /\ availableSlots' = [availableSlots EXCEPT ![f] = EraseMatched(@, Parts(slot))]
  /\ UNCHANGED currentId

(* Mutant: ++currentId instead of currentId++.                             *)
BookSlot_PreIncrement(f, slot) ==
  /\ currentId < MaxId
  /\ Matches(availableSlots[f], slot)
  /\ currentId' = (currentId + 1) % IdSpace
  /\ bookings' = [bookings EXCEPT ![f] = Emplace(@, currentId', slot)]
  /\ availableSlots' = [availableSlots EXCEPT ![f] = EraseMatched(@, Parts(slot))]

BookSlot(f, slot) ==
  /\ currentId < MaxId
  /\ Matches(availableSlots[f], slot)
  /\ currentId' = (currentId + 1) % IdSpace
  /\ bookings' = [bookings EXCEPT ![f] = Emplace(@, currentId, slot)]
  /\ availableSlots' = [availableSlots EXCEPT ![f] = EraseMatched(@, Parts(slot))]

BookRefused(f, slot) ==
  /\ ~Matches(availableSlots[f], slot)
  /\ UNCHANGED vars

ModifyRejected(f, id, offset) ==
  /\ \/ id \notin DOMAIN bookings[f]
     \/ /\ id \in DOMAIN bookings[f]
        /\ ~InOpeningHours(Shifted(bookings[f][id], offset))
  /\ UNCHANGED vars

(* The old parts are on offer again while the new slot is looked for...    *)
Returned(f, id) == PushBack(availableSlots[f], Parts(bookings[f][id]))

(* Mutant: the failed move returns before its rollback.                    *)
ModifyRolledBack_Kept(f, id, offset) ==
  /\ id \in DOMAIN bookings[f]
  /\ LET newSlot == Shifted(bookings[f][id], offset)
     IN  InOpeningHours(newSlot) /\ ~IsAvailable(Returned(f, id), newSlot)
  /\ availableSlots' = [availableSlots EXCEPT ![f] = Returned(f, id)]
  /\ UNCHANGED <<bookings, currentId>>

(* ...and are taken back when it is not there.                             *)
ModifyRolledBack(f, id, offset) ==
  /\ id \in DOMAIN bookings[f]
  /\ LET newSlot == Shifted(bookings[f][id], offset)
     IN  InOpeningHours(newSlot) /\ ~IsAvailable(Returned(f, id), newSlot)
  /\ availableSlots' = [availableSlots EXCEPT
                          ![f] = EraseAll(Returned(f, id), Parts(bookings[f][id]))]
  /\ UNCHANGED <<bookings, currentId>>

ModifyBooking(f, id, offset) ==
  /\ id \in DOMAIN bookings[f]
  /\ LET newSlot == Shifted(bookings[f][id], offset)
     IN  /\ InOpeningHours(newSlot)
         /\ IsAvailable(Returned(f, id), newSlot)
         /\ availableSlots' = [availableSlots EXCEPT
                                 ![f] = EraseAll(Returned(f, id), Parts(newSlot))]
         /\ bookings' = [bookings EXCEPT ![f][id] = newSlot]
  /\ UNCHANGED currentId

Extensible(f, slot, minutes) ==
  LET added == Extension(slot, minutes)
  IN  /\ added.endTime <= 1800
      /\ added.endTime > slot.endTime
      /\ IsAvailable(availableSlots[f], added)

ExtendRejected(f, id, minutes) ==
  /\ \/ id \notin DOMAIN bookings[f]
     \/ id \in DOMAIN bookings[f] /\ ~Extensible(f, bookings[f][id], minutes)
  /\ UNCHANGED vars

ExtendBooking(f, id, minutes) ==
  /\ id \in DOMAIN bookings[f]
  /\ Extensible(f, bookings[f][id], minutes)
  /\ LET added == Extension(bookings[f][id], minutes)
     IN  /\ availableSlots' = [availableSlots EXCEPT ![f] = EraseAll(@, Parts(added))]
         /\ bookings' = [bookings EXCEPT ![f][id].endTime = added.endTime]
  /\ UNCHANGED currentId

CancelRejected(f, id) ==
  /\ id \notin DOMAIN bookings[f]
  /\ UNCHANGED vars

(* Mutant: the booking survives the return of its half hours.              *)
CancelBooking_Kept(f, id) ==
  /\ id \in DOMAIN bookings[f]
  /\ availableSlots' = [availableSlots EXCEPT ![f] = PushBack(@, Parts(bookings[f][id]))]
  /\ UNCHANGED <<bookings, currentId>>

CancelBooking(f, id) ==
  /\ id \in DOMAIN bookings[f]
  /\ availableSlots' = [availableSlots EXCEPT ![f] = PushBack(@, Parts(bookings[f][id]))]
  /\ bookings' = [bookings EXCEPT ![f] = Erase(@, id)]
  /\ UNCHANGED currentId

-----------------------------------------------------------------------------

(* The slots a BOOK request may name.                                      *)
Requests == [day : Days, startTime : BookTimes, endTime : BookTimes]

Next ==
  \E f \in Facilities :
    \/ \E slot \in Requests : BookSlot(f, slot) \/ BookRefused(f, slot)
    \/ \E id \in Ids :
         \/ CancelBooking(f, id)
         \/ CancelRejected(f, id)
         \/ \E m \in Offsets :
              \/ ModifyBooking(f, id, m)
              \/ ModifyRolledBack(f, id, m)
              \/ ModifyRejected(f, id, m)
              \/ ExtendBooking(f, id, m)
              \/ ExtendRejected(f, id, m)

Spec == Init /\ [][Next]_vars

-----------------------------------------------------------------------------
(* Properties.                                                             *)

(* Every variable keeps its shape: a vector of half hours, a map from      *)
(* booking IDs to slots with 16-bit times, a counter.                      *)
TypeOK ==
  /\ availableSlots \in [Facilities -> [HalfHours -> Nat]]
  /\ DOMAIN bookings = Facilities
  /\ \A f \in Facilities :
       /\ DOMAIN bookings[f] \subseteq Ids
       /\ \A id \in DOMAIN bookings[f] : bookings[f][id] \in TimeSlot
  /\ currentId \in Ids

(* The bookings of a facility that include a half hour.                    *)
Holders(f, h) == { id \in DOMAIN bookings[f] : h \in Parts(bookings[f][id]) }

(* Every half hour the facility was opened with is on offer exactly once   *)
(* or held by exactly one booking, and never both: bookSlot, modify (with  *)
(* its rollback), extend and cancel lose none and create none, in whatever *)
(* order they come.                                                        *)
SlotsConserved ==
  \A f \in Facilities, h \in HalfHours :
    \/ h \in Offered[f] /\ availableSlots[f][h] = 1 /\ Holders(f, h) = {}
    \/ h \in Offered[f] /\ availableSlots[f][h] = 0
                        /\ \E id \in DOMAIN bookings[f] : Holders(f, h) = {id}
    \/ h \notin Offered[f] /\ availableSlots[f][h] = 0 /\ Holders(f, h) = {}

(* No two bookings of a facility overlap, as intervals of the clock: no    *)
(* sequence of bookings, moves and extensions gives the room away twice.   *)
NoDoubleBooking ==
  \A f \in Facilities : \A i, j \in DOMAIN bookings[f] :
    i # j => ~Overlap(bookings[f][i], bookings[f][j])

(* A QUERY answer is right: a half hour is reported available exactly when *)
(* the facility offers it and no booking overlaps it.                      *)
QueryTruthful ==
  \A f \in Facilities, d \in Days :
    Reported(f, d) =
      { h \in Offered[f] : /\ h.day = d
                           /\ \A id \in DOMAIN bookings[f] :
                                ~Overlap(h, bookings[f][id]) }

(* A booking ID names one booking in the whole server, whatever the        *)
(* facility: the counter is shared (generateBookingId).                    *)
UniqueIds ==
  \A f, g \in Facilities : f # g => DOMAIN bookings[f] \cap DOMAIN bookings[g] = {}

(* An ID is never handed out twice: every booking made so far has one that *)
(* the counter has passed.                                                 *)
FreshIds ==
  \A f \in Facilities : \A id \in DOMAIN bookings[f] : id < currentId

(* Whatever times the requests and offsets carry, a booking is empty or a  *)
(* run of whole half hours within the opening hours.                       *)
BookingsAligned ==
  \A f \in Facilities : \A id \in DOMAIN bookings[f] :
    LET b == bookings[f][id] IN b.startTime = b.endTime \/ Aligned(b)

(* The calendar a client sees: what each booking holds and what is free.   *)
held ==
  [f \in Facilities |-> [id \in DOMAIN bookings[f] |-> Parts(bookings[f][id])]]

free ==
  [f \in Facilities |-> { h \in HalfHours : availableSlots[f][h] > 0 }]

Promise == INSTANCE Calendar WITH free <- free, held <- held

(* The facilities keep the promise of the calendar: every booking, move,   *)
(* extension and cancel is one step of it, and every refusal is none.      *)
ImplementsCalendar == Promise!Spec
=============================================================================
