--------------------------- MODULE FacilityVector ---------------------------
(***************************************************************************)
(* One Facility object down to its vector: the pushes, the sorts, the      *)
(* erasures and the two searches of Facility.cpp, which Facility replaces  *)
(* by counting.  The searches differ: isAvailable goes back to the front   *)
(* of the vector after every match, bookSlot goes through it once and      *)
(* depends on its order.                                                   *)
(*                                                                         *)
(* The slots a facility is opened with may be of any number of half hours  *)
(* here; those of the program are half hours, those of the tests are hours *)
(* wide.                                                                   *)
(***************************************************************************)
EXTENDS Slots, SequencesExt

CONSTANTS
  Openings,      \* sequences of slots, in the order they are added
  BookTimes, Offsets, FirstId, IdSpace, MaxId
                 \* those of Facility

(* Util::Day is an enumeration that starts with Monday = 0.  Nobody opens  *)
(* a facility twice for the same time.                                     *)
ASSUME VectorAssumption ==
  /\ Days \subseteq 0..6
  /\ \A o \in Openings :
       /\ o \in Seq(TimeSlot)
       /\ \A i \in DOMAIN o :
            Aligned(o[i]) /\ \A j \in DOMAIN o \ {i} : ~Overlap(o[i], o[j])
  /\ BookTimes \subseteq UInt16
  /\ Offsets \subseteq Int
  /\ IdSpace \in Nat \ {0}
  /\ FirstId \in 0..(IdSpace - 1)
  /\ MaxId \in Nat

VARIABLES
  opened,          \* the slots added at start-up
  availableSlots,  \* the vector
  bookings,        \* [booking ID -> slot]
  currentId,       \* the counter of generateBookingId
  reshaped         \* history: whether a booking was ever moved or extended

vars == <<opened, availableSlots, bookings, currentId, reshaped>>

-----------------------------------------------------------------------------
(* What Facility says of this facility when all it offers is half hours:   *)
(* it counts the copies of each half hour in the vector.                   *)

room == "room"

Counts == [h \in HalfHours |->
             Cardinality({ i \in DOMAIN availableSlots : availableSlots[i] = h })]

F(o) == INSTANCE Facility WITH
          Facilities     <- {room},
          Offered        <- [f \in {room} |-> ToSet(o)],
          availableSlots <- [f \in {room} |-> Counts],
          bookings       <- [f \in {room} |-> bookings]

OfHalfHours(o) == ToSet(o) \subseteq HalfHours /\ Cardinality(ToSet(o)) = Len(o)

-----------------------------------------------------------------------------
(* The vector.                                                             *)

Earlier(a, b) == a.day < b.day \/ (a.day = b.day /\ a.startTime < b.startTime)

(* The places of v whose slots the sort puts before that of place i: slots *)
(* that start together stay in their order, as std::sort leaves them in    *)
(* the short vectors of these instances.                                   *)
SortedBefore(v, i) ==
  { j \in DOMAIN v : Earlier(v[j], v[i]) \/ (~Earlier(v[i], v[j]) /\ j < i) }

SortAvailableSlots(v) ==
  [k \in DOMAIN v |-> v[CHOOSE i \in DOMAIN v : Cardinality(SortedBefore(v, i)) = k - 1]]

AddAvailability(v, slot) == SortAvailableSlots(Append(v, slot))

(* The vector after each of the slots is added: initFacilities.            *)
Opened(o) ==
  LET vector[n \in 0..Len(o)] ==
        IF n = 0 THEN << >> ELSE AddAvailability(vector[n - 1], o[n])
  IN  vector

(* The parts of a slot in the order the loop makes them.                   *)
SplitIntoThirtyMinSlots(slot) ==
  [k \in 1..Cardinality(Parts(slot)) |->
     [day       |-> slot.day,
      startTime |-> PartStart(slot, k - 1),
      endTime   |-> PartStart(slot, k)]]

(* Mutant: the parts stay where push_back left them.                       *)
PushParts_Unsorted(v, slot) == v \o SplitIntoThirtyMinSlots(slot)

PushParts(v, slot) == SortAvailableSlots(v \o SplitIntoThirtyMinSlots(slot))

(* What std::remove keeps of the first n slots, without the given ones.    *)
Kept(v, parts) ==
  LET kept[n \in 0..Len(v)] ==
        IF n = 0 THEN << >>
        ELSE IF v[n] \in parts THEN kept[n - 1] ELSE Append(kept[n - 1], v[n])
  IN  kept

(* Mutant: the whole slot is looked for in the vector, not its parts.      *)
EraseParts_Whole(v, slot) == Kept(v, {slot})[Len(v)]

(* erase(remove(...)) for each part, then the sort.                        *)
EraseParts(v, slot) ==
  SortAvailableSlots(Kept(v, ToSet(SplitIntoThirtyMinSlots(slot)))[Len(v)])

(* A slot that may come next in a search for what lasts until end.         *)
Continues(s, day, start, end) == s.day = day /\ s.startTime = start /\ s.endTime <= end

(* isAvailable: the time its loop has reached after n rounds.  The search  *)
(* starts again at the front after every match, and as each match starts   *)
(* later, the loop is over once there were as many rounds as slots.        *)
Reached(v, slot) ==
  LET start[n \in 0..Len(v)] ==
        IF n = 0 THEN slot.startTime
        ELSE LET now      == start[n - 1]
                 matching == { i \in DOMAIN v : Continues(v[i], slot.day, now, slot.endTime) }
             IN  IF now < slot.endTime /\ matching # {} THEN v[Min(matching)].endTime ELSE now
  IN  start

IsAvailable(v, slot) == Reached(v, slot)[Len(v)] >= slot.endTime

(* bookSlot's search: one pass, from each match on to the next.  Once the  *)
(* end is reached nothing else matches, so the break needs no case.        *)
Pass(v, slot) ==
  LET after[n \in 0..Len(v)] ==
        IF n = 0 THEN [matched |-> {}, currentStart |-> slot.startTime]
        ELSE LET m == after[n - 1]
             IN  IF Continues(v[n], slot.day, m.currentStart, slot.endTime)
                 THEN [matched |-> m.matched \cup {n}, currentStart |-> v[n].endTime]
                 ELSE m
  IN  after

Search(v, slot) == Pass(v, slot)[Len(v)]

Found(v, slot) == Search(v, slot).currentStart = slot.endTime

(* Mutant: the matches are erased from the first on, and those behind move.*)
EraseMatched_Forward(v, matched) ==
  LET rest[n \in 0..Len(v)] ==
        IF n = 0 THEN v
        ELSE IF n \in matched /\ n <= Len(rest[n - 1])
             THEN RemoveAt(rest[n - 1], n)
             ELSE rest[n - 1]
  IN  rest[Len(v)]

(* The matches are erased by index, the last one first: the vector when    *)
(* the last n places have been dealt with.                                 *)
Erased(v, matched) ==
  LET rest[n \in 0..Len(v)] ==
        IF n = 0 THEN v
        ELSE LET i == Len(v) + 1 - n
             IN  IF i \in matched THEN RemoveAt(rest[n - 1], i) ELSE rest[n - 1]
  IN  rest

EraseMatched(v, matched) == Erased(v, matched)[Len(v)]

-----------------------------------------------------------------------------
(* The operations.                                                         *)

Init ==
  /\ opened \in Openings
  /\ availableSlots = Opened(opened)[Len(opened)]
  /\ bookings = << >>
  /\ currentId = FirstId
  /\ reshaped = FALSE

BookSlot(slot) ==
  /\ currentId < MaxId
  /\ Found(availableSlots, slot)
  /\ bookings' = [i \in DOMAIN bookings \cup {currentId} |->
                    IF i \in DOMAIN bookings THEN bookings[i] ELSE slot]
  /\ currentId' = (currentId + 1) % IdSpace
  /\ availableSlots' = EraseMatched(availableSlots, Search(availableSlots, slot).matched)
  /\ UNCHANGED <<opened, reshaped>>

BookRefused(slot) ==
  /\ ~Found(availableSlots, slot)
  /\ UNCHANGED vars

(* The old parts are pushed, then the new or else the old parts erased.    *)
ModifyBooking(id, offset) ==
  LET oldSlot == bookings[id]
      newSlot == Shifted(oldSlot, offset)
      pushed  == PushParts(availableSlots, oldSlot)
  IN  /\ InOpeningHours(newSlot)
      /\ \/ /\ IsAvailable(pushed, newSlot)
            /\ availableSlots' = EraseParts(pushed, newSlot)
            /\ bookings' = [bookings EXCEPT ![id] = newSlot]
            /\ reshaped' = TRUE
         \/ /\ ~IsAvailable(pushed, newSlot)
            /\ availableSlots' = EraseParts(pushed, oldSlot)
            /\ UNCHANGED <<bookings, reshaped>>
      /\ UNCHANGED <<opened, currentId>>

ModifyRejected(id, offset) ==
  /\ id \in DOMAIN bookings => ~InOpeningHours(Shifted(bookings[id], offset))
  /\ UNCHANGED vars

Extensible(slot, minutes) ==
  LET added == Extension(slot, minutes)
  IN  /\ added.endTime <= 1800
      /\ added.endTime > slot.endTime
      /\ IsAvailable(availableSlots, added)

ExtendBooking(id, minutes) ==
  LET added == Extension(bookings[id], minutes)
  IN  /\ Extensible(bookings[id], minutes)
      /\ availableSlots' = EraseParts(availableSlots, added)
      /\ bookings' = [bookings EXCEPT ![id].endTime = added.endTime]
      /\ reshaped' = TRUE
      /\ UNCHANGED <<opened, currentId>>

ExtendRejected(id, minutes) ==
  /\ id \in DOMAIN bookings => ~Extensible(bookings[id], minutes)
  /\ UNCHANGED vars

CancelBooking(id) ==
  /\ availableSlots' = PushParts(availableSlots, bookings[id])
  /\ bookings' = [i \in DOMAIN bookings \ {id} |-> bookings[i]]
  /\ UNCHANGED <<opened, currentId, reshaped>>

CancelRejected(id) ==
  /\ id \notin DOMAIN bookings
  /\ UNCHANGED vars

Requests == [day : Days, startTime : BookTimes, endTime : BookTimes]
Ids == 0..(IdSpace - 1)

Next ==
  \/ \E slot \in Requests : BookSlot(slot) \/ BookRefused(slot)
  \/ \E id \in DOMAIN bookings :
       \/ CancelBooking(id)
       \/ \E m \in Offsets : ModifyBooking(id, m) \/ ExtendBooking(id, m)
  \/ \E id \in Ids :
       \/ CancelRejected(id)
       \/ \E m \in Offsets : ModifyRejected(id, m) \/ ExtendRejected(id, m)

Spec == Init /\ [][Next]_vars

-----------------------------------------------------------------------------
(* Properties.                                                             *)

(* The two searches agree: bookSlot's one pass over the vector finds what  *)
(* isAvailable, which goes back to the front, says is there, whatever the  *)
(* operations have pushed, sorted and erased and however wide the slots.   *)
SearchesAgree ==
  \A slot \in Requests :
    slot.startTime < slot.endTime =>
      (Found(availableSlots, slot) <=> IsAvailable(availableSlots, slot))

(* Slots of any width: booking and cancelling alone never give a moment of *)
(* the room away twice, neither to two bookings nor to one and to the      *)
(* offer, though bookSlot erases whole slots and cancelBooking pushes      *)
(* half hours.                                                             *)
NoneGivenTwice ==
  ~reshaped =>
    \A id \in DOMAIN bookings :
      /\ \A s \in ToSet(availableSlots) : ~Overlap(bookings[id], s)
      /\ \A j \in DOMAIN bookings \ {id} : ~Overlap(bookings[id], bookings[j])

(* A facility opened with half hours does what Facility says: sorting,     *)
(* searching and erasing the vector amount to counting its half hours.     *)
ImplementsFacility ==
  /\ \A o \in Openings : opened = o /\ OfHalfHours(o) => F(o)!Init
  /\ [][\A o \in Openings : opened = o /\ OfHalfHours(o) => F(o)!Next]_vars

=============================================================================
