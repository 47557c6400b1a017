--------------------------- MODULE FacilityProofs ---------------------------
(***************************************************************************)
(* Theorems about Facility, for every set of facilities, offer and request *)
(* times: its variables keep their types; and as long as the ID counter    *)
(* does not wrap around, half hours are conserved, no two bookings         *)
(* overlap, and the facilities implement Calendar.                         *)
(***************************************************************************)
EXTENDS Facility, SlotsProofs, FiniteSetTheorems

(* The half hours a booking holds; none when there is no such booking.     *)
HeldBy(f, id) == IF id \in DOMAIN bookings[f] THEN Parts(bookings[f][id]) ELSE {}

-----------------------------------------------------------------------------
(* What the guards of the operations give.                                 *)

(* An interval found in the vector consists of half hours on offer.        *)
LEMMA CoveredParts ==
  ASSUME NEW avail \in [HalfHours -> Nat], NEW slot \in TimeSlot,
         slot.startTime < slot.endTime, Covered(avail, slot)
  PROVE  Aligned(slot) /\ \A p \in Parts(slot) : p \in HalfHours /\ avail[p] > 0
BY AlignedIfCovered DEF Covered

(* A slot that bookSlot finds is empty, or made of half hours on offer.    *)
LEMMA MatchedParts ==
  ASSUME NEW avail \in [HalfHours -> Nat], NEW slot \in TimeSlot,
         Matches(avail, slot)
  PROVE  /\ slot.startTime = slot.endTime \/ Aligned(slot)
         /\ \A p \in Parts(slot) : p \in HalfHours /\ avail[p] > 0
<1>1. CASE slot.startTime = slot.endTime
  <2>1. Parts(slot) = {}
    BY <1>1, SlotTimes, NoParts
  <2> QED BY <1>1, <2>1
<1>2. CASE slot.startTime < slot.endTime /\ Covered(avail, slot)
  BY <1>2, CoveredParts
<1> QED BY <1>1, <1>2 DEF Matches

(* A shifted slot within the opening hours is a slot of the same day.      *)
LEMMA ShiftedSlot ==
  ASSUME NEW slot \in TimeSlot, NEW offset \in Int,
         InOpeningHours(Shifted(slot, offset))
  PROVE  /\ Shifted(slot, offset) \in TimeSlot
         /\ Shifted(slot, offset).startTime < Shifted(slot, offset).endTime
<1> DEFINE s == ToHHMM(ToMinutes(slot.startTime) + offset)
           e == ToHHMM(ToMinutes(slot.endTime) + offset)
<1>1. s \in Int /\ e \in Int
  <2>1. ToMinutes(slot.startTime) \in Int /\ ToMinutes(slot.endTime) \in Int
    BY SlotTimes, ConversionsInt
  <2> QED BY <2>1, ConversionsInt
<1> HIDE DEF s, e
<1>2. Shifted(slot, offset) = [day |-> slot.day, startTime |-> s, endTime |-> e]
  BY DEF Shifted, s, e
<1>3. s >= 800 /\ e <= 1800 /\ s < e
  BY <1>2 DEF InOpeningHours
<1>4. s \in UInt16 /\ e \in UInt16
  <2>1. 0 <= s /\ s <= 1800 /\ 0 <= e /\ e <= 1800
    BY <1>1, <1>3
  <2> QED BY <1>1, <2>1, FitsUInt16
<1> QED BY <1>2, <1>3, <1>4, SlotTimes DEF TimeSlot

(* The interval an accepted extension adds is a slot that starts where the *)
(* booking ends.                                                           *)
LEMMA ExtensionSlot ==
  ASSUME NEW slot \in TimeSlot, NEW minutes \in Int,
         Extension(slot, minutes).endTime <= 1800,
         Extension(slot, minutes).endTime > slot.endTime
  PROVE  /\ Extension(slot, minutes) \in TimeSlot
         /\ Extension(slot, minutes).day = slot.day
         /\ Extension(slot, minutes).startTime = slot.endTime
<1> DEFINE e == ToHHMM(ToMinutes(slot.endTime) + minutes)
<1>1. e \in Int
  <2>1. ToMinutes(slot.endTime) \in Int
    BY SlotTimes, ConversionsInt
  <2> QED BY <2>1, ConversionsInt
<1> HIDE DEF e
<1>2. Extension(slot, minutes) = [day |-> slot.day, startTime |-> slot.endTime, endTime |-> e]
  BY DEF Extension, e
<1>3. e <= 1800 /\ e > slot.endTime
  BY <1>2
<1>4. e \in UInt16 /\ slot.endTime \in UInt16
  <2>1. 0 <= e /\ e <= 1800
    BY <1>1, <1>3, SlotTimes
  <2> QED BY <1>1, <2>1, FitsUInt16, SlotTimes
<1> QED BY <1>2, <1>4, SlotTimes DEF TimeSlot

-----------------------------------------------------------------------------
(* What each operation does to one facility, as one pattern: booking id    *)
(* now holds the half hours N, which were free or its own, and what it     *)
(* held besides is free.                                                   *)
Reassigned(f, id, N) ==
  /\ \A h \in N : h \in HalfHours /\ (h \in HeldBy(f, id) \/ availableSlots[f][h] > 0)
  /\ \A h \in HalfHours :
       availableSlots'[f][h] = IF h \in N THEN 0
                               ELSE IF h \in HeldBy(f, id) THEN 1
                               ELSE availableSlots[f][h]
  /\ HeldBy(f, id)' = N
  /\ \A j : j # id => HeldBy(f, j)' = HeldBy(f, j)
  /\ \A g \in Facilities \ {f} : /\ availableSlots'[g] = availableSlots[g]
                                /\ bookings'[g] = bookings[g]

(* SlotsConserved, said with HeldBy.                                       *)
Owned(f, h) ==
  \/ /\ h \in Offered[f] /\ availableSlots[f][h] = 1
     /\ \A j : h \notin HeldBy(f, j)
  \/ /\ h \in Offered[f] /\ availableSlots[f][h] = 0
     /\ \E id : \A j : h \in HeldBy(f, j) <=> j = id
  \/ /\ h \notin Offered[f] /\ availableSlots[f][h] = 0
     /\ \A j : h \notin HeldBy(f, j)

EveryHalfHourOwned == \A f \in Facilities, h \in HalfHours : Owned(f, h)

LEMMA HoldersHeldBy ==
  ASSUME NEW f \in Facilities, NEW h, NEW j
  PROVE  j \in Holders(f, h) <=> h \in HeldBy(f, j)
BY DEF Holders, HeldBy

LEMMA OwnedIsConserved ==
  SlotsConserved <=> EveryHalfHourOwned
<1>1. ASSUME NEW f \in Facilities, NEW h \in HalfHours
      PROVE  /\ Holders(f, h) = {} <=> \A j : h \notin HeldBy(f, j)
             /\ (\E id \in DOMAIN bookings[f] : Holders(f, h) = {id})
                  <=> (\E id : \A j : h \in HeldBy(f, j) <=> j = id)
  <2>1. Holders(f, h) = {} <=> \A j : h \notin HeldBy(f, j)
    BY HoldersHeldBy
  <2>2. ASSUME NEW id, \A j : h \in HeldBy(f, j) <=> j = id
        PROVE  id \in DOMAIN bookings[f] /\ Holders(f, h) = {id}
    <3>1. \A j : j \in Holders(f, h) <=> j = id
      BY <2>2, HoldersHeldBy
    <3> QED BY <3>1 DEF Holders
  <2>3. ASSUME NEW id, Holders(f, h) = {id}
        PROVE  \A j : h \in HeldBy(f, j) <=> j = id
    BY <2>3, HoldersHeldBy
  <2> QED BY <2>1, <2>2, <2>3
<1> QED BY <1>1 DEF SlotsConserved, EveryHalfHourOwned, Owned

(* A reassignment conserves the half hours.                                *)
LEMMA ReassignedConserves ==
  ASSUME NEW f \in Facilities, NEW id, NEW N, Reassigned(f, id, N),
         EveryHalfHourOwned
  PROVE  EveryHalfHourOwned'
<1> SUFFICES ASSUME NEW g \in Facilities, NEW h \in HalfHours
             PROVE  Owned(g, h)'
  BY DEF EveryHalfHourOwned
<1>0. Owned(g, h)
  BY DEF EveryHalfHourOwned
<1>1. CASE g # f
  <2>1. availableSlots'[g] = availableSlots[g] /\ bookings'[g] = bookings[g]
    BY <1>1 DEF Reassigned
  <2>2. \A j : h \in HeldBy(g, j)' <=> h \in HeldBy(g, j)
    BY <2>1 DEF HeldBy
  <2>3. availableSlots'[g][h] = availableSlots[g][h]
    BY <2>1
  <2> QED BY <1>0, <2>2, <2>3 DEF Owned
<1>2. CASE g = f
  <2>1. /\ h \in N => h \in HeldBy(f, id) \/ availableSlots[f][h] > 0
        /\ availableSlots'[f][h] = IF h \in N THEN 0
                                   ELSE IF h \in HeldBy(f, id) THEN 1
                                   ELSE availableSlots[f][h]
    BY DEF Reassigned
  <2>2. \A j : h \in HeldBy(f, j)' <=> IF j = id THEN h \in N ELSE h \in HeldBy(f, j)
    BY DEF Reassigned
  <2>3. CASE h \in N
    <3>1. h \in Offered[f] /\ \A j : j # id => h \notin HeldBy(f, j)
      BY <1>0, <1>2, <2>1, <2>3 DEF Owned
    <3>2. \A j : h \in HeldBy(f, j)' <=> j = id
      BY <2>2, <2>3, <3>1
    <3> QED BY <1>2, <2>1, <2>3, <3>1, <3>2 DEF Owned
  <2>4. CASE h \notin N /\ h \in HeldBy(f, id)
    <3>1. h \in Offered[f] /\ \A j : j # id => h \notin HeldBy(f, j)
      BY <1>0, <1>2, <2>4 DEF Owned
    <3>2. \A j : h \notin HeldBy(f, j)'
      BY <2>2, <2>4, <3>1
    <3> QED BY <1>2, <2>1, <2>4, <3>1, <3>2 DEF Owned
  <2>5. CASE h \notin N /\ h \notin HeldBy(f, id)
    <3>1. \A j : h \in HeldBy(f, j)' <=> h \in HeldBy(f, j)
      BY <2>2, <2>5
    <3>2. availableSlots'[f][h] = availableSlots[f][h]
      BY <2>1, <2>5
    <3> QED BY <1>0, <1>2, <3>1, <3>2 DEF Owned
  <2> QED BY <2>3, <2>4, <2>5
<1> QED BY <1>1, <1>2
-----------------------------------------------------------------------------
(* Type correctness.                                                       *)

(* Each vector operation yields a vector, and counts no half hour below    *)
(* zero when the parts erased by index are on offer.                       *)
LEMMA VectorTypes ==
  ASSUME NEW avail \in [HalfHours -> Nat], NEW parts
  PROVE  /\ PushBack(avail, parts) \in [HalfHours -> Nat]
         /\ EraseAll(avail, parts) \in [HalfHours -> Nat]
         /\ (\A h \in parts : avail[h] > 0) =>
              EraseMatched(avail, parts) \in [HalfHours -> Nat]
<1>1. \A h \in HalfHours : avail[h] \in Nat
  OBVIOUS
<1>2. PushBack(avail, parts) \in [HalfHours -> Nat]
  BY <1>1 DEF PushBack
<1>3. EraseAll(avail, parts) \in [HalfHours -> Nat]
  BY <1>1 DEF EraseAll
<1>4. ASSUME \A h \in parts : avail[h] > 0
      PROVE  EraseMatched(avail, parts) \in [HalfHours -> Nat]
  <2>1. \A h \in HalfHours : h \in parts => avail[h] - 1 \in Nat
    BY <1>1, <1>4
  <2> QED BY <1>1, <2>1 DEF EraseMatched
<1> QED BY <1>2, <1>3, <1>4

(* The bookings of one facility: a map from some of the IDs to slots.      *)
BookingMap(map) == DOMAIN map \subseteq Ids /\ \A i \in DOMAIN map : map[i] \in TimeSlot

(* Changing one facility's vector and map keeps the types.                 *)
LEMMA TypeKept ==
  ASSUME TypeOK, NEW f \in Facilities, NEW avail \in [HalfHours -> Nat],
         availableSlots' = [availableSlots EXCEPT ![f] = avail],
         DOMAIN bookings' = Facilities, BookingMap(bookings'[f]),
         \A g \in Facilities \ {f} : bookings'[g] = bookings[g],
         currentId' \in Ids
  PROVE  TypeOK'
<1>1. availableSlots' \in [Facilities -> [HalfHours -> Nat]]
  BY DEF TypeOK
<1>2. ASSUME NEW g \in Facilities
      PROVE  BookingMap(bookings'[g])
  BY DEF TypeOK, BookingMap
<1> QED BY <1>1, <1>2 DEF TypeOK, BookingMap

(* The state of one facility.                                              *)
LEMMA TypeOf ==
  ASSUME TypeOK, NEW f \in Facilities
  PROVE  /\ availableSlots[f] \in [HalfHours -> Nat]
         /\ BookingMap(bookings[f])
         /\ DOMAIN bookings = Facilities
         /\ currentId \in Ids
BY DEF TypeOK, BookingMap

LEMMA BookTypes ==
  ASSUME TypeOK, NEW f \in Facilities, NEW slot \in Requests, BookSlot(f, slot)
  PROVE  TypeOK'
<1>1. slot \in TimeSlot
  BY FacilityAssumption DEF Requests, TimeSlot
<1>2. EraseMatched(availableSlots[f], Parts(slot)) \in [HalfHours -> Nat]
  BY <1>1, TypeOf, MatchedParts, VectorTypes DEF BookSlot
<1>3. BookingMap(Emplace(bookings[f], currentId, slot))
  BY <1>1, TypeOf DEF BookingMap, Emplace
<1>4. /\ DOMAIN bookings' = Facilities
      /\ bookings'[f] = Emplace(bookings[f], currentId, slot)
      /\ \A g \in Facilities \ {f} : bookings'[g] = bookings[g]
  BY TypeOf DEF BookSlot
<1>5. currentId' \in Ids
  <2>1. currentId \in Nat /\ IdSpace \in Nat \ {0}
    BY TypeOf, FacilityAssumption DEF Ids
  <2> QED BY <2>1 DEF BookSlot, Ids
<1> QED BY <1>2, <1>3, <1>4, <1>5, TypeKept DEF BookSlot

LEMMA RollbackTypes ==
  ASSUME TypeOK, NEW f \in Facilities, NEW id \in Ids, NEW offset \in Offsets,
         ModifyRolledBack(f, id, offset)
  PROVE  TypeOK'
<1>1. EraseAll(Returned(f, id), Parts(bookings[f][id])) \in [HalfHours -> Nat]
  BY TypeOf, VectorTypes DEF Returned
<1>2. bookings' = bookings /\ currentId' = currentId
  BY DEF ModifyRolledBack
<1> QED BY <1>1, <1>2, TypeOf, TypeKept DEF ModifyRolledBack

LEMMA ModifyTypes ==
  ASSUME TypeOK, NEW f \in Facilities, NEW id \in Ids, NEW offset \in Offsets,
         ModifyBooking(f, id, offset)
  PROVE  TypeOK'
<1> DEFINE newSlot == Shifted(bookings[f][id], offset)
<1>1. id \in DOMAIN bookings[f] /\ bookings[f][id] \in TimeSlot
  BY TypeOf DEF ModifyBooking, BookingMap
<1>2. newSlot \in TimeSlot
  BY <1>1, ShiftedSlot, FacilityAssumption DEF ModifyBooking
<1>3. EraseAll(Returned(f, id), Parts(newSlot)) \in [HalfHours -> Nat]
  BY TypeOf, VectorTypes DEF Returned
<1>4. /\ DOMAIN bookings' = Facilities
      /\ bookings'[f] = [bookings[f] EXCEPT ![id] = newSlot]
      /\ \A g \in Facilities \ {f} : bookings'[g] = bookings[g]
  BY TypeOf DEF ModifyBooking
<1> HIDE DEF newSlot
<1>5. BookingMap(bookings'[f])
  BY <1>1, <1>2, <1>4, TypeOf DEF BookingMap
<1> QED BY <1>3, <1>4, <1>5, TypeOf, TypeKept DEF ModifyBooking, newSlot

LEMMA ExtendTypes ==
  ASSUME TypeOK, NEW f \in Facilities, NEW id \in Ids, NEW minutes \in Offsets,
         ExtendBooking(f, id, minutes)
  PROVE  TypeOK'
<1> DEFINE added == Extension(bookings[f][id], minutes)
<1>1. id \in DOMAIN bookings[f] /\ bookings[f][id] \in TimeSlot
  BY TypeOf DEF ExtendBooking, BookingMap
<1>2. added \in TimeSlot
  BY <1>1, ExtensionSlot, FacilityAssumption DEF ExtendBooking, Extensible
<1>3. EraseAll(availableSlots[f], Parts(added)) \in [HalfHours -> Nat]
  BY TypeOf, VectorTypes
<1>4. /\ DOMAIN bookings' = Facilities
      /\ bookings'[f] = [bookings[f] EXCEPT ![id].endTime = added.endTime]
      /\ \A g \in Facilities \ {f} : bookings'[g] = bookings[g]
  BY TypeOf DEF ExtendBooking
<1> HIDE DEF added
<1>5. [bookings[f][id] EXCEPT !.endTime = added.endTime] \in TimeSlot
  BY <1>1, <1>2 DEF TimeSlot
<1>6. BookingMap(bookings'[f])
  BY <1>1, <1>4, <1>5, TypeOf DEF BookingMap
<1> QED BY <1>3, <1>4, <1>6, TypeOf, TypeKept DEF ExtendBooking, added

LEMMA CancelTypes ==
  ASSUME TypeOK, NEW f \in Facilities, NEW id \in Ids, CancelBooking(f, id)
  PROVE  TypeOK'
<1>1. PushBack(availableSlots[f], Parts(bookings[f][id])) \in [HalfHours -> Nat]
  BY TypeOf, VectorTypes
<1>2. /\ DOMAIN bookings' = Facilities
      /\ bookings'[f] = Erase(bookings[f], id)
      /\ \A g \in Facilities \ {f} : bookings'[g] = bookings[g]
  BY TypeOf DEF CancelBooking
<1>3. BookingMap(Erase(bookings[f], id))
  BY TypeOf DEF BookingMap, Erase
<1> QED BY <1>1, <1>2, <1>3, TypeOf, TypeKept DEF CancelBooking

LEMMA InitTypes ==
  Init => TypeOK
<1> SUFFICES ASSUME Init PROVE TypeOK
  OBVIOUS
<1>1. availableSlots \in [Facilities -> [HalfHours -> Nat]]
  BY DEF Init
<1>2. \A f \in Facilities : DOMAIN bookings[f] = {}
  BY DEF Init
<1>3. DOMAIN bookings = Facilities /\ currentId \in Ids
  BY FacilityAssumption DEF Init, Ids
<1> QED BY <1>1, <1>2, <1>3 DEF TypeOK

(* Next changes the variables by one of five operations.                   *)
Changes ==
  \E f \in Facilities :
    \/ \E slot \in Requests : BookSlot(f, slot)
    \/ \E id \in Ids : CancelBooking(f, id)
    \/ \E id \in Ids, m \in Offsets :
         \/ ModifyBooking(f, id, m)
         \/ ModifyRolledBack(f, id, m)
         \/ ExtendBooking(f, id, m)

LEMMA NextChanges ==
  [Next]_vars => Changes \/ UNCHANGED vars
BY DEF Next, Changes, BookRefused, CancelRejected, ModifyRejected, ExtendRejected

(* Every variable keeps its shape, whatever requests come, even when the   *)
(* ID counter wraps around.                                                *)
THEOREM TypeCorrect == Spec => []TypeOK
<1>1. TypeOK /\ [Next]_vars => TypeOK'
  <2> SUFFICES ASSUME TypeOK, [Next]_vars PROVE TypeOK'
    OBVIOUS
  <2>1. CASE Changes
    BY <2>1, BookTypes, CancelTypes, ModifyTypes, RollbackTypes, ExtendTypes DEF Changes
  <2>2. CASE UNCHANGED vars
    BY <2>2 DEF vars, TypeOK
  <2> QED BY <2>1, <2>2, NextChanges
<1> QED BY <1>1, InitTypes, PTL DEF Spec
-----------------------------------------------------------------------------
(* Conservation.  The invariant of the argument: every half hour has one   *)
(* owner, every booking is a run of half hours (so that its parts, its     *)
(* extension's parts and their union are what the clock says), and no ID   *)
(* is in use that the counter is still to hand out (so that emplace never  *)
(* finds its key taken).                                                   *)
IInv ==
  /\ TypeOK
  /\ FreshIds
  /\ UniqueIds
  /\ BookingsAligned
  /\ SlotsConserved

(* What SlotsConserved says of one half hour in use.                       *)
LEMMA HeldIsTaken ==
  ASSUME SlotsConserved, NEW f \in Facilities, NEW h \in HalfHours
  PROVE  /\ availableSlots[f][h] \in {0, 1}
         /\ \A id : h \in HeldBy(f, id) => availableSlots[f][h] = 0
BY OwnedIsConserved DEF EveryHalfHourOwned, Owned

(* The half hours of a well-formed slot.                                   *)
LEMMA PartsAreHalfHours ==
  ASSUME NEW slot \in TimeSlot, slot.startTime = slot.endTime \/ Aligned(slot)
  PROVE  Parts(slot) \subseteq HalfHours
<1>1. CASE slot.startTime = slot.endTime
  BY <1>1, NoParts, SlotTimes
<1>2. CASE Aligned(slot)
  BY <1>2, PartsBetween DEF Between
<1> QED BY <1>1, <1>2

(* The booking a CHANGE, EXTEND or CANCEL is about.                        *)
LEMMA BookingOf ==
  ASSUME IInv, NEW f \in Facilities, NEW id \in DOMAIN bookings[f]
  PROVE  LET b == bookings[f][id]
         IN  /\ b \in TimeSlot
             /\ b.startTime = b.endTime \/ Aligned(b)
             /\ HeldBy(f, id) = Parts(b)
             /\ Parts(b) \subseteq HalfHours
<1>1. bookings[f][id] \in TimeSlot
  BY DEF IInv, TypeOK
<1>2. bookings[f][id].startTime = bookings[f][id].endTime \/ Aligned(bookings[f][id])
  BY DEF IInv, BookingsAligned
<1> QED BY <1>1, <1>2, PartsAreHalfHours DEF HeldBy

LEMMA BookReassigns ==
  ASSUME IInv, NEW f \in Facilities, NEW slot \in Requests, BookSlot(f, slot),
         NEW id, id = currentId
  PROVE  /\ Reassigned(f, id, Parts(slot))
         /\ slot.startTime = slot.endTime \/ Aligned(slot)
         /\ DOMAIN bookings'[f] = DOMAIN bookings[f] \cup {id}
         /\ \A i \in DOMAIN bookings[f] : bookings'[f][i] = bookings[f][i]
         /\ bookings'[f][id] = slot
<1>1. slot \in TimeSlot /\ availableSlots[f] \in [HalfHours -> Nat]
  BY FacilityAssumption, TypeOf DEF Requests, TimeSlot, IInv
<1>2. /\ slot.startTime = slot.endTime \/ Aligned(slot)
      /\ \A h \in Parts(slot) : h \in HalfHours /\ availableSlots[f][h] > 0
  BY <1>1, MatchedParts DEF BookSlot
<1>3. id \notin DOMAIN bookings[f]
  BY TypeOf DEF IInv, FreshIds, Ids
<1>4. /\ bookings'[f] = Emplace(bookings[f], id, slot)
      /\ availableSlots'[f] = EraseMatched(availableSlots[f], Parts(slot))
      /\ \A g \in Facilities \ {f} : /\ availableSlots'[g] = availableSlots[g]
                                   /\ bookings'[g] = bookings[g]
  BY DEF BookSlot, IInv, TypeOK
<1>5. /\ DOMAIN bookings'[f] = DOMAIN bookings[f] \cup {id}
      /\ \A i \in DOMAIN bookings[f] : bookings'[f][i] = bookings[f][i]
      /\ bookings'[f][id] = slot
  BY <1>3, <1>4 DEF Emplace
<1>6. HeldBy(f, id) = {} /\ HeldBy(f, id)' = Parts(slot)
  BY <1>3, <1>5 DEF HeldBy
<1>7. ASSUME NEW j, j # id
      PROVE  HeldBy(f, j)' = HeldBy(f, j)
  BY <1>5, <1>7 DEF HeldBy
<1>8. ASSUME NEW h \in HalfHours
      PROVE  availableSlots'[f][h] = IF h \in Parts(slot) THEN 0 ELSE availableSlots[f][h]
  <2>1. h \in Parts(slot) => availableSlots[f][h] = 1
    BY <1>2, HeldIsTaken DEF IInv
  <2> QED BY <1>4, <2>1 DEF EraseMatched
<1> QED BY <1>2, <1>4, <1>5, <1>6, <1>7, <1>8 DEF Reassigned

LEMMA CancelReassigns ==
  ASSUME IInv, NEW f \in Facilities, NEW id \in Ids, CancelBooking(f, id)
  PROVE  /\ Reassigned(f, id, {})
         /\ DOMAIN bookings'[f] = DOMAIN bookings[f] \ {id}
         /\ \A i \in DOMAIN bookings'[f] : bookings'[f][i] = bookings[f][i]
<1>1. id \in DOMAIN bookings[f]
  BY DEF CancelBooking
<1>2. /\ bookings'[f] = Erase(bookings[f], id)
      /\ availableSlots'[f] = PushBack(availableSlots[f], HeldBy(f, id))
      /\ \A g \in Facilities \ {f} : /\ availableSlots'[g] = availableSlots[g]
                                   /\ bookings'[g] = bookings[g]
  BY <1>1 DEF CancelBooking, IInv, TypeOK, HeldBy
<1>3. /\ DOMAIN bookings'[f] = DOMAIN bookings[f] \ {id}
      /\ \A i \in DOMAIN bookings'[f] : bookings'[f][i] = bookings[f][i]
  BY <1>2 DEF Erase
<1>4. HeldBy(f, id)' = {} /\ \A j : j # id => HeldBy(f, j)' = HeldBy(f, j)
  BY <1>3 DEF HeldBy
<1>5. ASSUME NEW h \in HalfHours
      PROVE  availableSlots'[f][h] = IF h \in HeldBy(f, id) THEN 1 ELSE availableSlots[f][h]
  <2>1. h \in HeldBy(f, id) => availableSlots[f][h] = 0
    BY HeldIsTaken DEF IInv
  <2> QED BY <1>2, <2>1 DEF PushBack
<1> QED BY <1>2, <1>3, <1>4, <1>5 DEF Reassigned
(* While a CHANGE looks for its new slot, what the booking held is on      *)
(* offer too.                                                              *)
LEMMA ReturnedParts ==
  ASSUME IInv, NEW f \in Facilities, NEW id \in DOMAIN bookings[f]
  PROVE  /\ Returned(f, id) \in [HalfHours -> Nat]
         /\ \A h \in HalfHours :
              Returned(f, id)[h] = IF h \in HeldBy(f, id) THEN 1 ELSE availableSlots[f][h]
<1>1. Returned(f, id) \in [HalfHours -> Nat]
  BY TypeOf, VectorTypes DEF Returned, IInv
<1>2. ASSUME NEW h \in HalfHours
      PROVE  Returned(f, id)[h] = IF h \in HeldBy(f, id) THEN 1 ELSE availableSlots[f][h]
  <2>1. h \in HeldBy(f, id) => availableSlots[f][h] = 0
    BY HeldIsTaken DEF IInv
  <2> QED BY <2>1, BookingOf DEF Returned, PushBack
<1> QED BY <1>1, <1>2

LEMMA ModifyReassigns ==
  ASSUME IInv, NEW f \in Facilities, NEW id \in Ids, NEW offset \in Offsets,
         ModifyBooking(f, id, offset)
  PROVE  LET newSlot == Shifted(bookings[f][id], offset)
         IN  /\ Reassigned(f, id, Parts(newSlot))
             /\ Aligned(newSlot)
             /\ DOMAIN bookings'[f] = DOMAIN bookings[f]
             /\ \A i \in DOMAIN bookings[f] :
                  bookings'[f][i] = IF i = id THEN newSlot ELSE bookings[f][i]
<1> DEFINE newSlot == Shifted(bookings[f][id], offset)
<1>1. id \in DOMAIN bookings[f]
  BY DEF ModifyBooking
<1>2. newSlot \in TimeSlot /\ newSlot.startTime < newSlot.endTime
  BY <1>1, BookingOf, ShiftedSlot, FacilityAssumption DEF ModifyBooking
<1>3. Covered(Returned(f, id), newSlot)
  BY <1>2 DEF ModifyBooking, IsAvailable
<1>4. /\ availableSlots'[f] = EraseAll(Returned(f, id), Parts(newSlot))
      /\ \A g \in Facilities \ {f} : /\ availableSlots'[g] = availableSlots[g]
                                   /\ bookings'[g] = bookings[g]
      /\ bookings'[f] = [bookings[f] EXCEPT ![id] = newSlot]
  BY DEF ModifyBooking, IInv, TypeOK
<1> HIDE DEF newSlot
<1>5. Aligned(newSlot) /\ \A h \in Parts(newSlot) : h \in HalfHours /\ Returned(f, id)[h] > 0
  BY <1>1, <1>2, <1>3, ReturnedParts, CoveredParts
<1>6. \A h \in Parts(newSlot) :
         h \in HalfHours /\ (h \in HeldBy(f, id) \/ availableSlots[f][h] > 0)
  BY <1>1, <1>5, ReturnedParts
<1>7. /\ DOMAIN bookings'[f] = DOMAIN bookings[f]
      /\ \A i \in DOMAIN bookings[f] :
           bookings'[f][i] = IF i = id THEN newSlot ELSE bookings[f][i]
  BY <1>4
<1>8. HeldBy(f, id)' = Parts(newSlot) /\ \A j : j # id => HeldBy(f, j)' = HeldBy(f, j)
  BY <1>1, <1>7 DEF HeldBy
<1>9. \A h \in HalfHours :
         availableSlots'[f][h] = IF h \in Parts(newSlot) THEN 0
                                 ELSE IF h \in HeldBy(f, id) THEN 1
                                 ELSE availableSlots[f][h]
  BY <1>1, <1>4, ReturnedParts DEF EraseAll
<1> QED BY <1>4, <1>5, <1>6, <1>7, <1>8, <1>9 DEF Reassigned, newSlot

(* A rollback restores the vector: what it erases are the copies it added. *)
LEMMA RollbackRestores ==
  ASSUME IInv, NEW f \in Facilities, NEW id \in Ids, NEW offset \in Offsets,
         ModifyRolledBack(f, id, offset)
  PROVE  UNCHANGED vars
<1>1. id \in DOMAIN bookings[f]
  BY DEF ModifyRolledBack
<1>2. ASSUME NEW h \in HalfHours
      PROVE  EraseAll(Returned(f, id), Parts(bookings[f][id]))[h] = availableSlots[f][h]
  <2>1. h \in HeldBy(f, id) => availableSlots[f][h] = 0
    BY HeldIsTaken DEF IInv
  <2> QED BY <1>1, <2>1, ReturnedParts, BookingOf DEF EraseAll
<1>3. availableSlots[f] \in [HalfHours -> Nat]
  BY TypeOf DEF IInv
<1>4. EraseAll(Returned(f, id), Parts(bookings[f][id])) = availableSlots[f]
  BY <1>2, <1>3 DEF EraseAll
<1>5. availableSlots' = availableSlots
  BY <1>4 DEF ModifyRolledBack, IInv, TypeOK
<1> QED BY <1>5 DEF ModifyRolledBack, vars

LEMMA ExtendReassigns ==
  ASSUME IInv, NEW f \in Facilities, NEW id \in Ids, NEW minutes \in Offsets,
         ExtendBooking(f, id, minutes)
  PROVE  LET old == bookings[f][id]
             added == Extension(old, minutes)
         IN  /\ Reassigned(f, id, Parts(old) \cup Parts(added))
             /\ DOMAIN bookings'[f] = DOMAIN bookings[f]
             /\ \A i \in DOMAIN bookings[f] : i # id => bookings'[f][i] = bookings[f][i]
             /\ Aligned(bookings'[f][id])
<1> DEFINE old == bookings[f][id]
           added == Extension(old, minutes)
           new == [old EXCEPT !.endTime = added.endTime]
<1>1. id \in DOMAIN bookings[f]
  BY DEF ExtendBooking
<1>2. /\ old \in TimeSlot
      /\ old.startTime = old.endTime \/ Aligned(old)
      /\ HeldBy(f, id) = Parts(old)
      /\ Parts(old) \subseteq HalfHours
  BY <1>1, BookingOf
<1>3. /\ added \in TimeSlot /\ added.day = old.day
      /\ added.startTime = old.endTime /\ added.startTime < added.endTime
  BY <1>2, ExtensionSlot, SlotTimes, FacilityAssumption DEF ExtendBooking, Extensible
<1>4. Covered(availableSlots[f], added)
  BY <1>3 DEF ExtendBooking, Extensible, IsAvailable
<1>5. /\ availableSlots'[f] = EraseAll(availableSlots[f], Parts(added))
      /\ \A g \in Facilities \ {f} : /\ availableSlots'[g] = availableSlots[g]
                                   /\ bookings'[g] = bookings[g]
      /\ bookings'[f] = [bookings[f] EXCEPT ![id] = new]
  BY DEF ExtendBooking, IInv, TypeOK
<1>6. Aligned(new) /\ Parts(new) = Parts(old) \cup Parts(added)
  <2>1. Aligned(added)
    BY <1>3, <1>4, CoveredParts, TypeOf DEF IInv
  <2>2. CASE Aligned(old)
    BY <1>3, <2>1, <2>2, PartsJoin
  <2>3. CASE old.startTime = old.endTime
    <3>1. new = added
      BY <1>2, <1>3, <2>3 DEF TimeSlot
    <3>2. Parts(old) = {}
      BY <1>2, <2>3, NoParts, SlotTimes
    <3> QED BY <2>1, <3>1, <3>2
  <2> QED BY <1>2, <2>2, <2>3
<1> HIDE DEF added, new
<1>7. \A h \in Parts(added) : h \in HalfHours /\ availableSlots[f][h] > 0
  BY <1>3, <1>4, CoveredParts, TypeOf DEF IInv
<1>8. /\ DOMAIN bookings'[f] = DOMAIN bookings[f]
      /\ \A i \in DOMAIN bookings[f] : bookings'[f][i] = IF i = id THEN new ELSE bookings[f][i]
  BY <1>5
<1>9. HeldBy(f, id)' = Parts(new) /\ \A j : j # id => HeldBy(f, j)' = HeldBy(f, j)
  BY <1>1, <1>8 DEF HeldBy
<1>10. ASSUME NEW h \in HalfHours
       PROVE  availableSlots'[f][h] = IF h \in Parts(new) THEN 0
                                      ELSE IF h \in HeldBy(f, id) THEN 1
                                      ELSE availableSlots[f][h]
  <2>1. h \in Parts(old) => availableSlots[f][h] = 0
    BY <1>2, HeldIsTaken DEF IInv
  <2> QED BY <1>2, <1>5, <1>6, <2>1 DEF EraseAll
<1>11. Reassigned(f, id, Parts(new))
  BY <1>2, <1>5, <1>6, <1>7, <1>9, <1>10 DEF Reassigned
<1> QED BY <1>1, <1>6, <1>8, <1>11 DEF added
(* An operation that adds no booking and leaves every other booking alone. *)
LEMMA SameIds ==
  ASSUME IInv, NEW f \in Facilities, NEW id, NEW N,
         Reassigned(f, id, N), TypeOK', currentId' = currentId,
         DOMAIN bookings'[f] \subseteq DOMAIN bookings[f],
         \A i \in DOMAIN bookings'[f] :
           \/ bookings'[f][i] = bookings[f][i]
           \/ bookings'[f][i].startTime = bookings'[f][i].endTime
           \/ Aligned(bookings'[f][i])
  PROVE  IInv'
<1>1. \A g \in Facilities : DOMAIN bookings'[g] \subseteq DOMAIN bookings[g]
  BY DEF Reassigned
<1>2. FreshIds'
  BY <1>1 DEF IInv, FreshIds
<1>3. UniqueIds'
  BY <1>1 DEF IInv, UniqueIds
<1>4. BookingsAligned'
  <2>1. ASSUME NEW g \in Facilities, NEW i \in DOMAIN bookings'[g]
        PROVE  \/ bookings'[g][i].startTime = bookings'[g][i].endTime
               \/ Aligned(bookings'[g][i])
    BY <1>1 DEF Reassigned, IInv, BookingsAligned
  <2> QED BY <2>1 DEF BookingsAligned
<1>5. SlotsConserved'
  <2>1. EveryHalfHourOwned
    BY OwnedIsConserved DEF IInv
  <2>2. EveryHalfHourOwned'
    BY <2>1, ReassignedConserves
  <2> QED BY <2>2, OwnedIsConserved, PTL
<1> QED BY <1>2, <1>3, <1>4, <1>5 DEF IInv

(* A booking takes the ID the counter shows, which no facility uses, and   *)
(* the counter moves on; it does not wrap around below MaxId.              *)
LEMMA BookKeepsInvariant ==
  ASSUME MaxId < IdSpace, IInv, NEW f \in Facilities, NEW slot \in Requests,
         BookSlot(f, slot)
  PROVE  IInv'
<1>1. PICK id : id = currentId
  OBVIOUS
<1>2. /\ Reassigned(f, id, Parts(slot))
      /\ slot.startTime = slot.endTime \/ Aligned(slot)
      /\ DOMAIN bookings'[f] = DOMAIN bookings[f] \cup {id}
      /\ \A i \in DOMAIN bookings[f] : bookings'[f][i] = bookings[f][i]
      /\ bookings'[f][id] = slot
  BY <1>1, BookReassigns
<1>3. currentId' = id + 1 /\ id \in Nat
  <2>1. id \in Nat /\ id + 1 < IdSpace + 0 /\ IdSpace \in Nat /\ currentId' = (id + 1) % IdSpace
    BY <1>1, FacilityAssumption, TypeOf DEF BookSlot, IInv, Ids
  <2> QED BY <2>1
<1>4. \A g \in Facilities : g # f => bookings'[g] = bookings[g]
  BY <1>2 DEF Reassigned
<1>5. FreshIds'
  <2>1. ASSUME NEW g \in Facilities, NEW i \in DOMAIN bookings'[g]
        PROVE  i < currentId'
    <3>1. i = id \/ i \in DOMAIN bookings[g]
      BY <1>2, <1>4
    <3>2. i \in DOMAIN bookings[g] => i \in Nat /\ i < id
      BY <1>1 DEF IInv, FreshIds, TypeOK, Ids
    <3> QED BY <1>3, <3>1, <3>2
  <2> QED BY <2>1 DEF FreshIds
<1>6. UniqueIds'
  <2>1. \A g \in Facilities : id \notin DOMAIN bookings[g]
    BY <1>1, <1>3 DEF IInv, FreshIds
  <2> QED BY <1>2, <1>4, <2>1 DEF IInv, UniqueIds
<1>7. BookingsAligned'
  <2>1. ASSUME NEW g \in Facilities, NEW i \in DOMAIN bookings'[g]
        PROVE  \/ bookings'[g][i].startTime = bookings'[g][i].endTime
               \/ Aligned(bookings'[g][i])
    BY <1>2, <1>4 DEF IInv, BookingsAligned
  <2> QED BY <2>1 DEF BookingsAligned
<1>8. SlotsConserved'
  <2>1. EveryHalfHourOwned
    BY OwnedIsConserved DEF IInv
  <2>2. EveryHalfHourOwned'
    BY <1>2, <2>1, ReassignedConserves
  <2> QED BY <2>2, OwnedIsConserved, PTL
<1>9. TypeOK'
  BY BookTypes DEF IInv
<1> QED BY <1>5, <1>6, <1>7, <1>8, <1>9 DEF IInv

LEMMA InitInvariant ==
  Init => IInv
<1> SUFFICES ASSUME Init PROVE IInv
  OBVIOUS
<1>1. \A f \in Facilities : DOMAIN bookings[f] = {}
  BY DEF Init
<1>2. FreshIds /\ UniqueIds /\ BookingsAligned
  BY <1>1 DEF FreshIds, UniqueIds, BookingsAligned
<1>3. SlotsConserved
  <2>1. \A f \in Facilities, h \in HalfHours : Holders(f, h) = {}
    BY <1>1 DEF Holders
  <2>2. \A f \in Facilities, h \in HalfHours :
           availableSlots[f][h] = IF h \in Offered[f] THEN 1 ELSE 0
    BY DEF Init
  <2> QED BY <2>1, <2>2 DEF SlotsConserved
<1> QED BY <1>2, <1>3, InitTypes DEF IInv

LEMMA InvariantStep ==
  ASSUME MaxId < IdSpace
  PROVE  IInv /\ [Next]_vars => IInv'
<1> SUFFICES ASSUME IInv, [Next]_vars PROVE IInv'
  OBVIOUS
<1>1. CASE UNCHANGED vars
  BY <1>1 DEF vars, IInv, TypeOK, FreshIds, UniqueIds, BookingsAligned, SlotsConserved, Holders
<1>2. ASSUME NEW f \in Facilities, NEW slot \in Requests, BookSlot(f, slot)
      PROVE  IInv'
  BY <1>2, BookKeepsInvariant
<1>3. ASSUME NEW f \in Facilities, NEW id \in Ids, CancelBooking(f, id)
      PROVE  IInv'
  <2>1. TypeOK' /\ currentId' = currentId
    BY <1>3, CancelTypes DEF IInv, CancelBooking
  <2> QED BY <1>3, <2>1, CancelReassigns, SameIds
<1>4. ASSUME NEW f \in Facilities, NEW id \in Ids, NEW m \in Offsets, ModifyBooking(f, id, m)
      PROVE  IInv'
  <2>1. TypeOK' /\ currentId' = currentId
    BY <1>4, ModifyTypes DEF IInv, ModifyBooking
  <2> QED BY <1>4, <2>1, ModifyReassigns, SameIds
<1>5. ASSUME NEW f \in Facilities, NEW id \in Ids, NEW m \in Offsets, ModifyRolledBack(f, id, m)
      PROVE  IInv'
  BY <1>5, <1>1, RollbackRestores
<1>6. ASSUME NEW f \in Facilities, NEW id \in Ids, NEW m \in Offsets, ExtendBooking(f, id, m)
      PROVE  IInv'
  <2>1. TypeOK' /\ currentId' = currentId
    BY <1>6, ExtendTypes DEF IInv, ExtendBooking
  <2>2. PICK N : Reassigned(f, id, N)
    BY <1>6, ExtendReassigns
  <2>3. /\ DOMAIN bookings'[f] \subseteq DOMAIN bookings[f]
        /\ \A i \in DOMAIN bookings'[f] : bookings'[f][i] = bookings[f][i]
                                        \/ Aligned(bookings'[f][i])
    BY <1>6, ExtendReassigns
  <2> QED BY <2>1, <2>2, <2>3, SameIds
<1> QED BY <1>1, <1>2, <1>3, <1>4, <1>5, <1>6, NextChanges DEF Changes
LEMMA Invariance ==
  ASSUME MaxId < IdSpace
  PROVE  Spec => []IInv
<1>1. Init => IInv
  BY InitInvariant
<1>2. IInv /\ [Next]_vars => IInv'
  BY InvariantStep
<1> QED BY <1>1, <1>2, PTL DEF Spec

(* As long as the ID counter does not wrap around, every half hour stays   *)
(* on offer or with one booking, whatever the clients ask for.             *)
THEOREM Conservation ==
  ASSUME MaxId < IdSpace
  PROVE  Spec => []SlotsConserved
<1>1. IInv => SlotsConserved
  BY DEF IInv
<1> QED BY <1>1, Invariance, PTL

(* ...and no booking ID names two bookings.                                *)
THEOREM IdsUnique ==
  ASSUME MaxId < IdSpace
  PROVE  Spec => []UniqueIds
<1>1. IInv => UniqueIds
  BY DEF IInv
<1> QED BY <1>1, Invariance, PTL

(* ...nor is the next ID to be given one that a booking has already.       *)
THEOREM NextIdFresh ==
  ASSUME MaxId < IdSpace
  PROVE  Spec => []FreshIds
<1>1. IInv => FreshIds
  BY DEF IInv
<1> QED BY <1>1, Invariance, PTL

(* ...and every booking is empty or a run of half hours.                   *)
THEOREM RunsOnly ==
  ASSUME MaxId < IdSpace
  PROVE  Spec => []BookingsAligned
<1>1. IInv => BookingsAligned
  BY DEF IInv
<1> QED BY <1>1, Invariance, PTL

(* Two aligned slots that overlap share a half hour: the one that starts   *)
(* where the later of them does.                                           *)
LEMMA OverlapShares ==
  ASSUME NEW a, NEW b, Aligned(a), Aligned(b), Overlap(a, b)
  PROVE  \E h \in HalfHours : h \in Parts(a) /\ h \in Parts(b)
<1>1. ASSUME NEW x, NEW y, Aligned(x), Aligned(y), Overlap(x, y), x.startTime <= y.startTime
      PROVE  \E h \in HalfHours : h \in Parts(x) /\ h \in Parts(y)
  <2>1. PICK i \in 0..19 : y.startTime = Boundary(i)
    BY <1>1 DEF Aligned
  <2>2. y \in TimeSlot /\ y.day \in Days
    BY <1>1, SlotTimes DEF Aligned
  <2> DEFINE h == [day |-> y.day, startTime |-> Boundary(i), endTime |-> Boundary(i + 1)]
  <2>3. h \in HalfHours
    BY <2>2, HalfHourAt
  <2>4. h.day = y.day /\ h.startTime = y.startTime
    BY <2>1
  <2> HIDE DEF h
  <2>5. y.startTime \in Nat
    BY <2>2, SlotTimes
  <2>6. h \in Between(x) /\ h \in Between(y)
    BY <1>1, <2>3, <2>4, <2>5 DEF Between, Overlap
  <2> QED BY <1>1, <2>3, <2>6, PartsBetween
<1>2. a.startTime \in Nat /\ b.startTime \in Nat
  BY SlotTimes DEF Aligned
<1>3. Overlap(b, a)
  BY DEF Overlap
<1> QED BY <1>1, <1>2, <1>3

(* ...and no two bookings of a facility overlap.                           *)
THEOREM NoOverlap ==
  ASSUME MaxId < IdSpace
  PROVE  Spec => []NoDoubleBooking
<1>1. IInv => NoDoubleBooking
  <2> SUFFICES ASSUME IInv, NEW f \in Facilities,
                      NEW i \in DOMAIN bookings[f], NEW j \in DOMAIN bookings[f],
                      i # j, Overlap(bookings[f][i], bookings[f][j])
               PROVE  FALSE
    BY DEF NoDoubleBooking
  <2>1. Aligned(bookings[f][i]) /\ Aligned(bookings[f][j])
    <3>1. ASSUME NEW b \in TimeSlot, b.startTime < b.endTime
          PROVE  b.startTime # b.endTime
      BY <3>1, SlotTimes
    <3> QED BY <3>1, BookingOf DEF Overlap
  <2>2. PICK h \in HalfHours : h \in HeldBy(f, i) /\ h \in HeldBy(f, j)
    BY <2>1, OverlapShares DEF HeldBy
  <2>3. Owned(f, h)
    BY OwnedIsConserved DEF IInv, EveryHalfHourOwned
  <2> QED BY <2>2, <2>3 DEF Owned
<1> QED BY <1>1, Invariance, PTL
(* A half hour is a slot of its own, and its only part.                    *)
LEMMA PartOfHalfHour ==
  ASSUME NEW h \in HalfHours
  PROVE  /\ h \in TimeSlot /\ Aligned(h) /\ h.startTime < h.endTime
         /\ Parts(h) = {h}
<1>1. PICK j \in 0..19 : h = [day |-> h.day, startTime |-> Boundary(j), endTime |-> Boundary(j + 1)]
  BY HalfHourShape
<1>2. h.startTime = Boundary(j) /\ h.endTime = Boundary(j + 1)
  BY <1>1
<1>3. h.day \in Days
  BY DEF HalfHours
<1>4. Boundary(j) \in UInt16 /\ Boundary(j + 1) \in UInt16
  BY j \in Nat, j + 1 \in Nat, j + 1 <= 20, BoundaryTime, FitsUInt16
<1>5. h \in TimeSlot
  BY <1>1, <1>3, <1>4 DEF TimeSlot
<1>6. Aligned(h)
  BY <1>2, <1>5, j + 1 \in 1..20 DEF Aligned
<1>7. h.startTime < h.endTime
  BY <1>2, j \in Nat, j + 1 \in Nat, BoundaryIndex
<1>8. PICK k \in 1..20 : k = j + 1
  OBVIOUS
<1>9. Parts(h) = { [day |-> h.day, startTime |-> Boundary(i), endTime |-> Boundary(i + 1)] :
                     i \in j..(k - 1) }
  <2>1. j < k /\ h.startTime = Boundary(j) /\ h.endTime = Boundary(k)
    BY <1>2, <1>8
  <2> QED BY <1>5, <2>1, PartsOfAligned
<1>10. j..(k - 1) = {j}
  BY <1>8
<1> QED BY <1>1, <1>5, <1>6, <1>7, <1>9, <1>10

(* A half hour overlaps a well-formed booking when it is one of its parts. *)
LEMMA OverlapIsPart ==
  ASSUME NEW h \in HalfHours, NEW b \in TimeSlot,
         b.startTime = b.endTime \/ Aligned(b)
  PROVE  Overlap(h, b) <=> h \in Parts(b)
<1>1. b.startTime \in Nat /\ b.endTime \in Nat
  BY SlotTimes
<1>2. CASE b.startTime = b.endTime
  BY <1>1, <1>2, NoParts DEF Overlap
<1>3. CASE Aligned(b)
  <2>1. Overlap(h, b) => h \in Parts(b)
    BY <1>3, PartOfHalfHour, OverlapShares
  <2>2. ASSUME h \in Parts(b) PROVE Overlap(h, b)
    <3>1. h.day = b.day /\ b.startTime <= h.startTime /\ h.startTime < b.endTime
      BY <1>3, <2>2, PartsBetween DEF Between
    <3>2. h.startTime < h.endTime /\ h.startTime \in Nat /\ h.endTime \in Nat
      BY PartOfHalfHour, SlotTimes
    <3> QED BY <1>1, <3>1, <3>2 DEF Overlap
  <2> QED BY <2>1, <2>2
<1> QED BY <1>2, <1>3

(* ...and a query reports exactly the offered half hours that no booking   *)
(* overlaps.                                                               *)
THEOREM TruthfulQueries ==
  ASSUME MaxId < IdSpace
  PROVE  Spec => []QueryTruthful
<1>1. IInv => QueryTruthful
  <2> SUFFICES ASSUME IInv, NEW f \in Facilities, NEW h \in HalfHours
               PROVE  IsAvailable(availableSlots[f], h) <=>
                        /\ h \in Offered[f]
                        /\ \A id \in DOMAIN bookings[f] : ~Overlap(h, bookings[f][id])
    BY FacilityAssumption DEF QueryTruthful, Reported
  <2>1. IsAvailable(availableSlots[f], h) <=> availableSlots[f][h] > 0
    <3>1. h.endTime <= h.endTime
      BY PartOfHalfHour, SlotTimes
    <3> QED BY <3>1, PartOfHalfHour DEF IsAvailable, Covered
  <2>2. \A id \in DOMAIN bookings[f] : Overlap(h, bookings[f][id]) <=> h \in HeldBy(f, id)
    BY BookingOf, OverlapIsPart
  <2>3. \A id : h \in HeldBy(f, id) => id \in DOMAIN bookings[f]
    BY DEF HeldBy
  <2>4. Owned(f, h)
    BY OwnedIsConserved DEF IInv, EveryHalfHourOwned
  <2> QED BY <2>1, <2>2, <2>3, <2>4 DEF Owned
<1> QED BY <1>1, Invariance, PTL

-----------------------------------------------------------------------------
(* The facilities implement the calendar: every step of Facility is one    *)
(* step of Calendar, on the half hours its bookings hold and the ones that *)
(* are on offer.                                                           *)

(* The calendar counts, and its half hours are, as the facilities' do.     *)
LEMMA PromiseCardinality ==
  \A S : Promise!Cardinality(S) = Cardinality(S)
BY Zenon DEF Promise!Cardinality, Cardinality

LEMMA PromiseHalfHours ==
  Promise!HalfHours = HalfHours
BY DEF Promise!HalfHours, HalfHours, Promise!HalfHourStarts, HalfHourStarts,
       Promise!Boundary, Boundary, Promise!HalfHourAfter, HalfHourAfter,
       Promise!ToHHMM, ToHHMM, Promise!ToMinutes, ToMinutes,
       Promise!Quot, Quot, Promise!Rem, Rem

(* The parts of an aligned slot are a run of the calendar.                 *)
LEMMA PartsAreRun ==
  ASSUME NEW f \in Facilities, NEW slot, Aligned(slot), Parts(slot) \subseteq Offered[f]
  PROVE  Parts(slot) \in Promise!Runs[f]
<1>1. PICK a \in 0..19, b \in 1..20 :
         a < b /\ slot.startTime = Boundary(a) /\ slot.endTime = Boundary(b)
  BY DEF Aligned
<1>2. slot \in TimeSlot /\ slot.day \in Days
  BY DEF Aligned, TimeSlot
<1>3. Parts(slot) = { [day |-> slot.day, startTime |-> Boundary(j), endTime |-> Boundary(j + 1)] :
                        j \in a..(b - 1) }
  BY <1>1, <1>2, PartsOfAligned
<1>4. a \in a..(b - 1) /\ b - 1 \in a..(b - 1)
  BY <1>1
<1> DEFINE part(j) == [day |-> slot.day, startTime |-> Boundary(j), endTime |-> Boundary(j + 1)]
<1>5. PICK first \in Parts(slot) : first.day = slot.day /\ first.startTime = Boundary(a)
  <2>1. part(a) \in Parts(slot)
    BY <1>3, <1>4
  <2>2. part(a).day = slot.day /\ part(a).startTime = Boundary(a)
    OBVIOUS
  <2> QED BY <2>1, <2>2
<1>6. PICK last \in Parts(slot) : last.startTime = Boundary(b - 1)
  <2>1. part(b - 1) \in Parts(slot)
    BY <1>3, <1>4
  <2>2. part(b - 1).startTime = Boundary(b - 1)
    OBVIOUS
  <2> QED BY <2>1, <2>2
<1>7. ASSUME NEW h \in HalfHours
      PROVE  h.startTime < slot.endTime <=> h.startTime <= last.startTime
  <2>1. PICK j \in 0..19 : h.startTime = Boundary(j)
    BY HalfHourShape
  <2>2. j \in Nat /\ b \in Nat /\ b - 1 \in Nat /\ (j < b <=> j <= b - 1)
    OBVIOUS
  <2> QED BY <1>1, <1>6, <2>1, <2>2, BoundaryIndex
<1>8. Parts(slot) = Promise!Run(first, last)
  <2>1. Parts(slot) = Between(slot)
    BY PartsBetween
  <2> QED BY <1>1, <1>5, <1>7, <2>1, PromiseHalfHours DEF Between, Promise!Run
<1>9. first \in Offered[f] /\ last \in Offered[f] /\ Parts(slot) # {}
  BY <1>5
<1> QED BY <1>8, <1>9 DEF Promise!Runs

(* An aligned slot of half hours a to b has b - a parts.                   *)
LEMMA PartsCount ==
  ASSUME NEW slot \in TimeSlot, NEW a \in 0..19, NEW b \in 1..20, a < b,
         slot.startTime = Boundary(a), slot.endTime = Boundary(b)
  PROVE  Cardinality(Parts(slot)) = b - a
<1> DEFINE part(j) == [day |-> slot.day, startTime |-> Boundary(j), endTime |-> Boundary(j + 1)]
           nth == [j \in a..(b - 1) |-> part(j)]
<1>1. Parts(slot) = { part(j) : j \in a..(b - 1) }
  BY PartsOfAligned
<1>2. ASSUME NEW i \in a..(b - 1), NEW j \in a..(b - 1), part(i) = part(j)
      PROVE  i = j
  <2>1. Boundary(i) = Boundary(j)
    BY <1>2
  <2> QED BY <2>1, i \in Nat, j \in Nat, BoundaryIndex
<1> HIDE DEF part
<1>3. nth \in Bijection(a..(b - 1), Parts(slot))
  BY <1>1, <1>2 DEF Bijection, Injection, Surjection, IsInjective
<1>4. IsFiniteSet(a..(b - 1)) /\ Cardinality(a..(b - 1)) = b - a
  <2>1. a \in Int /\ b - 1 \in Int /\ ~(a > b - 1) /\ (b - 1) - a + 1 = b - a
    OBVIOUS
  <2> QED BY <2>1, FS_Interval
<1>5. ExistsBijection(a..(b - 1), Parts(slot))
  BY <1>3 DEF ExistsBijection
<1> QED BY <1>4, <1>5, FS_Bijection

-----------------------------------------------------------------------------
(* What a client sees of one facility.                                     *)

LEMMA HeldOf ==
  ASSUME NEW f \in Facilities
  PROVE  /\ DOMAIN held[f] = DOMAIN bookings[f]
         /\ \A i \in DOMAIN bookings[f] : held[f][i] = HeldBy(f, i)
         /\ DOMAIN held'[f] = DOMAIN bookings'[f]
         /\ \A i \in DOMAIN bookings'[f] : held'[f][i] = HeldBy(f, i)'
BY DEF held, HeldBy

(* What a booking holds are half hours.                                    *)
LEMMA HeldAreHalfHours ==
  ASSUME IInv, NEW f \in Facilities, NEW id
  PROVE  HeldBy(f, id) \subseteq HalfHours
<1>1. CASE id \in DOMAIN bookings[f]
  BY <1>1, BookingOf
<1> QED BY <1>1 DEF HeldBy

(* What is reassigned was offered when the facility opened.                *)
LEMMA ReassignedOffered ==
  ASSUME IInv, NEW f \in Facilities, NEW id, NEW N, Reassigned(f, id, N)
  PROVE  N \subseteq Offered[f]
<1> SUFFICES ASSUME NEW h \in N PROVE h \in Offered[f]
  OBVIOUS
<1>1. h \in HalfHours /\ (h \in HeldBy(f, id) \/ availableSlots[f][h] > 0)
  BY DEF Reassigned
<1>2. Owned(f, h)
  BY <1>1, OwnedIsConserved DEF IInv, EveryHalfHourOwned
<1> QED BY <1>1, <1>2 DEF Owned

(* A reassignment frees what the booking held and takes what it holds now, *)
(* in the facility it is about.                                            *)
LEMMA ReassignedFrees ==
  ASSUME IInv, NEW f \in Facilities, NEW id, NEW N, Reassigned(f, id, N)
  PROVE  /\ N \subseteq free[f] \cup HeldBy(f, id)
         /\ free' = [free EXCEPT ![f] = (free[f] \cup HeldBy(f, id)) \ N]
<1>1. ASSUME NEW h \in HalfHours
      PROVE  /\ h \in free[f] <=> availableSlots[f][h] > 0
             /\ h \in free'[f] <=> availableSlots'[f][h] > 0
  BY DEF free
<1>2. ASSUME NEW h \in HalfHours
      PROVE  h \in free'[f] <=> h \in (free[f] \cup HeldBy(f, id)) \ N
  <2>1. availableSlots'[f][h] = IF h \in N THEN 0
                                ELSE IF h \in HeldBy(f, id) THEN 1
                                ELSE availableSlots[f][h]
    BY DEF Reassigned
  <2> QED BY <1>1, <2>1
<1>3. free[f] \subseteq HalfHours /\ free'[f] \subseteq HalfHours
  BY DEF free
<1>4. free'[f] = (free[f] \cup HeldBy(f, id)) \ N
  BY <1>2, <1>3, HeldAreHalfHours
<1>5. \A g \in Facilities : g # f => free'[g] = free[g]
  BY DEF free, Reassigned
<1>6. N \subseteq free[f] \cup HeldBy(f, id)
  BY <1>1 DEF Reassigned
<1>7. /\ free' = [g \in Facilities |-> free'[g]]
      /\ free = [g \in Facilities |-> free[g]]
  BY DEF free
<1> QED BY <1>4, <1>5, <1>6, <1>7

LEMMA ReassignedHolds ==
  ASSUME NEW f \in Facilities, NEW id, NEW N, Reassigned(f, id, N),
         DOMAIN bookings'[f] = DOMAIN bookings[f] \cup {id}
  PROVE  held' = [held EXCEPT ![f] = [i \in DOMAIN held[f] \cup {id} |->
                                        IF i = id THEN N ELSE held[f][i]]]
<1> DEFINE new == [i \in DOMAIN held[f] \cup {id} |-> IF i = id THEN N ELSE held[f][i]]
<1>1. held'[f] = [i \in DOMAIN bookings'[f] |-> held'[f][i]]
  BY DEF held
<1>2. ASSUME NEW i \in DOMAIN bookings'[f]
      PROVE  held'[f][i] = IF i = id THEN N ELSE held[f][i]
  BY <1>2, HeldOf DEF Reassigned
<1>3. held'[f] = new
  BY <1>1, <1>2, HeldOf
<1> HIDE DEF new
<1>4. \A g \in Facilities : g # f => held'[g] = held[g]
  BY DEF held, Reassigned
<1>5. /\ held' = [g \in Facilities |-> held'[g]]
      /\ held = [g \in Facilities |-> held[g]]
  BY DEF held
<1>6. held' = [held EXCEPT ![f] = new]
  BY <1>3, <1>4, <1>5
<1> QED BY <1>6 DEF new

(* A reassignment is an assignment of the calendar.                        *)
LEMMA ReassignedAssigns ==
  ASSUME IInv, NEW f \in Facilities, NEW id, NEW N, Reassigned(f, id, N),
         DOMAIN bookings'[f] = DOMAIN bookings[f] \cup {id}
  PROVE  Promise!Assign(f, id, N)
<1>1. (IF id \in DOMAIN held[f] THEN held[f][id] ELSE {}) = HeldBy(f, id)
  BY HeldOf DEF HeldBy
<1>2. PICK old : old = HeldBy(f, id)
  OBVIOUS
<1>3. N \subseteq free[f] \cup old /\ free' = [free EXCEPT ![f] = (free[f] \cup old) \ N]
  BY <1>2, ReassignedFrees
<1>4. Promise!Assign(f, id, N) <=>
        /\ N \subseteq free[f] \cup old
        /\ free' = [free EXCEPT ![f] = (free[f] \cup old) \ N]
        /\ held' = [held EXCEPT ![f] = [i \in DOMAIN held[f] \cup {id} |->
                                          IF i = id THEN N ELSE held[f][i]]]
  BY <1>1, <1>2 DEF Promise!Assign
<1>5. held' = [held EXCEPT ![f] = [i \in DOMAIN held[f] \cup {id} |->
                                    IF i = id THEN N ELSE held[f][i]]]
  BY ReassignedHolds
<1> QED BY <1>3, <1>4, <1>5

-----------------------------------------------------------------------------
(* The operations, one by one.                                             *)

(* BOOK opens a booking: its ID is in use nowhere, what it takes is a run. *)
LEMMA BookOpens ==
  ASSUME IInv, NEW f \in Facilities, NEW slot \in Requests, BookSlot(f, slot)
  PROVE  \E id \in Ids : \/ Promise!Open(f, id, {})
                         \/ \E S \in Promise!Runs[f] : Promise!Open(f, id, S)
<1>1. PICK id \in Ids : id = currentId
  BY TypeOf DEF IInv
<1>2. /\ Reassigned(f, id, Parts(slot))
      /\ slot.startTime = slot.endTime \/ Aligned(slot)
      /\ DOMAIN bookings'[f] = DOMAIN bookings[f] \cup {id}
  BY <1>1, BookReassigns
<1>3. Promise!Assign(f, id, Parts(slot))
  BY <1>2, ReassignedAssigns
<1>4. \A g \in Facilities : id \notin DOMAIN held[g]
  <2>1. ~(id < id)
    BY FacilityAssumption DEF Ids
  <2> QED BY <1>1, <2>1, HeldOf DEF IInv, FreshIds
<1>5. Promise!Open(f, id, Parts(slot))
  BY <1>3, <1>4 DEF Promise!Open
<1>6. CASE slot.startTime = slot.endTime
  <2>1. slot \in TimeSlot
    BY FacilityAssumption DEF Requests, TimeSlot
  <2>2. Parts(slot) = {}
    BY <1>6, <2>1, SlotTimes, NoParts
  <2> QED BY <1>5, <2>2
<1>7. CASE Aligned(slot)
  <2>1. Parts(slot) \in Promise!Runs[f]
    BY <1>2, <1>7, ReassignedOffered, PartsAreRun
  <2> QED BY <1>5, <2>1
<1> QED BY <1>2, <1>6, <1>7

(* CANCEL closes a booking.                                                *)
LEMMA CancelCloses ==
  ASSUME IInv, NEW f \in Facilities, NEW id \in Ids, CancelBooking(f, id)
  PROVE  Promise!Close(f, id)
<1>1. /\ Reassigned(f, id, {})
      /\ DOMAIN bookings'[f] = DOMAIN bookings[f] \ {id}
  BY CancelReassigns
<1>2. id \in DOMAIN bookings[f]
  BY DEF CancelBooking
<1>3. id \in DOMAIN held[f] /\ held[f][id] = HeldBy(f, id)
  BY <1>2, HeldOf
<1>4. free' = [free EXCEPT ![f] = free[f] \cup held[f][id]]
  <2>1. free' = [free EXCEPT ![f] = (free[f] \cup HeldBy(f, id)) \ {}]
    BY <1>1, ReassignedFrees
  <2>2. (free[f] \cup HeldBy(f, id)) \ {} = free[f] \cup held[f][id]
    BY <1>3
  <2> QED BY <2>1, <2>2
<1>5. PICK rest : rest = [i \in DOMAIN held[f] \ {id} |-> held[f][i]]
  OBVIOUS
<1>6. held'[f] = rest
  <2>1. held'[f] = [i \in DOMAIN bookings'[f] |-> held'[f][i]]
    BY DEF held
  <2>2. ASSUME NEW i \in DOMAIN bookings'[f]
        PROVE  held'[f][i] = held[f][i]
    BY <1>1, <2>2, HeldOf DEF Reassigned
  <2> QED BY <1>1, <1>5, <2>1, <2>2, HeldOf
<1>7. \A g \in Facilities : g # f => held'[g] = held[g]
  BY <1>1 DEF held, Reassigned
<1>8. /\ held' = [g \in Facilities |-> held'[g]]
      /\ held = [g \in Facilities |-> held[g]]
  BY DEF held
<1>9. held' = [held EXCEPT ![f] = rest]
  BY <1>6, <1>7, <1>8
<1> QED BY <1>3, <1>4, <1>5, <1>9 DEF Promise!Close

(* Minutes whose clock time is positive are not before midnight.           *)
LEMMA AfterMidnight ==
  ASSUME NEW m \in Int, ToHHMM(m) > 0
  PROVE  m \in Nat
<1>1. ASSUME m < 0 PROVE ToHHMM(m) <= 0
  <2>1. PICK q \in Int : q = (-m) \div 60 /\ q >= 0
    BY <1>1
  <2>2. ToHHMM(m) = -(40 * q) + m
    BY <1>1, <2>1 DEF ToHHMM, Quot, Rem
  <2> QED BY <1>1, <2>1, <2>2
<1> QED BY <1>1, ConversionsInt

(* A time within the opening hours that an offset moves from one boundary  *)
(* to another is that many minutes away.                                   *)
LEMMA OffsetOfMove ==
  ASSUME NEW i \in Nat, NEW j \in 0..20, NEW offset \in Int,
         ToHHMM(ToMinutes(Boundary(i)) + offset) = Boundary(j)
  PROVE  offset = 30 * j - 30 * i
<1>1. ToMinutes(Boundary(i)) = 480 + 30 * i /\ ToMinutes(Boundary(j)) = 480 + 30 * j
  BY 480 + 30 * i \in Nat, 480 + 30 * j \in Nat, MinutesOfHHMM DEF Boundary
<1>2. PICK m \in Int : m = 480 + 30 * i + offset
  OBVIOUS
<1>3. ToHHMM(m) = Boundary(j) /\ ToHHMM(m) > 0
  <2>1. Boundary(j) >= 800 /\ Boundary(j) \in Nat
    BY j \in Nat, BoundaryTime
  <2> QED BY <1>1, <1>2, <2>1
<1>4. m = 480 + 30 * j
  BY <1>1, <1>3, AfterMidnight, MinutesOfHHMM
<1> QED BY <1>2, <1>4

(* CHANGE moves a booking: same day, same length.                          *)
LEMMA ModifyMoves ==
  ASSUME IInv, NEW f \in Facilities, NEW id \in Ids, NEW offset \in Offsets,
         ModifyBooking(f, id, offset)
  PROVE  \E S \in Promise!Runs[f] : Promise!Move(f, id, S)
<1> DEFINE old == bookings[f][id]
           newSlot == Shifted(old, offset)
<1>1. /\ Reassigned(f, id, Parts(newSlot))
      /\ Aligned(newSlot)
      /\ DOMAIN bookings'[f] = DOMAIN bookings[f]
  BY ModifyReassigns
<1>2. id \in DOMAIN bookings[f]
  BY DEF ModifyBooking
<1>3. /\ id \in DOMAIN held[f] /\ held[f][id] = Parts(old)
      /\ old \in TimeSlot /\ (old.startTime = old.endTime \/ Aligned(old))
  BY <1>2, HeldOf, BookingOf
<1>4. /\ newSlot.day = old.day
      /\ newSlot.startTime = ToHHMM(ToMinutes(old.startTime) + offset)
      /\ newSlot.endTime = ToHHMM(ToMinutes(old.endTime) + offset)
      /\ newSlot.startTime < newSlot.endTime
  BY DEF Shifted, ModifyBooking, InOpeningHours
<1> HIDE DEF old, newSlot
<1>5. newSlot \in TimeSlot
  BY <1>1 DEF Aligned
<1>6. Aligned(old)
  <2>1. newSlot.startTime # newSlot.endTime
    BY <1>4, <1>5, SlotTimes
  <2> QED BY <1>3, <1>4, <2>1
<1>7. PICK a \in 0..19, b \in 1..20 :
         a < b /\ old.startTime = Boundary(a) /\ old.endTime = Boundary(b)
  BY <1>6 DEF Aligned
<1>8. PICK c \in 0..19, d \in 1..20 :
         c < d /\ newSlot.startTime = Boundary(c) /\ newSlot.endTime = Boundary(d)
  BY <1>1 DEF Aligned
<1>9. b - a = d - c
  <2>1. offset \in Int /\ a \in Nat /\ b \in Nat /\ c \in 0..20 /\ d \in 0..20
    BY FacilityAssumption
  <2>2. offset = 30 * c - 30 * a
    BY <1>4, <1>7, <1>8, <2>1, OffsetOfMove
  <2>3. offset = 30 * d - 30 * b
    BY <1>4, <1>7, <1>8, <2>1, OffsetOfMove
  <2> QED BY <2>2, <2>3
<1>10. Cardinality(Parts(newSlot)) = Cardinality(held[f][id])
  BY <1>3, <1>5, <1>7, <1>8, <1>9, PartsCount
<1>11. \A g \in Parts(newSlot), h \in held[f][id] : g.day = h.day
  BY <1>1, <1>3, <1>4, <1>6, PartsBetween DEF Between
<1>12. Promise!Assign(f, id, Parts(newSlot))
  BY <1>1, <1>2, ReassignedAssigns
<1>13. Parts(newSlot) \in Promise!Runs[f]
  BY <1>1, ReassignedOffered, PartsAreRun
<1> QED BY <1>3, <1>10, <1>11, <1>12, <1>13, PromiseCardinality DEF Promise!Move

(* EXTEND keeps what the booking holds and adds later half hours.          *)
LEMMA ExtendExtends ==
  ASSUME IInv, NEW f \in Facilities, NEW id \in Ids, NEW minutes \in Offsets,
         ExtendBooking(f, id, minutes)
  PROVE  \E S \in Promise!Runs[f] : Promise!Extend(f, id, S)
<1> DEFINE old == bookings[f][id]
           added == Extension(old, minutes)
           S == Parts(old) \cup Parts(added)
<1>1. /\ Reassigned(f, id, S)
      /\ DOMAIN bookings'[f] = DOMAIN bookings[f]
      /\ Aligned(bookings'[f][id])
  BY ExtendReassigns
<1>2. id \in DOMAIN bookings[f]
  BY DEF ExtendBooking
<1>3. /\ id \in DOMAIN held[f] /\ held[f][id] = Parts(old)
      /\ old \in TimeSlot /\ (old.startTime = old.endTime \/ Aligned(old))
  BY <1>2, HeldOf, BookingOf
<1>4. /\ added \in TimeSlot
      /\ added.startTime = old.endTime /\ added.startTime < added.endTime
  BY <1>3, ExtensionSlot, SlotTimes, FacilityAssumption DEF ExtendBooking, Extensible
<1>5. Aligned(added)
  <2>1. Covered(availableSlots[f], added)
    BY <1>4 DEF ExtendBooking, Extensible, IsAvailable
  <2> QED BY <1>4, <2>1, CoveredParts, TypeOf DEF IInv
<1> HIDE DEF old, added
<1>6. ASSUME NEW h \in Parts(old), NEW g \in Parts(added)
      PROVE  h.startTime < g.startTime
  <2>1. Aligned(old)
    BY <1>3, <1>6, NoParts, SlotTimes
  <2>2. h \in HalfHours /\ h.startTime < old.endTime
    BY <2>1, PartsBetween DEF Between
  <2>3. g \in HalfHours /\ old.endTime <= g.startTime
    BY <1>4, <1>5, PartsBetween DEF Between
  <2>4. h.startTime \in Nat /\ g.startTime \in Nat /\ old.endTime \in Nat
    BY <1>3, <2>2, <2>3, PartOfHalfHour, SlotTimes
  <2> QED BY <2>2, <2>3, <2>4
<1>7. PICK g \in Parts(added) : g \notin Parts(old)
  <2>1. PICK g \in Parts(added) : TRUE
    BY <1>5, PartsBetween
  <2>2. g.startTime \in Nat
    BY <1>5, PartsBetween, PartOfHalfHour, SlotTimes DEF Between
  <2> QED BY <1>6, <2>2
<1>8. S \in Promise!Runs[f]
  <2>1. S = Parts(bookings'[f][id])
    BY <1>1, <1>2 DEF Reassigned, HeldBy
  <2>2. S \subseteq Offered[f]
    BY <1>1, ReassignedOffered
  <2>3. PICK new : new = bookings'[f][id]
    OBVIOUS
  <2>4. Parts(new) \in Promise!Runs[f]
    BY <1>1, <2>1, <2>2, <2>3, PartsAreRun
  <2> QED BY <2>1, <2>3, <2>4
<1>9. Promise!Assign(f, id, S)
  BY <1>1, <1>2, ReassignedAssigns
<1>10. /\ held[f][id] \subseteq S /\ S # held[f][id]
       /\ \A h \in held[f][id], later \in S \ held[f][id] : h.startTime < later.startTime
  BY <1>3, <1>6, <1>7
<1> QED BY <1>3, <1>8, <1>9, <1>10 DEF Promise!Extend

-----------------------------------------------------------------------------
(* As long as the ID counter does not wrap around, the facilities keep the *)
(* promise of the calendar: at the start nothing is held; every booking,   *)
(* move, extension and cancel is one step of the calendar, and a move that *)
(* is rolled back is none.                                                 *)
THEOREM KeepsPromise ==
  ASSUME MaxId < IdSpace
  PROVE  Spec => ImplementsCalendar
<1>1. Init => Promise!Init
  <2> SUFFICES ASSUME Init PROVE Promise!Init
    OBVIOUS
  <2>1. held = [f \in Facilities |-> << >>]
    <3>1. \A f \in Facilities : DOMAIN bookings[f] = {}
      BY DEF Init
    <3>2. \A f \in Facilities : held[f] = << >>
      BY <3>1 DEF held
    <3> QED BY <3>2 DEF held
  <2>2. free = Offered
    <3>1. \A f \in Facilities : free[f] = Offered[f]
      BY FacilityAssumption DEF Init, free
    <3> QED BY <3>1, FacilityAssumption DEF free
  <2> QED BY <2>1, <2>2 DEF Promise!Init
<1>2. IInv /\ [Next]_vars => [Promise!Next]_(Promise!vars)
  <2> SUFFICES ASSUME IInv, [Next]_vars PROVE Promise!Next
    OBVIOUS
  <2>1. ASSUME UNCHANGED vars PROVE Promise!Refuse
    BY <2>1 DEF vars, Promise!Refuse, Promise!vars, free, held
  <2>2. ASSUME NEW f \in Facilities, NEW slot \in Requests, BookSlot(f, slot)
        PROVE  Promise!Next
    BY <2>2, BookOpens DEF Promise!Next
  <2>3. ASSUME NEW f \in Facilities, NEW id \in Ids, CancelBooking(f, id)
        PROVE  Promise!Next
    BY <2>3, CancelCloses DEF Promise!Next
  <2>4. ASSUME NEW f \in Facilities, NEW id \in Ids, NEW m \in Offsets,
               ModifyBooking(f, id, m)
        PROVE  Promise!Next
    BY <2>4, ModifyMoves DEF Promise!Next
  <2>5. ASSUME NEW f \in Facilities, NEW id \in Ids, NEW m \in Offsets,
               ModifyRolledBack(f, id, m)
        PROVE  Promise!Next
    BY <2>1, <2>5, RollbackRestores DEF Promise!Next
  <2>6. ASSUME NEW f \in Facilities, NEW id \in Ids, NEW m \in Offsets,
               ExtendBooking(f, id, m)
        PROVE  Promise!Next
    BY <2>6, ExtendExtends DEF Promise!Next
  <2> QED BY <2>1, <2>2, <2>3, <2>4, <2>5, <2>6, NextChanges DEF Changes, Promise!Next
<1> QED BY <1>1, <1>2, Invariance, PTL DEF Spec, ImplementsCalendar, Promise!Spec
=============================================================================
