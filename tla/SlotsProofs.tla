----------------------------- MODULE SlotsProofs -----------------------------
(***************************************************************************)
(* Facts about clock times and half hours, on which the proofs about       *)
(* Facility rest.  They are arithmetic: what the two conversions of        *)
(* Util.cpp and the loop of splitIntoThirtyMinSlots return.                *)
(***************************************************************************)
EXTENDS Slots, TLAPS

(* The half hours between the ends of a slot.                              *)
Between(slot) ==
  { h \in HalfHours : /\ h.day = slot.day
                      /\ slot.startTime <= h.startTime
                      /\ h.startTime < slot.endTime }

-----------------------------------------------------------------------------
(* Clock arithmetic.                                                       *)

(* The conversions of Util.cpp take integers to integers.                  *)
LEMMA ConversionsInt ==
  ASSUME NEW m \in Int
  PROVE  ToHHMM(m) \in Int /\ ToMinutes(m) \in Int
BY DEF ToHHMM, ToMinutes, Quot, Rem

(* toHHMM adds 40 for every full hour.                                     *)
LEMMA HHMMLinear ==
  ASSUME NEW m \in Nat
  PROVE  ToHHMM(m) = m + 40 * (m \div 60) /\ ToHHMM(m) \in Nat
BY DEF ToHHMM, Quot, Rem

(* toHHMM is strictly increasing on times of day, by at least the minutes. *)
LEMMA HHMMMonotone ==
  ASSUME NEW m \in Nat, NEW n \in Nat, m < n
  PROVE  ToHHMM(n) - ToHHMM(m) >= n - m
<1>1. m \div 60 <= n \div 60
  OBVIOUS
<1> QED BY <1>1, HHMMLinear

(* toMinutes undoes toHHMM.                                                *)
LEMMA MinutesOfHHMM ==
  ASSUME NEW m \in Nat
  PROVE  ToMinutes(ToHHMM(m)) = m
<1> DEFINE q == m \div 60
           r == m % 60
<1>1. q \in Nat /\ r \in 0..59 /\ m = 60 * q + r
  OBVIOUS
<1>2. ToHHMM(m) = m + 40 * q
  BY HHMMLinear
<1>3. (100 * q + r) \div 100 = q
  BY <1>1
<1> HIDE DEF q, r
<1>4. ToHHMM(m) = 100 * q + r
  BY <1>1, <1>2
<1> QED BY <1>1, <1>3, <1>4 DEF ToMinutes, Quot, Rem

(* The boundaries, one by one.                                             *)
LEMMA Boundaries ==
  /\ Boundary(0) = 800   /\ Boundary(1) = 830   /\ Boundary(2) = 900   /\ Boundary(3) = 930
  /\ Boundary(4) = 1000  /\ Boundary(5) = 1030  /\ Boundary(6) = 1100  /\ Boundary(7) = 1130
  /\ Boundary(8) = 1200  /\ Boundary(9) = 1230  /\ Boundary(10) = 1300 /\ Boundary(11) = 1330
  /\ Boundary(12) = 1400 /\ Boundary(13) = 1430 /\ Boundary(14) = 1500 /\ Boundary(15) = 1530
  /\ Boundary(16) = 1600 /\ Boundary(17) = 1630 /\ Boundary(18) = 1700 /\ Boundary(19) = 1730
  /\ Boundary(20) = 1800
BY DEF Boundary, ToHHMM, Quot, Rem

(* They are times of day, and the first twenty-one lie in opening hours.   *)
LEMMA BoundaryTime ==
  ASSUME NEW i \in Nat
  PROVE  Boundary(i) \in Nat /\ (i <= 20 => Boundary(i) >= 800 /\ Boundary(i) <= 1800)
<1>1. 480 + 30 * i \in Nat /\ 480 + 30 * 20 \in Nat /\ 480 + 30 * 0 \in Nat
  OBVIOUS
<1>2. Boundary(i) \in Nat
  BY <1>1, HHMMLinear DEF Boundary
<1>3. 0 < i => Boundary(i) - Boundary(0) >= 30 * i
  BY <1>1, HHMMMonotone DEF Boundary
<1>4. i < 20 => Boundary(20) - Boundary(i) >= 30 * (20 - i)
  BY <1>1, HHMMMonotone DEF Boundary
<1> QED BY <1>2, <1>3, <1>4, Boundaries

(* They increase, by 30 or by 70.                                          *)
LEMMA BoundaryOrder ==
  ASSUME NEW i \in Nat, NEW j \in Nat, i < j
  PROVE  Boundary(j) - Boundary(i) >= 30 * (j - i) /\ Boundary(i) < Boundary(j)
<1>1. 480 + 30 * i \in Nat /\ 480 + 30 * j \in Nat
  OBVIOUS
<1>2. Boundary(j) - Boundary(i) >= 30 * (j - i)
  BY <1>1, HHMMMonotone DEF Boundary
<1> QED BY <1>2, BoundaryTime

(* So they are ordered as their numbers are.                               *)
LEMMA BoundaryIndex ==
  ASSUME NEW i \in Nat, NEW j \in Nat
  PROVE  /\ Boundary(i) < Boundary(j) <=> i < j
         /\ Boundary(i) <= Boundary(j) <=> i <= j
         /\ Boundary(i) = Boundary(j) <=> i = j
<1>1. Boundary(i) \in Nat /\ Boundary(j) \in Nat
  BY BoundaryTime
<1>2. i < j => Boundary(i) < Boundary(j)
  BY BoundaryOrder
<1>3. j < i => Boundary(j) < Boundary(i)
  BY BoundaryOrder
<1> QED BY <1>1, <1>2, <1>3

(* Half an hour after a boundary comes the next one.                       *)
LEMMA NextBoundary ==
  ASSUME NEW j \in Nat
  PROVE  HalfHourAfter(Boundary(j)) = Boundary(j + 1)
<1>1. 480 + 30 * j \in Nat
  OBVIOUS
<1>2. ToMinutes(Boundary(j)) = 480 + 30 * j
  BY <1>1, MinutesOfHHMM DEF Boundary
<1>3. 480 + 30 * j + 30 = 480 + 30 * (j + 1)
  OBVIOUS
<1> QED BY <1>2, <1>3 DEF HalfHourAfter, Boundary

(* A time within the opening hours lies in one of the half hours: the      *)
(* first or the second one of its hour.                                    *)
LEMMA SomeHalfHour ==
  ASSUME NEW t \in Int, 800 < t, t <= 1800
  PROVE  \E j \in 0..19 : Boundary(j) < t /\ t <= Boundary(j + 1)
<1> DEFINE h == (t - 801) \div 100
           r == (t - 801) % 100
<1>1. h \in 0..9 /\ r \in 0..99 /\ t = 801 + 100 * h + r
  OBVIOUS
<1> HIDE DEF h, r
<1>2. /\ Boundary(2 * h) = 800 + 100 * h
      /\ Boundary(2 * h + 1) = 830 + 100 * h
      /\ Boundary(2 * h + 1 + 1) = 900 + 100 * h
  BY <1>1 DEF Boundary, ToHHMM, Quot, Rem
<1>3. CASE r < 30
  BY <1>1, <1>2, <1>3, 2 * h \in 0..19
<1>4. CASE r >= 30
  BY <1>1, <1>2, <1>4, 2 * h + 1 \in 0..19
<1> QED BY <1>1, <1>3, <1>4

-----------------------------------------------------------------------------
(* Half hours.                                                             *)

(* A time up to closing time fits in 16 bits.                              *)
LEMMA FitsUInt16 ==
  ASSUME NEW t \in Int, 0 <= t, t <= 1800
  PROVE  t \in UInt16
<1>1. 1800 <= MaxUInt16 /\ MaxUInt16 \in Int
  BY DEF MaxUInt16
<1> QED BY <1>1 DEF UInt16

(* The times of a slot are 16-bit numbers.                                 *)
LEMMA SlotTimes ==
  ASSUME NEW slot \in TimeSlot
  PROVE  /\ slot.day \in Days
         /\ slot.startTime \in Nat /\ slot.endTime \in Nat
         /\ slot.startTime \in UInt16 /\ slot.endTime \in UInt16
<1>1. slot.day \in Days /\ slot.startTime \in UInt16 /\ slot.endTime \in UInt16
  BY DEF TimeSlot
<1>2. \A t \in UInt16 : t \in Nat
  BY DEF UInt16, MaxUInt16
<1> QED BY <1>1, <1>2

(* A half hour starts at one boundary and ends at the next.                *)
LEMMA HalfHourShape ==
  ASSUME NEW h \in HalfHours
  PROVE  \E j \in 0..19 : h = [day |-> h.day, startTime |-> Boundary(j), endTime |-> Boundary(j + 1)]
<1>1. PICK d \in Days, s \in HalfHourStarts :
         h = [day |-> d, startTime |-> s, endTime |-> HalfHourAfter(s)]
  BY DEF HalfHours
<1>2. PICK j \in 0..19 : s = Boundary(j)
  BY DEF HalfHourStarts, Boundary
<1> QED BY <1>1, <1>2, NextBoundary

(* Every pair of neighbouring boundaries is a half hour of each day.       *)
LEMMA HalfHourAt ==
  ASSUME NEW d \in Days, NEW j \in 0..19
  PROVE  [day |-> d, startTime |-> Boundary(j), endTime |-> Boundary(j + 1)] \in HalfHours
<1>1. Boundary(j) \in HalfHourStarts
  BY DEF HalfHourStarts, Boundary
<1> QED BY <1>1, NextBoundary DEF HalfHours

(* The parts of a slot that starts at a boundary start at boundaries.      *)
LEMMA PartStartAt ==
  ASSUME NEW slot, NEW a \in Nat, slot.startTime = Boundary(a), NEW k \in Nat
  PROVE  PartStart(slot, k) = Boundary(a + k)
<1>1. ToMinutes(Boundary(a)) = 480 + 30 * a
  BY MinutesOfHHMM, 480 + 30 * a \in Nat DEF Boundary
<1>2. 480 + 30 * a + 30 * k = 480 + 30 * (a + k)
  OBVIOUS
<1> QED BY <1>1, <1>2 DEF PartStart, Boundary

(* An empty or reversed interval has no parts.                             *)
LEMMA NoParts ==
  ASSUME NEW slot, slot.startTime \in Int, slot.endTime \in Int,
         slot.endTime <= slot.startTime
  PROVE  Parts(slot) = {}
<1>1. ASSUME NEW j \in 0..((slot.endTime - slot.startTime) \div 30)
      PROVE  j = 0
  OBVIOUS
<1>2. PartStart(slot, 0) = slot.startTime
  BY DEF PartStart
<1> QED BY <1>1, <1>2 DEF Parts

(* Part number k of an aligned slot, and which k there are.                *)
LEMMA PartsOfAligned ==
  ASSUME NEW slot \in TimeSlot, NEW a \in 0..19, NEW b \in 1..20, a < b,
         slot.startTime = Boundary(a), slot.endTime = Boundary(b)
  PROVE  Parts(slot) = { [day |-> slot.day, startTime |-> Boundary(j), endTime |-> Boundary(j + 1)] :
                           j \in a..(b - 1) }
<1> DEFINE K == 0..((slot.endTime - slot.startTime) \div 30)
           part(k) == [day |-> slot.day, startTime |-> PartStart(slot, k),
                       endTime |-> PartStart(slot, k + 1)]
<1>1. ASSUME NEW k \in K
      PROVE  /\ PartStart(slot, k) < slot.endTime <=> a + k \in a..(b - 1)
             /\ part(k) = [day |-> slot.day, startTime |-> Boundary(a + k),
                            endTime |-> Boundary(a + k + 1)]
  <2>1. k \in Nat /\ a + k \in Nat /\ k + 1 \in Nat /\ a + (k + 1) = a + k + 1
    OBVIOUS
  <2>2. PartStart(slot, k) = Boundary(a + k) /\ PartStart(slot, k + 1) = Boundary(a + k + 1)
    BY <2>1, PartStartAt
  <2>3. Boundary(a + k) < Boundary(b) <=> a + k < b
    BY <2>1, b \in Nat, BoundaryIndex
  <2> QED BY <2>1, <2>2, <2>3
<1>2. ASSUME NEW j \in a..(b - 1)
      PROVE  j - a \in K /\ a + (j - a) = j
  <2>1. a \in Nat /\ b \in Nat
    OBVIOUS
  <2>2. Boundary(a) \in Nat /\ Boundary(b) \in Nat
    BY <2>1, BoundaryTime
  <2>3. Boundary(b) - Boundary(a) >= 30 * (b - a)
    BY <2>1, BoundaryOrder
  <2> QED BY <2>2, <2>3
<1>3. Parts(slot) = { part(k) : k \in { i \in K : PartStart(slot, i) < slot.endTime } }
  BY DEF Parts
<1> HIDE DEF K, part
<1> QED BY <1>1, <1>2, <1>3

(* The parts of an aligned slot are the half hours between its ends.       *)
LEMMA PartsBetween ==
  ASSUME NEW slot, Aligned(slot)
  PROVE  Parts(slot) = Between(slot) /\ Parts(slot) # {}
<1>1. PICK a \in 0..19, b \in 1..20 :
         a < b /\ slot.startTime = Boundary(a) /\ slot.endTime = Boundary(b)
  BY DEF Aligned
<1>2. slot \in TimeSlot /\ slot.day \in Days
  BY DEF Aligned, TimeSlot
<1>3. Parts(slot) = { [day |-> slot.day, startTime |-> Boundary(j), endTime |-> Boundary(j + 1)] :
                        j \in a..(b - 1) }
  BY <1>1, <1>2, PartsOfAligned
<1>4. ASSUME NEW j \in a..(b - 1)
      PROVE  [day |-> slot.day, startTime |-> Boundary(j), endTime |-> Boundary(j + 1)] \in Between(slot)
  <2>1. j \in 0..19 /\ j \in Nat /\ a \in Nat /\ b \in Nat /\ j < b
    OBVIOUS
  <2>2. Boundary(j) < Boundary(b)
    BY <2>1, BoundaryIndex
  <2>3. a <= j
    OBVIOUS
  <2>4. Boundary(a) <= Boundary(j)
    BY <2>1, <2>3, BoundaryIndex
  <2> QED BY <1>1, <1>2, <2>1, <2>2, <2>4, HalfHourAt DEF Between
<1>5. ASSUME NEW h \in Between(slot)
      PROVE  \E j \in a..(b - 1) :
               h = [day |-> slot.day, startTime |-> Boundary(j), endTime |-> Boundary(j + 1)]
  <2>1. h \in HalfHours /\ h.day = slot.day /\ Boundary(a) <= h.startTime /\ h.startTime < Boundary(b)
    BY <1>1 DEF Between
  <2>2. PICK j \in 0..19 : h = [day |-> h.day, startTime |-> Boundary(j), endTime |-> Boundary(j + 1)]
    BY <2>1, HalfHourShape
  <2>3. j < b /\ a <= j
    <3>1. h.startTime = Boundary(j)
      BY <2>2
    <3>2. a \in Nat /\ b \in Nat /\ j \in Nat
      OBVIOUS
    <3>3. Boundary(j) < Boundary(b) /\ Boundary(a) <= Boundary(j)
      BY <2>1, <3>1
    <3> QED BY <3>2, <3>3, BoundaryIndex
  <2> QED BY <2>1, <2>2, <2>3
<1>6. a \in a..(b - 1)
  BY <1>1
<1> QED BY <1>3, <1>4, <1>5, <1>6

(* An interval whose parts are half hours that end with it is aligned:     *)
(* what isAvailable and bookSlot accept.                                   *)
LEMMA AlignedIfCovered ==
  ASSUME NEW slot \in TimeSlot, slot.startTime < slot.endTime,
         \A p \in Parts(slot) : p \in HalfHours /\ p.endTime <= slot.endTime
  PROVE  Aligned(slot)
<1> DEFINE start == slot.startTime
           end == slot.endTime
           part(k) == [day |-> slot.day, startTime |-> PartStart(slot, k),
                       endTime |-> PartStart(slot, k + 1)]
<1>1. start \in Nat /\ end \in Nat
  BY SlotTimes
<1>2. ASSUME NEW k \in 0..((end - start) \div 30), PartStart(slot, k) < end
      PROVE  part(k) \in Parts(slot)
  BY <1>2 DEF Parts
<1>3. PICK a \in 0..19 : start = Boundary(a)
  <2>1. part(0) \in Parts(slot)
    BY <1>1, <1>2, PartStart(slot, 0) < end, 0 \in 0..((end - start) \div 30) DEF PartStart
  <2>2. part(0) \in HalfHours
    BY <2>1
  <2>3. PICK j \in 0..19 : part(0) = [day |-> part(0).day, startTime |-> Boundary(j), endTime |-> Boundary(j + 1)]
    BY <2>2, HalfHourShape
  <2>4. part(0).startTime = start
    BY DEF PartStart
  <2> QED BY <2>3, <2>4
<1>4. ASSUME NEW j \in a..20, Boundary(j) < end
      PROVE  part(j - a) \in Parts(slot) /\ part(j - a).startTime = Boundary(j)
                                         /\ part(j - a).endTime = Boundary(j + 1)
  <2>1. j - a \in Nat /\ a + (j - a) = j /\ (j - a) + 1 \in Nat /\ a + ((j - a) + 1) = j + 1
    OBVIOUS
  <2>2. PartStart(slot, j - a) = Boundary(j) /\ PartStart(slot, j - a + 1) = Boundary(j + 1)
    BY <1>3, <2>1, PartStartAt
  <2>3. Boundary(j) - Boundary(a) >= 30 * (j - a) /\ Boundary(a) \in Nat /\ Boundary(j) \in Nat
    <3>1. a \in Nat /\ j \in Nat /\ (a < j \/ a = j)
      OBVIOUS
    <3>2. Boundary(a) \in Nat /\ Boundary(j) \in Nat
      BY <3>1, BoundaryTime
    <3>3. a < j => Boundary(j) - Boundary(a) >= 30 * (j - a)
      BY <3>1, BoundaryOrder
    <3> QED BY <3>1, <3>2, <3>3
  <2>4. j - a \in 0..((end - start) \div 30)
    BY <1>1, <1>3, <1>4, <2>1, <2>3
  <2> QED BY <1>2, <1>4, <2>2, <2>4
<1>5. end <= 1800
  <2>1. SUFFICES ASSUME end > 1800 PROVE FALSE
    BY <1>1
  <2>2. part(20 - a) \in HalfHours /\ part(20 - a).startTime = Boundary(20)
    BY <1>4, <2>1, 20 \in a..20, Boundaries
  <2>3. PICK j \in 0..19 :
           part(20 - a) = [day |-> part(20 - a).day, startTime |-> Boundary(j), endTime |-> Boundary(j + 1)]
    BY <2>2, HalfHourShape
  <2>4. Boundary(20) = Boundary(j)
    BY <2>2, <2>3
  <2> QED BY <2>4, j \in Nat, j # 20, 20 \in Nat, BoundaryIndex
<1>6. 800 < end
  <2>1. Boundary(a) \in Nat /\ Boundary(a) >= 800
    BY a \in Nat, a <= 20, BoundaryTime
  <2> QED BY <1>1, <1>3, <2>1
<1>7. PICK j \in 0..19 : Boundary(j) < end /\ end <= Boundary(j + 1)
  BY <1>1, <1>5, <1>6, SomeHalfHour
<1>8. a <= j
  <2>1. Boundary(a) < Boundary(j + 1)
    <3>1. Boundary(a) \in Nat /\ Boundary(j + 1) \in Nat
      BY a \in Nat, j + 1 \in Nat, BoundaryTime
    <3> QED BY <1>1, <1>3, <1>7, <3>1
  <2>2. a < j + 1
    BY <2>1, a \in Nat, j + 1 \in Nat, BoundaryIndex
  <2> QED BY <2>2
<1>9. Boundary(j + 1) <= end
  <2>1. part(j - a) \in Parts(slot) /\ part(j - a).endTime = Boundary(j + 1)
    BY <1>4, <1>7, <1>8, j \in a..20
  <2> HIDE DEF part
  <2> QED BY <2>1
<1>10. end = Boundary(j + 1) /\ j + 1 \in 1..20 /\ a < j + 1
  BY <1>1, <1>7, <1>8, <1>9, j + 1 \in Nat, BoundaryTime
<1> QED BY <1>3, <1>10 DEF Aligned
(* Two aligned slots, the second starting where the first ends, make one   *)
(* that has the half hours of both.                                        *)
LEMMA PartsJoin ==
  ASSUME NEW first, NEW second, Aligned(first), Aligned(second),
         second.day = first.day, second.startTime = first.endTime
  PROVE  LET joined == [first EXCEPT !.endTime = second.endTime]
         IN  Aligned(joined) /\ Parts(joined) = Parts(first) \cup Parts(second)
<1> DEFINE joined == [first EXCEPT !.endTime = second.endTime]
<1>1. first \in TimeSlot /\ second \in TimeSlot
  BY DEF Aligned
<1>2. /\ joined \in TimeSlot
      /\ joined.day = first.day
      /\ joined.startTime = first.startTime
      /\ joined.endTime = second.endTime
  BY <1>1 DEF TimeSlot
<1>3. PICK a \in 0..19, b \in 1..20 :
         a < b /\ first.startTime = Boundary(a) /\ first.endTime = Boundary(b)
  BY DEF Aligned
<1>4. PICK c \in 0..19, d \in 1..20 :
         c < d /\ second.startTime = Boundary(c) /\ second.endTime = Boundary(d)
  BY DEF Aligned
<1>5. b = c
  BY <1>3, <1>4, b \in Nat, c \in Nat, BoundaryIndex
<1>6. a < d
  BY <1>3, <1>4, <1>5
<1> HIDE DEF joined
<1>7. Aligned(joined)
  BY <1>2, <1>3, <1>4, <1>6 DEF Aligned
<1>8. first.startTime < second.startTime /\ second.startTime < second.endTime
  BY <1>3, <1>4, <1>5, a \in Nat, b \in Nat, c \in Nat, d \in Nat, BoundaryIndex
<1>9. Between(joined) = Between(first) \cup Between(second)
  <2>1. \A h \in HalfHours : h.startTime \in Nat
    BY HalfHourShape, BoundaryTime
  <2> QED BY <1>1, <1>2, <1>8, <2>1, SlotTimes DEF Between
<1> QED BY <1>7, <1>9, PartsBetween DEF joined
=============================================================================
