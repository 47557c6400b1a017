------------------------ MODULE BookingServerProofs ------------------------
(***************************************************************************)
(* Theorems about BookingServer: the server changes the facilities and the *)
(* monitors only by their own operations, so that what is proved of the    *)
(* facilities holds in the server; every change is notified; and an error  *)
(* changes nothing, when the requests carry clock times.                   *)
(***************************************************************************)
EXTENDS BookingServer, FacilityProofs

(* A step of the server is one step of the facilities or none.             *)
LEMMA ServerStep ==
  [ServerNext]_serverVars => [Next]_vars
<1> SUFFICES ASSUME [ServerNext]_serverVars PROVE [Next]_vars
  OBVIOUS
<1>1. CASE UNCHANGED serverVars
  BY <1>1 DEF serverVars
<1>2. ASSUME NEW f \in Facilities, HandleKnown(f)
      PROVE  [Next]_vars
  <2>1. ASSUME NEW slot \in Requests, BookFacility(f, slot)
        PROVE  Next
    BY <2>1 DEF BookFacility, Next
  <2>2. ASSUME NEW id \in Ids, CancelBookFacility(f, id)
        PROVE  Next
    BY <2>2 DEF CancelBookFacility, Next
  <2>3. ASSUME NEW id \in Ids, NEW m \in Offsets, ModifyBookFacility(f, id, m)
        PROVE  Next
    BY <2>3 DEF ModifyBookFacility, Next
  <2>4. ASSUME NEW id \in Ids, NEW m \in Offsets, ExtendBookFacility(f, id, m)
        PROVE  Next
    BY <2>4 DEF ExtendBookFacility, Next
  <2>5. CASE QueryAvailability(f)
    BY <2>5 DEF QueryAvailability
  <2>6. ASSUME NEW client, NEW slot, NEW i, RegisterMonitorClient(f, client, slot, i)
        PROVE  UNCHANGED vars
    BY <2>6 DEF RegisterMonitorClient
  <2> QED BY <1>2, <2>1, <2>2, <2>3, <2>4, <2>5, <2>6 DEF HandleKnown
<1>3. CASE ExpireMonitor \/ Tick
  BY <1>3 DEF ExpireMonitor, Tick
<1>4. ASSUME NEW operation, NEW name,
             Malformed(operation) \/ GetFacilityThrows(name, operation)
      PROVE  UNCHANGED vars
  BY <1>4 DEF Malformed, GetFacilityThrows
<1> QED BY <1>1, <1>2, <1>3, <1>4 DEF ServerNext, HandleReceive

(* The server runs its facilities within their specification.              *)
THEOREM FacilitiesKept == ServerSpec => Spec
<1>1. ServerInit => Init
  BY DEF ServerInit
<1> QED BY <1>1, ServerStep, PTL DEF ServerSpec, Spec

LEMMA ServerInvariance ==
  ASSUME MaxId < IdSpace
  PROVE  ServerSpec => []IInv
BY FacilitiesKept, Invariance

(* No two bookings overlap, in the server as in the facilities alone.      *)
THEOREM ServerNoOverlap ==
  ASSUME MaxId < IdSpace
  PROVE  ServerSpec => []NoDoubleBooking
BY FacilitiesKept, NoOverlap

-----------------------------------------------------------------------------
(* The server registers and expires monitors as Monitors does.             *)

LEMMA MonitorStep ==
  [ServerNext]_serverVars => [M!Next]_monitorVars
<1> SUFFICES ASSUME [ServerNext]_serverVars PROVE [M!Next]_monitorVars
  OBVIOUS
<1>1. CASE UNCHANGED serverVars
  BY <1>1 DEF serverVars
<1>2. ASSUME NEW f \in Facilities, HandleKnown(f)
      PROVE  [M!Next]_monitorVars
  <2>1. ASSUME NEW client \in Clients, NEW slot \in M!Slot, NEW i \in Intervals,
               RegisterMonitorClient(f, client, slot, i)
        PROVE  M!Next
    <3>1. M!RegisterMonitorClient(f, client, slot, i)
      BY <2>1 DEF RegisterMonitorClient
    <3> QED BY <3>1 DEF M!Next
  <2>2. ASSUME NEW slot, BookFacility(f, slot)
        PROVE  UNCHANGED monitorVars
    BY <2>2 DEF BookFacility
  <2>3. ASSUME NEW id, CancelBookFacility(f, id)
        PROVE  UNCHANGED monitorVars
    BY <2>3 DEF CancelBookFacility
  <2>4. ASSUME NEW id, NEW m, ModifyBookFacility(f, id, m) \/ ExtendBookFacility(f, id, m)
        PROVE  UNCHANGED monitorVars
    BY <2>4 DEF ModifyBookFacility, ExtendBookFacility
  <2>5. CASE QueryAvailability(f)
    BY <2>5 DEF QueryAvailability
  <2> QED BY <1>2, <2>1, <2>2, <2>3, <2>4, <2>5 DEF HandleKnown
<1>3. CASE ExpireMonitor
  BY <1>3 DEF ExpireMonitor, M!Next
<1>4. CASE Tick
  BY <1>4 DEF Tick, M!Next
<1>5. ASSUME NEW operation, NEW name,
             Malformed(operation) \/ GetFacilityThrows(name, operation)
      PROVE  UNCHANGED monitorVars
  BY <1>5 DEF Malformed, GetFacilityThrows
<1> QED BY <1>1, <1>2, <1>3, <1>4, <1>5 DEF ServerNext, HandleReceive

(* The server runs its monitors within their specification.                *)
THEOREM MonitorsKept == ServerSpec => M!Spec
<1>1. ServerInit => M!Init
  BY DEF ServerInit
<1>2. [ServerNext]_serverVars => [M!Next]_M!vars
  BY MonitorStep DEF monitorVars, M!vars
<1> QED BY <1>1, <1>2, PTL DEF ServerSpec, M!Spec

LEMMA MonitorTypes ==
  /\ M!Init => M!TypeOK
  /\ M!TypeOK /\ [M!Next]_monitorVars => M!TypeOK'
<1>1. M!Init => M!TypeOK
  BY MonitorsServed DEF M!Init, M!TypeOK
<1>2. ASSUME M!TypeOK, [M!Next]_monitorVars
      PROVE  M!TypeOK'
  <2>1. CASE UNCHANGED monitorVars
    BY <1>2, <2>1 DEF monitorVars, M!TypeOK
  <2>2. CASE M!Tick
    BY <1>2, <2>2 DEF M!Tick, M!TypeOK
  <2>3. ASSUME NEW timer \in timers, M!Expire(timer)
        PROVE  M!TypeOK'
    BY <1>2, <2>3 DEF M!Expire, M!Kept, M!TypeOK
  <2>4. ASSUME NEW f \in Facilities, NEW client \in Clients, NEW slot \in M!Slot, NEW i \in Intervals,
               M!RegisterMonitorClient(f, client, slot, i)
        PROVE  M!TypeOK'
    <3>1. PICK info : info = [id        |-> registered + 1,
                              facility  |-> f,
                              client    |-> client,
                              day       |-> slot.day,
                              startTime |-> slot.startTime,
                              endTime   |-> slot.endTime,
                              due       |-> clock + i]
      OBVIOUS
    <3>2. slot.day \in Days /\ slot.startTime \in UInt16 /\ slot.endTime \in UInt16
      BY MonitorsServed DEF M!Slot
    <3>3. registered + 1 \in 1..MaxMonitors /\ clock + i \in Nat
      BY <1>2, <2>4, MonitorsServed DEF M!RegisterMonitorClient, M!TypeOK
    <3>4. info \in M!MonitorInfo
      <4>1. M!UInt16 = UInt16
        BY DEF UInt16, M!UInt16, MaxUInt16, M!MaxUInt16
      <4>2. /\ registered + 1 \in 1..MaxMonitors
            /\ clock + i \in Nat
            /\ slot.day \in Days
            /\ slot.startTime \in M!UInt16
            /\ slot.endTime \in M!UInt16
        BY <3>2, <3>3, <4>1
      <4> QED BY <3>1, <4>2 DEF M!MonitorInfo
    <3>5. monitors' = monitors \cup {info} /\ timers' = timers \cup {info}
      BY <2>4, <3>1 DEF M!RegisterMonitorClient
    <3>6. registered' \in 0..MaxMonitors /\ clock' = clock
      BY <2>4, <3>3 DEF M!RegisterMonitorClient
    <3> QED BY <1>2, <3>4, <3>5, <3>6 DEF M!TypeOK
  <2> QED BY <1>2, <2>1, <2>2, <2>3, <2>4 DEF M!Next
<1> QED BY <1>1, <1>2

Replied == reply \in [operation : Operations \cup {"none"}, status : {Success, Failure}]

LEMMA ReplyType ==
  ASSUME Replied, [ServerNext]_serverVars
  PROVE  Replied'
<1>1. ASSUME NEW o \in Operations, NEW s \in {Success, Failure}, Replies(o, s)
      PROVE  Replied'
  BY <1>1 DEF Replies, Replied
<1>2. ASSUME reply' = NoReply
      PROVE  Replied'
  BY <1>2 DEF Replied, NoReply, Success
<1>3. CASE UNCHANGED serverVars
  BY <1>3 DEF serverVars, Replied
<1>4. ASSUME NEW f \in Facilities, HandleKnown(f)
      PROVE  Replied'
  <2>1. ASSUME NEW slot, BookFacility(f, slot)
        PROVE  Replied'
    BY <1>1, <2>1 DEF BookFacility, Operations
  <2>2. ASSUME NEW id, CancelBookFacility(f, id)
        PROVE  Replied'
    BY <1>1, <2>2 DEF CancelBookFacility, Operations
  <2>3. ASSUME NEW id, NEW m, ModifyBookFacility(f, id, m) \/ ExtendBookFacility(f, id, m)
        PROVE  Replied'
    BY <1>1, <2>3 DEF ModifyBookFacility, ExtendBookFacility, Operations
  <2>4. ASSUME NEW client, NEW slot, NEW i, RegisterMonitorClient(f, client, slot, i)
        PROVE  Replied'
    BY <1>1, <2>4 DEF RegisterMonitorClient, Operations
  <2>5. CASE QueryAvailability(f)
    BY <1>1, <2>5 DEF QueryAvailability, Operations
  <2> QED BY <1>4, <2>1, <2>2, <2>3, <2>4, <2>5 DEF HandleKnown
<1>5. CASE ExpireMonitor \/ Tick
  BY <1>2, <1>5 DEF ExpireMonitor, Tick
<1>6. ASSUME NEW operation, NEW name,
             Malformed(operation) \/ GetFacilityThrows(name, operation)
      PROVE  Replied'
  BY <1>1, <1>6 DEF Malformed, GetFacilityThrows, Operations
<1> QED BY <1>3, <1>4, <1>5, <1>6 DEF ServerNext, HandleReceive

(* Every reachable state of the server has its type, and every reply one   *)
(* of the two statuses: no branch of handle_receive leaves it unset.       *)
THEOREM ServerTypes == ServerSpec => []ServerTypeOK
<1>1. ServerSpec => []TypeOK
  BY FacilitiesKept, TypeCorrect, PTL
<1>2. ServerSpec => [](M!TypeOK /\ Replied)
  <2>1. ServerInit => M!TypeOK /\ Replied
    BY MonitorTypes DEF ServerInit, Replied, NoReply, Success
  <2>2. M!TypeOK /\ Replied /\ [ServerNext]_serverVars => (M!TypeOK /\ Replied)'
    BY MonitorTypes, MonitorStep, ReplyType
  <2> QED BY <2>1, <2>2, PTL DEF ServerSpec
<1>3. TypeOK /\ M!TypeOK /\ Replied => ServerTypeOK
  BY DEF ServerTypeOK, Replied
<1> QED BY <1>1, <1>2, <1>3, PTL

-----------------------------------------------------------------------------
(* What a step may change, and what it tells the monitors.                 *)

(* The step counts no half hours anew but those H of facility f.           *)
OnlyWithin(f, H) ==
  /\ \A g \in Facilities \ {f} : availableSlots'[g] = availableSlots[g]
  /\ \A h \in HalfHours :
       h \notin H => availableSlots'[f][h] = availableSlots[f][h]

(* A half hour is available when the vector has a copy of it.              *)
LEMMA HalfHourAvailable ==
  ASSUME NEW avail, NEW h \in HalfHours
  PROVE  /\ IsAvailable(avail, h) <=> avail[h] > 0
         /\ IsAvailable(avail, h) \in BOOLEAN
<1>1. IsAvailable(avail, h) <=> avail[h] > 0
  <2>1. h.endTime <= h.endTime
    BY PartOfHalfHour, SlotTimes
  <2> QED BY <2>1, PartOfHalfHour DEF IsAvailable, Covered
<1>2. IsAvailable(avail, h) \in BOOLEAN
  BY DEF IsAvailable
<1> QED BY <1>1, <1>2

LEMMA TruthDiffers ==
  ASSUME NEW a \in BOOLEAN, NEW b \in BOOLEAN, a # b
  PROVE  ~(a <=> b)
OBVIOUS

(* The intervals notified about cover H, on any day.                       *)
Covering(intervals, H) ==
  \A h \in H : h \in HalfHours =>
    \E c \in intervals : h \in Parts([c EXCEPT !.day = h.day])

(* What a step must notify of.                                             *)
Told(f, h, m) ==
  Watches(m, f, h) /\ (Available(f, h) # Available(f, h)') =>
    [monitor |-> m.id, slot |-> h, available |-> Available(f, h)'] \in notices'

(* If a step changes only half hours that its notification covers, it      *)
(* tells every monitor of every change.                                    *)
LEMMA CoveringTells ==
  ASSUME NEW f \in Facilities, NEW H, NEW intervals,
         OnlyWithin(f, H), Covering(intervals, H), Notifies(f, intervals)
  PROVE  \A g \in Facilities, h \in HalfHours, m \in monitors : Told(g, h, m)
<1> SUFFICES ASSUME NEW g \in Facilities, NEW h \in HalfHours, NEW m \in monitors,
                    Watches(m, g, h), Available(g, h) # Available(g, h)'
             PROVE  [monitor |-> m.id, slot |-> h, available |-> Available(g, h)'] \in notices'
  BY DEF Told
<1>1. g = f
  <2>1. CASE g # f
    <3>1. availableSlots'[g] = availableSlots[g]
      BY <2>1 DEF OnlyWithin
    <3> QED BY <3>1 DEF Available
  <2> QED BY <2>1
<1>2. h \in H
  <2>1. availableSlots'[f][h] # availableSlots[f][h]
    <3>1. Available(f, h) <=> availableSlots[f][h] > 0
      BY HalfHourAvailable DEF Available
    <3>2. Available(f, h)' <=> availableSlots'[f][h] > 0
      BY HalfHourAvailable DEF Available
    <3>3. ~(Available(f, h) <=> Available(f, h)')
      <4> DEFINE before == IsAvailable(availableSlots[f], h)
                 after == IsAvailable(availableSlots'[f], h)
      <4>1. before \in BOOLEAN /\ after \in BOOLEAN
        BY HalfHourAvailable
      <4>2. before # after
        BY <1>1 DEF Available
      <4>3. ~(before <=> after)
        <5> HIDE DEF before, after
        <5> QED BY <4>1, <4>2, TruthDiffers
      <4> QED BY <4>3 DEF Available
    <3> QED BY <3>1, <3>2, <3>3
  <2> QED BY <2>1 DEF OnlyWithin
<1>3. PICK c \in intervals : h \in Parts([c EXCEPT !.day = h.day])
  BY <1>2 DEF Covering
<1> DEFINE avail == availableSlots'[f]
           part == [monitor |-> m.id, slot |-> h, available |-> IsAvailable(avail, h)]
<1>4. m.facility = f /\ m.day = h.day /\ m.endTime > h.startTime /\ m.startTime < h.endTime
  BY <1>1 DEF Watches
<1>5. part \in Notices(avail, f, c)
  <2>1. h \in { p \in Parts([c EXCEPT !.day = m.day]) :
                  m.endTime > p.startTime /\ m.startTime < p.endTime }
    BY <1>3, <1>4
  <2>2. m \in { n \in monitors : n.facility = f }
    BY <1>4
  <2> DEFINE toMonitor(n) ==
        { [monitor |-> n.id, slot |-> p, available |-> IsAvailable(avail, p)] :
            p \in { q \in Parts([c EXCEPT !.day = n.day]) :
                      n.endTime > q.startTime /\ n.startTime < q.endTime } }
  <2>3. part \in toMonitor(m)
    BY <2>1
  <2>4. Notices(avail, f, c) = UNION { toMonitor(n) : n \in { n \in monitors : n.facility = f } }
    BY DEF Notices
  <2> HIDE DEF avail, part, toMonitor
  <2> QED BY <2>2, <2>3, <2>4
<1>6. part \in notices'
  BY <1>5 DEF Notifies
<1>7. Available(g, h)' = IsAvailable(avail, h)
  BY <1>1 DEF Available
<1> QED BY <1>6, <1>7

(* An interval covers its own half hours.                                  *)
LEMMA CoversItself ==
  ASSUME NEW intervals, NEW c \in intervals, c \in TimeSlot
  PROVE  Covering(intervals, Parts(c))
<1> SUFFICES ASSUME NEW h \in Parts(c)
             PROVE  h \in Parts([c EXCEPT !.day = h.day])
  BY DEF Covering
<1>1. h.day = c.day
  BY DEF Parts
<1>2. [c EXCEPT !.day = h.day] = c
  BY <1>1 DEF TimeSlot
<1> QED BY <1>2

(* So does the interval from the earlier start to the later end of two     *)
(* that meet.                                                              *)
LEMMA MoveCovered ==
  ASSUME NEW old, NEW new, Aligned(old), Aligned(new), new.day = old.day
  PROVE  Covering(Changed(old, new), Parts(old) \cup Parts(new))
<1>1. old \in TimeSlot /\ new \in TimeSlot
  BY DEF Aligned
<1>2. CASE ~(old.endTime >= new.startTime /\ old.startTime <= new.endTime)
  <2>1. Changed(old, new) = {old, new}
    BY <1>2 DEF Changed
  <2>2. Covering({old, new}, Parts(old)) /\ Covering({old, new}, Parts(new))
    BY <1>1, CoversItself
  <2> QED BY <2>1, <2>2 DEF Covering
<1>3. CASE old.endTime >= new.startTime /\ old.startTime <= new.endTime
  <2> DEFINE s == IF old.startTime <= new.startTime THEN old.startTime ELSE new.startTime
             e == IF old.endTime >= new.endTime THEN old.endTime ELSE new.endTime
             c == [day |-> old.day, startTime |-> s, endTime |-> e]
  <2>1. Changed(old, new) = {c}
    BY <1>3 DEF Changed
  <2>2. PICK a1 \in 0..19, b1 \in 1..20 :
           a1 < b1 /\ old.startTime = Boundary(a1) /\ old.endTime = Boundary(b1)
    BY DEF Aligned
  <2>3. PICK a2 \in 0..19, b2 \in 1..20 :
           a2 < b2 /\ new.startTime = Boundary(a2) /\ new.endTime = Boundary(b2)
    BY DEF Aligned
  <2>4. /\ old.startTime \in Nat /\ old.endTime \in Nat
        /\ new.startTime \in Nat /\ new.endTime \in Nat
        /\ old.startTime \in UInt16 /\ old.endTime \in UInt16
        /\ new.startTime \in UInt16 /\ new.endTime \in UInt16
        /\ old.day \in Days
    BY <1>1, SlotTimes
  <2>5. /\ s <= old.startTime /\ s <= new.startTime
        /\ e >= old.endTime /\ e >= new.endTime
        /\ s \in UInt16 /\ e \in UInt16
        /\ s \in {Boundary(a1), Boundary(a2)} /\ e \in {Boundary(b1), Boundary(b2)}
    BY <2>2, <2>3, <2>4
  <2>6. PICK a \in 0..19, b \in 1..20 : s = Boundary(a) /\ e = Boundary(b)
    BY <2>5
  <2> HIDE DEF s, e
  <2>7. s < e
    <3>1. old.startTime < old.endTime
      BY <2>2, a1 \in Nat, b1 \in Nat, BoundaryIndex
    <3>2. s \in Nat /\ e \in Nat
      BY <2>6, a \in Nat, b \in Nat, BoundaryTime
    <3> QED BY <2>4, <2>5, <3>1, <3>2
  <2>8. a < b
    BY <2>6, <2>7, a \in Nat, b \in Nat, BoundaryIndex
  <2>9. c \in TimeSlot
    BY <2>4, <2>5 DEF TimeSlot
  <2>10. c.day = old.day /\ c.startTime = s /\ c.endTime = e
    OBVIOUS
  <2> HIDE DEF c
  <2>11. Aligned(c)
    BY <2>6, <2>8, <2>9, <2>10 DEF Aligned
  <2>12. ASSUME NEW h, h \in Parts(old) \cup Parts(new)
         PROVE  h \in Parts(c)
    <3>1. h \in Between(old) \/ h \in Between(new)
      BY <2>12, PartsBetween
    <3>2. h \in HalfHours
      BY <3>1 DEF Between
    <3>3. h.startTime \in Nat /\ s \in Nat /\ e \in Nat
      BY <2>6, <3>2, a \in Nat, b \in Nat, BoundaryTime, PartOfHalfHour, SlotTimes
    <3>4. h \in Between(c)
      BY <2>4, <2>5, <2>10, <3>1, <3>3 DEF Between
    <3> QED BY <2>11, <3>4, PartsBetween
  <2>13. Covering({c}, Parts(c))
    BY <2>9, CoversItself
  <2> QED BY <2>1, <2>12, <2>13 DEF Covering
<1> QED BY <1>2, <1>3

-----------------------------------------------------------------------------
(* Every operation notifies about what it changes.                         *)

LEMMA BookCovered ==
  ASSUME IInv, NEW f \in Facilities, NEW slot \in Requests, BookSlot(f, slot)
  PROVE  OnlyWithin(f, Parts(slot)) /\ Covering({slot}, Parts(slot))
<1>1. /\ availableSlots'[f] = EraseMatched(availableSlots[f], Parts(slot))
      /\ \A g \in Facilities \ {f} : availableSlots'[g] = availableSlots[g]
  BY DEF BookSlot, IInv, TypeOK
<1>2. OnlyWithin(f, Parts(slot))
  BY <1>1 DEF OnlyWithin, EraseMatched
<1>3. slot \in TimeSlot
  BY FacilityAssumption DEF Requests, TimeSlot
<1> QED BY <1>2, <1>3, CoversItself

LEMMA CancelCovered ==
  ASSUME IInv, NEW f \in Facilities, NEW id \in Ids, CancelBooking(f, id),
         NEW b, b = bookings[f][id]
  PROVE  OnlyWithin(f, Parts(b)) /\ Covering({b}, Parts(b))
<1>1. id \in DOMAIN bookings[f]
  BY DEF CancelBooking
<1>2. /\ availableSlots'[f] = PushBack(availableSlots[f], Parts(b))
      /\ \A g \in Facilities \ {f} : availableSlots'[g] = availableSlots[g]
  BY DEF CancelBooking, IInv, TypeOK
<1>3. OnlyWithin(f, Parts(b))
  BY <1>2 DEF OnlyWithin, PushBack
<1>4. b \in TimeSlot
  BY <1>1, BookingOf
<1> QED BY <1>3, <1>4, CoversItself

(* An extension takes the half hours it adds.                              *)
LEMMA ExtendCovered ==
  ASSUME IInv, NEW f \in Facilities, NEW id \in Ids, NEW minutes \in Offsets,
         ExtendBooking(f, id, minutes),
         NEW added, added = Extension(bookings[f][id], minutes)
  PROVE  OnlyWithin(f, Parts(added)) /\ Covering({added}, Parts(added))
<1>1. id \in DOMAIN bookings[f]
  BY DEF ExtendBooking
<1>2. bookings[f][id] \in TimeSlot
  BY <1>1, BookingOf
<1>3. added \in TimeSlot
  BY <1>2, ExtensionSlot, SlotTimes, FacilityAssumption DEF ExtendBooking, Extensible
<1>4. /\ availableSlots'[f] = EraseAll(availableSlots[f], Parts(added))
      /\ \A g \in Facilities \ {f} : availableSlots'[g] = availableSlots[g]
  BY DEF ExtendBooking, IInv, TypeOK
<1>5. OnlyWithin(f, Parts(added))
  BY <1>4 DEF OnlyWithin, EraseAll
<1> QED BY <1>3, <1>5, CoversItself

(* A move frees the old half hours and takes the new; only a booking that  *)
(* is not empty can be moved.                                              *)
LEMMA ModifyCovered ==
  ASSUME IInv, NEW f \in Facilities, NEW id \in Ids, NEW offset \in Offsets,
         ModifyBooking(f, id, offset),
         NEW old, old = bookings[f][id], NEW new, new = Shifted(old, offset)
  PROVE  /\ OnlyWithin(f, Parts(old) \cup Parts(new))
         /\ Covering(Changed(old, new), Parts(old) \cup Parts(new))
<1>1. id \in DOMAIN bookings[f]
  BY DEF ModifyBooking
<1>2. /\ old \in TimeSlot /\ HeldBy(f, id) = Parts(old)
      /\ old.startTime = old.endTime \/ Aligned(old)
  BY <1>1, BookingOf
<1>3. Reassigned(f, id, Parts(new)) /\ Aligned(new)
  BY ModifyReassigns
<1>4. OnlyWithin(f, Parts(old) \cup Parts(new))
  BY <1>2, <1>3 DEF Reassigned, OnlyWithin
<1>5. Aligned(old)
  <2>1. new.startTime < new.endTime
    BY DEF ModifyBooking, InOpeningHours
  <2>2. new.startTime \in Nat
    BY <1>3, SlotTimes DEF Aligned
  <2>3. old.startTime = old.endTime => new.startTime = new.endTime
    BY DEF Shifted
  <2> QED BY <1>2, <2>1, <2>2, <2>3
<1>6. new.day = old.day
  BY DEF Shifted
<1> QED BY <1>3, <1>4, <1>5, <1>6, MoveCovered

(* A step that leaves the offer alone owes nobody an update.               *)
LEMMA UnchangedTold ==
  ASSUME availableSlots' = availableSlots
  PROVE  \A g \in Facilities, h \in HalfHours, m \in monitors : Told(g, h, m)
BY DEF Told, Available

(* The operations on one facility that change the offer.                   *)
LEMMA KnownTold ==
  ASSUME IInv, NEW f \in Facilities, HandleKnown(f)
  PROVE  \A g \in Facilities, h \in HalfHours, m \in monitors : Told(g, h, m)
<1>1. CASE QueryAvailability(f)
  BY <1>1, UnchangedTold DEF QueryAvailability, vars
<1>2. ASSUME NEW slot \in Requests, BookFacility(f, slot)
      PROVE  \A g \in Facilities, h \in HalfHours, m \in monitors : Told(g, h, m)
  <2>1. CASE BookRefused(f, slot)
    BY <2>1, UnchangedTold DEF BookRefused, vars
  <2>2. CASE BookSlot(f, slot) /\ Notifies(f, {slot})
    BY <2>2, BookCovered, CoveringTells
  <2> QED BY <1>2, <2>1, <2>2 DEF BookFacility
<1>3. ASSUME NEW id \in Ids, CancelBookFacility(f, id)
      PROVE  \A g \in Facilities, h \in HalfHours, m \in monitors : Told(g, h, m)
  <2>1. CASE CancelRejected(f, id)
    BY <2>1, UnchangedTold DEF CancelRejected, vars
  <2>2. CASE CancelBooking(f, id) /\ Notifies(f, {bookings[f][id]})
    <3>1. PICK b : b = bookings[f][id]
      OBVIOUS
    <3> QED BY <2>2, <3>1, CancelCovered, CoveringTells
  <2> QED BY <1>3, <2>1, <2>2 DEF CancelBookFacility
<1>4. ASSUME NEW id \in Ids, NEW offset \in Offsets, ModifyBookFacility(f, id, offset)
      PROVE  \A g \in Facilities, h \in HalfHours, m \in monitors : Told(g, h, m)
  <2>1. CASE ModifyRejected(f, id, offset)
    BY <2>1, UnchangedTold DEF ModifyRejected, vars
  <2>2. CASE ModifyRolledBack(f, id, offset)
    BY <2>2, RollbackRestores, UnchangedTold DEF vars
  <2>3. CASE /\ ModifyBooking(f, id, offset)
             /\ Notifies(f, Changed(bookings[f][id], Shifted(bookings[f][id], offset)))
    <3>1. PICK old : old = bookings[f][id]
      OBVIOUS
    <3>2. PICK new : new = Shifted(old, offset)
      OBVIOUS
    <3>3. PICK intervals : intervals = Changed(old, new)
      OBVIOUS
    <3>4. OnlyWithin(f, Parts(old) \cup Parts(new))
      BY <2>3, <3>1, <3>2, ModifyCovered
    <3>5. Covering(intervals, Parts(old) \cup Parts(new))
      BY <2>3, <3>1, <3>2, <3>3, ModifyCovered
    <3>6. Notifies(f, intervals)
      BY <2>3, <3>1, <3>2, <3>3
    <3> QED BY <3>4, <3>5, <3>6, CoveringTells
  <2> QED BY <1>4, <2>1, <2>2, <2>3 DEF ModifyBookFacility
<1>5. ASSUME NEW id \in Ids, NEW minutes \in Offsets, ExtendBookFacility(f, id, minutes)
      PROVE  \A g \in Facilities, h \in HalfHours, m \in monitors : Told(g, h, m)
  <2>1. CASE ExtendRejected(f, id, minutes)
    BY <2>1, UnchangedTold DEF ExtendRejected, vars
  <2>2. CASE /\ ExtendBooking(f, id, minutes)
             /\ Notifies(f, {Extension(bookings[f][id], minutes)})
    <3>1. PICK added : added = Extension(bookings[f][id], minutes)
      OBVIOUS
    <3> QED BY <2>2, <3>1, ExtendCovered, CoveringTells
  <2> QED BY <1>5, <2>1, <2>2 DEF ExtendBookFacility
<1>6. ASSUME NEW client, NEW slot, NEW i, RegisterMonitorClient(f, client, slot, i)
      PROVE  \A g \in Facilities, h \in HalfHours, m \in monitors : Told(g, h, m)
  BY <1>6, UnchangedTold DEF RegisterMonitorClient, vars
<1> QED BY <1>1, <1>2, <1>3, <1>4, <1>5, <1>6 DEF HandleKnown

LEMMA StepTold ==
  ASSUME IInv, [ServerNext]_serverVars
  PROVE  \A g \in Facilities, h \in HalfHours, m \in monitors : Told(g, h, m)
<1>1. CASE UNCHANGED serverVars
  BY <1>1, UnchangedTold DEF serverVars, vars
<1>2. CASE ExpireMonitor \/ Tick
  BY <1>2, UnchangedTold DEF ExpireMonitor, Tick, vars
<1>3. ASSUME NEW operation, NEW name,
             Malformed(operation) \/ GetFacilityThrows(name, operation)
      PROVE  \A g \in Facilities, h \in HalfHours, m \in monitors : Told(g, h, m)
  BY <1>3, UnchangedTold DEF Malformed, GetFacilityThrows, vars
<1>4. ASSUME NEW f \in Facilities, HandleKnown(f)
      PROVE  \A g \in Facilities, h \in HalfHours, m \in monitors : Told(g, h, m)
  BY <1>4, KnownTold
<1> QED BY <1>1, <1>2, <1>3, <1>4 DEF ServerNext, HandleReceive

(* As long as the ID counter does not wrap around, no operation changes    *)
(* the availability of a monitored half hour without telling the client    *)
(* that monitors it, and what it is told is what is then true.             *)
THEOREM EveryChangeTold ==
  ASSUME MaxId < IdSpace
  PROVE  ServerSpec => ChangesNotified
<1>1. IInv /\ [ServerNext]_serverVars =>
        [ \A f \in Facilities, h \in HalfHours, m \in monitors :
            Watches(m, f, h) /\ (Available(f, h) # Available(f, h)') =>
              [monitor |-> m.id, slot |-> h, available |-> Available(f, h)'] \in notices'
        ]_serverVars
  BY StepTold DEF Told
<1> QED BY <1>1, ServerInvariance, PTL DEF ServerSpec, ChangesNotified

-----------------------------------------------------------------------------
(* An error changes nothing, when the requests carry clock times.          *)

ClockTimes == \A t \in BookTimes : t \div 100 <= 23 /\ t % 100 <= 59

(* What a step must leave alone when it answers with an error.             *)
ErrorLeaves ==
  reply'.status = Failure => UNCHANGED <<availableSlots, bookings, monitors>>

LEMMA SuccessLeaves ==
  ASSUME NEW operation, Replies(operation, Success)
  PROVE  ErrorLeaves
BY DEF Replies, Success, Failure, ErrorLeaves

LEMMA NoReplyLeaves ==
  ASSUME reply' = NoReply
  PROVE  ErrorLeaves
BY DEF NoReply, Failure, ErrorLeaves

LEMMA UnchangedLeaves ==
  ASSUME UNCHANGED <<vars, monitorVars>>
  PROVE  ErrorLeaves
BY DEF vars, monitorVars, ErrorLeaves

LEMMA StepLeaves ==
  ASSUME ClockTimes, IInv, [ServerNext]_serverVars
  PROVE  ErrorLeaves
<1>1. CASE UNCHANGED serverVars
  BY <1>1, UnchangedLeaves DEF serverVars
<1>2. CASE ExpireMonitor \/ Tick
  BY <1>2, NoReplyLeaves DEF ExpireMonitor, Tick
<1>3. ASSUME NEW operation, NEW name,
             Malformed(operation) \/ GetFacilityThrows(name, operation)
      PROVE  ErrorLeaves
  BY <1>3, UnchangedLeaves DEF Malformed, GetFacilityThrows
<1>4. ASSUME NEW f \in Facilities, HandleKnown(f)
      PROVE  ErrorLeaves
  <2>1. CASE QueryAvailability(f)
    BY <2>1, SuccessLeaves DEF QueryAvailability
  <2>2. ASSUME NEW slot \in Requests, BookFacility(f, slot)
        PROVE  ErrorLeaves
    <3>1. Printable(slot)
      BY DEF ClockTimes, Printable, Requests
    <3> QED BY <2>2, <3>1, SuccessLeaves DEF BookFacility
  <2>3. ASSUME NEW id \in Ids, CancelBookFacility(f, id)
        PROVE  ErrorLeaves
    BY <2>3, SuccessLeaves DEF CancelBookFacility
  <2>4. ASSUME NEW id \in Ids, NEW offset \in Offsets, ModifyBookFacility(f, id, offset)
        PROVE  ErrorLeaves
    <3>1. CASE ModifyBooking(f, id, offset) /\ Replies("CHANGE", Success)
      BY <3>1, SuccessLeaves
    <3>2. CASE ModifyRejected(f, id, offset)
      BY <2>4, <3>2, UnchangedLeaves DEF ModifyRejected, ModifyBookFacility
    <3>3. CASE ModifyRolledBack(f, id, offset)
      BY <2>4, <3>3, RollbackRestores, UnchangedLeaves DEF ModifyBookFacility
    <3> QED BY <2>4, <3>1, <3>2, <3>3 DEF ModifyBookFacility
  <2>5. ASSUME NEW id \in Ids, NEW minutes \in Offsets, ExtendBookFacility(f, id, minutes)
        PROVE  ErrorLeaves
    <3>1. CASE ExtendBooking(f, id, minutes) /\ Replies("EXTEND", Success)
      BY <3>1, SuccessLeaves
    <3>2. CASE ExtendRejected(f, id, minutes)
      BY <2>5, <3>2, UnchangedLeaves DEF ExtendRejected, ExtendBookFacility
    <3> QED BY <2>5, <3>1, <3>2 DEF ExtendBookFacility
  <2>6. ASSUME NEW client, NEW slot, NEW i, RegisterMonitorClient(f, client, slot, i)
        PROVE  ErrorLeaves
    BY <2>6, SuccessLeaves DEF RegisterMonitorClient
  <2> QED BY <1>4, <2>1, <2>2, <2>3, <2>4, <2>5, <2>6 DEF HandleKnown
<1> QED BY <1>1, <1>2, <1>3, <1>4 DEF ServerNext, HandleReceive

(* When BOOK requests carry clock times, a request answered with an error  *)
(* has changed nothing: the one operation that changes the offer before it *)
(* knows whether it succeeds, the move, undoes exactly what it did.        *)
THEOREM ErrorsAreClean ==
  ASSUME MaxId < IdSpace, ClockTimes
  PROVE  ServerSpec => ErrorsChangeNothing
<1>1. IInv /\ [ServerNext]_serverVars =>
        [ reply'.status = Failure => UNCHANGED <<availableSlots, bookings, monitors>> ]_serverVars
  BY StepLeaves DEF ErrorLeaves
<1> QED BY <1>1, ServerInvariance, PTL DEF ServerSpec, ErrorsChangeNothing
=============================================================================
