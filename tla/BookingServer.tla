--------------------------- MODULE BookingServer ---------------------------
(***************************************************************************)
(* The server behind the request cache: the branches of handle_receive and *)
(* the functions they call, on the facilities and the monitors.  Each      *)
(* action is one datagram handled to its reply, with the updates it sends  *)
(* to monitoring clients, or one timer calling back.                       *)
(***************************************************************************)
EXTENDS Facility

CONSTANTS
  Clients, MonitorTimes, Intervals, MaxMonitors, MaxTime,
                  \* those of Monitors
  Names           \* facility names a request may carry

ASSUME NamesAssumption == Facilities \subseteq Names

(* MonitorsAssumption of Monitors, of the constants it gets from here.     *)
ASSUME MonitorsServed ==
  /\ MonitorTimes \subseteq UInt16
  /\ Intervals \subseteq Nat
  /\ MaxMonitors \in Nat
  /\ MaxTime \in Nat

VARIABLES
  clock, registered, monitors, timers,
                  \* those of Monitors
  reply,          \* the operation and status of the reply this step sent
  notices         \* the updates this step sent

M == INSTANCE Monitors

monitorVars == <<clock, registered, monitors, timers>>
serverVars == <<vars, monitorVars, reply, notices>>

Operations == {"QUERY", "BOOK", "CHANGE", "EXTEND", "CANCEL", "MONITOR", "invalid"}

(* A step that sends no reply, and ResponseMessage::status.                *)
NoReply == [operation |-> "none", status |-> 0]
Success == 0
Failure == 1

(* Mutant: the catch block forgets the status, which stays as it was in    *)
(* memory.                                                                 *)
Replies_Unset(operation, status) ==
  reply' = [operation |-> operation, status |-> IF status = Failure THEN 205 ELSE status]

Replies(operation, status) == reply' = [operation |-> operation, status |-> status]

-----------------------------------------------------------------------------
(* notifyMonitorClients.                                                   *)

(* The updates sent about a changed interval of facility f, whose vector   *)
(* is avail by then.  The day of the change is not among the arguments:    *)
(* the interval is cut into half hours on the day of each monitor.         *)
Notices(avail, f, changed) ==
  UNION { { [monitor   |-> m.id,
             slot      |-> part,
             available |-> IsAvailable(avail, part)] :
              part \in { p \in Parts([changed EXCEPT !.day = m.day]) :
                          m.endTime > p.startTime /\ m.startTime < p.endTime } } :
            m \in { n \in monitors : n.facility = f } }

Notifies(f, intervals) ==
  notices' = UNION { Notices(availableSlots'[f], f, i) : i \in intervals }

(* Mutant: only the new interval counts as changed.                        *)
Changed_NewOnly(old, new) == {new}

(* What a move notifies about: one interval from the earlier start to the  *)
(* later end if the old and the new meet, and both if they do not.         *)
Changed(old, new) ==
  IF old.endTime >= new.startTime /\ old.startTime <= new.endTime
  THEN { [day       |-> old.day,
          startTime |-> IF old.startTime <= new.startTime THEN old.startTime ELSE new.startTime,
          endTime   |-> IF old.endTime >= new.endTime THEN old.endTime ELSE new.endTime] }
  ELSE {old, new}

-----------------------------------------------------------------------------
(* The operations.                                                         *)

(* parseTime throws for what is not a clock time.                          *)
Printable(slot) ==
  \A t \in {slot.startTime, slot.endTime} : t \div 100 <= 23 /\ t % 100 <= 59

ServerInit ==
  /\ Init
  /\ M!Init
  /\ reply = NoReply
  /\ notices = {}

QueryAvailability(f) ==
  /\ Replies("QUERY", Success)
  /\ notices' = {}
  /\ UNCHANGED <<vars, monitorVars>>

(* The reply of a confirmed booking is formatted after the booking is made *)
(* and the monitors are notified; a slot that was not available is told of *)
(* with the status of a success (Message.h gives it as its example of an   *)
(* error, with status 1).                                                  *)
BookFacility(f, slot) ==
  /\ \/ /\ BookSlot(f, slot)
        /\ Notifies(f, {slot})
        /\ Replies("BOOK", IF Printable(slot) THEN Success ELSE Failure)
     \/ /\ BookRefused(f, slot)
        /\ notices' = {}
        /\ Replies("BOOK", Success)
  /\ UNCHANGED monitorVars

ModifyBookFacility(f, id, offset) ==
  /\ \/ /\ ModifyBooking(f, id, offset)
        /\ Notifies(f, Changed(bookings[f][id], Shifted(bookings[f][id], offset)))
        /\ Replies("CHANGE", Success)
     \/ /\ ModifyRejected(f, id, offset) \/ ModifyRolledBack(f, id, offset)
        /\ notices' = {}
        /\ Replies("CHANGE", Failure)
  /\ UNCHANGED monitorVars

ExtendBookFacility(f, id, minutes) ==
  /\ \/ /\ ExtendBooking(f, id, minutes)
        /\ Notifies(f, {Extension(bookings[f][id], minutes)})
        /\ Replies("EXTEND", Success)
     \/ /\ ExtendRejected(f, id, minutes)
        /\ notices' = {}
        /\ Replies("EXTEND", Failure)
  /\ UNCHANGED monitorVars

(* An unknown booking is told of with the status of a success.             *)
CancelBookFacility(f, id) ==
  /\ \/ /\ CancelBooking(f, id)
        /\ Notifies(f, {bookings[f][id]})
     \/ /\ CancelRejected(f, id)
        /\ notices' = {}
  /\ Replies("CANCEL", Success)
  /\ UNCHANGED monitorVars

RegisterMonitorClient(f, client, slot, interval) ==
  /\ M!RegisterMonitorClient(f, client, slot, interval)
  /\ Replies("MONITOR", Success)
  /\ notices' = {}
  /\ UNCHANGED vars

(* The exceptions caught in handle_receive before anything has changed: a  *)
(* request without the fields its operation needs, a facility that does    *)
(* not exist; and the operation codes that are none.                       *)
Malformed(operation) ==
  /\ operation \in {"CHANGE", "EXTEND", "CANCEL", "MONITOR", "invalid"}
  /\ Replies(operation, Failure)
  /\ notices' = {}
  /\ UNCHANGED <<vars, monitorVars>>

GetFacilityThrows(name, operation) ==
  /\ name \notin Facilities
  /\ operation \in Operations \ {"invalid"}
  /\ Replies(operation, Failure)
  /\ notices' = {}
  /\ UNCHANGED <<vars, monitorVars>>

(* A monitor's timer calls back, or time passes.                           *)
ExpireMonitor ==
  /\ \E timer \in timers : M!Expire(timer)
  /\ reply' = NoReply
  /\ notices' = {}
  /\ UNCHANGED vars

Tick ==
  /\ M!Tick
  /\ reply' = NoReply
  /\ notices' = {}
  /\ UNCHANGED vars

-----------------------------------------------------------------------------

HandleKnown(f) ==
  \/ QueryAvailability(f)
  \/ \E slot \in Requests : BookFacility(f, slot)
  \/ \E id \in Ids :
       \/ CancelBookFacility(f, id)
       \/ \E m \in Offsets : ModifyBookFacility(f, id, m) \/ ExtendBookFacility(f, id, m)
  \/ \E client \in Clients, slot \in M!Slot, i \in Intervals :
       RegisterMonitorClient(f, client, slot, i)

HandleReceive ==
  \/ \E f \in Facilities : HandleKnown(f)
  \/ \E operation \in Operations :
       Malformed(operation) \/ \E name \in Names : GetFacilityThrows(name, operation)

ServerNext == HandleReceive \/ ExpireMonitor \/ Tick

ServerSpec == ServerInit /\ [][ServerNext]_serverVars

-----------------------------------------------------------------------------
(* Properties.                                                             *)

(* The variables of the parts have their types, and a reply its status.    *)
ServerTypeOK ==
  /\ TypeOK
  /\ M!TypeOK
  /\ reply \in [operation : Operations \cup {"none"}, status : {Success, Failure}]

(* Whether a query would report a half hour of a facility available.       *)
Available(f, h) == IsAvailable(availableSlots[f], h)

Watches(m, f, h) ==
  /\ m.facility = f
  /\ m.day = h.day
  /\ m.endTime > h.startTime /\ m.startTime < h.endTime

(* No client that monitors a half hour is left with stale news: whatever   *)
(* operation makes the half hour free or takes it, and however it is moved *)
(* or extended, the step tells each monitor of it, and tells the state it  *)
(* is in afterwards.                                                       *)
ChangesNotified ==
  [][ \A f \in Facilities, h \in HalfHours, m \in monitors :
        Watches(m, f, h) /\ (Available(f, h) # Available(f, h)') =>
          [monitor |-> m.id, slot |-> h, available |-> Available(f, h)'] \in notices'
    ]_serverVars

(* "Notify monitoring clients when availability changes": an update tells  *)
(* a client of a half hour whose availability has changed.                 *)
OnlyChangesNotified ==
  [][ \A f \in Facilities, m \in monitors, n \in notices' :
        n.monitor = m.id /\ m.facility = f =>
          Available(f, n.slot) # Available(f, n.slot)' ]_serverVars

(* "0 = success, 1 = error": a request answered with an error has changed  *)
(* nothing, neither a booking nor the offer nor a registration, though a   *)
(* failed move has changed the offer and changed it back.                  *)
ErrorsChangeNothing ==
  [][ reply'.status = Failure => UNCHANGED <<availableSlots, bookings, monitors>> ]_serverVars
=============================================================================
