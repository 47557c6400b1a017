------------------------------ MODULE Monitors ------------------------------
(***************************************************************************)
(* The clients that monitor a facility (monitoringClients) and the timers  *)
(* that end their registrations.  A MONITOR request adds an entry to the   *)
(* map and starts a timer whose callback holds on to it; the callback      *)
(* removes from the map what the client has on that facility.  Handlers    *)
(* and callbacks run one at a time, a callback at any moment from when its *)
(* timer is due.                                                           *)
(***************************************************************************)
EXTENDS Slots, FiniteSets

CONSTANTS
  Facilities,     \* names of the facilities
  Clients,        \* client endpoints
  MonitorTimes,   \* HHMM values a MONITOR request may carry
  Intervals,      \* how long it may ask to be kept
  MaxMonitors,    \* bound: no more registrations than this
  MaxTime         \* bound: the clock stops here

ASSUME MonitorsAssumption ==
  /\ MonitorTimes \subseteq UInt16
  /\ Intervals \subseteq Nat
  /\ MaxMonitors \in Nat
  /\ MaxTime \in Nat

VARIABLES
  clock,      \* steady_clock
  registered, \* registrations made so far; numbers them
  monitors,   \* the registrations in monitoringClients
  timers      \* the registrations whose timer has not called back

vars == <<clock, registered, monitors, timers>>

(* MonitorInfo, with the number of the registration (the map may hold two  *)
(* that are equal otherwise) and when its timer is due.                    *)
MonitorInfo ==
  [id : 1..MaxMonitors, facility : Facilities, client : Clients, day : Days,
   startTime : UInt16, endTime : UInt16, due : Nat]

-----------------------------------------------------------------------------

Init ==
  /\ clock = 0
  /\ registered = 0
  /\ monitors = {}
  /\ timers = {}

(* Mutant: no timer is started.                                            *)
RegisterMonitorClient_Untimed(f, client, slot, interval) ==
  /\ registered < MaxMonitors
  /\ registered' = registered + 1
  /\ monitors' = monitors \cup
       { [id        |-> registered + 1,
          facility  |-> f,
          client    |-> client,
          day       |-> slot.day,
          startTime |-> slot.startTime,
          endTime   |-> slot.endTime,
          due       |-> clock + interval] }
  /\ UNCHANGED <<clock, timers>>

(* registerMonitorClient.  The times are taken as they come.               *)
RegisterMonitorClient(f, client, slot, interval) ==
  /\ registered < MaxMonitors
  /\ registered' = registered + 1
  /\ LET info == [id        |-> registered + 1,
                  facility  |-> f,
                  client    |-> client,
                  day       |-> slot.day,
                  startTime |-> slot.startTime,
                  endTime   |-> slot.endTime,
                  due       |-> clock + interval]
     IN  /\ monitors' = monitors \cup {info}
         /\ timers' = timers \cup {info}
  /\ UNCHANGED clock

(* Mutant: != where the code compares endpoints with ==.                   *)
Kept_Inverted(timer) ==
  { m \in monitors : m.facility # timer.facility \/ m.client = timer.client }

(* What is left when a timer calls removeMonitorClient.                    *)
Kept(timer) ==
  { m \in monitors : m.facility # timer.facility \/ m.client # timer.client }

(* The timer of a registration calls back.                                 *)
Expire(timer) ==
  /\ timer \in timers
  /\ clock >= timer.due
  /\ timers' = timers \ {timer}
  /\ monitors' = Kept(timer)
  /\ UNCHANGED <<clock, registered>>

Tick ==
  /\ clock < MaxTime
  /\ clock' = clock + 1
  /\ UNCHANGED <<registered, monitors, timers>>

Slot == [day : Days, startTime : MonitorTimes, endTime : MonitorTimes]

Next ==
  \/ Tick
  \/ \E timer \in timers : Expire(timer)
  \/ \E f \in Facilities, client \in Clients, slot \in Slot, i \in Intervals :
       RegisterMonitorClient(f, client, slot, i)

Spec == Init /\ [][Next]_vars

(* io_context::run keeps calling back the timers that are due.             *)
Fairness ==
  \A id \in 1..MaxMonitors :
    WF_vars(\E timer \in timers : timer.id = id /\ Expire(timer))

FairSpec == Spec /\ Fairness

-----------------------------------------------------------------------------
(* Properties.                                                             *)

TypeOK ==
  /\ clock \in Nat
  /\ registered \in 0..MaxMonitors
  /\ monitors \subseteq MonitorInfo
  /\ timers \subseteq MonitorInfo

(* An entry of the map has its own timer pending: nothing stays registered *)
(* without a callback to come that removes it, however many registrations  *)
(* of the client the callbacks of others have removed before.              *)
EveryMonitorTimed == monitors \subseteq timers

(* A registration ends: once its interval is over it leaves the map.       *)
MonitorsEnd ==
  \A id \in 1..MaxMonitors :
    (\E m \in monitors : m.id = id /\ clock >= m.due)
      ~> (\A m \in monitors : m.id # id)

(* "Timer to auto-expire after the interval ends": a registration stays in *)
(* the map until its own interval is over.                                 *)
KeptForInterval ==
  [][\A m \in monitors \ monitors' : clock >= m.due]_vars
=============================================================================
