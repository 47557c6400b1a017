--------------------------- MODULE MonitorsProofs ---------------------------
(***************************************************************************)
(* Theorems about Monitors: its types, and that every registration has the *)
(* callback to come that will remove it.                                   *)
(***************************************************************************)
EXTENDS Monitors, TLAPS

(* The record a registration adds is a MonitorInfo.                        *)
LEMMA InfoType ==
  ASSUME TypeOK, registered < MaxMonitors,
         NEW f \in Facilities, NEW client \in Clients, NEW slot \in Slot, NEW i \in Intervals
  PROVE  [id        |-> registered + 1,
          facility  |-> f,
          client    |-> client,
          day       |-> slot.day,
          startTime |-> slot.startTime,
          endTime   |-> slot.endTime,
          due       |-> clock + i] \in MonitorInfo
<1>1. slot.day \in Days /\ slot.startTime \in UInt16 /\ slot.endTime \in UInt16
  BY MonitorsAssumption DEF Slot
<1>2. registered + 1 \in 1..MaxMonitors /\ clock + i \in Nat
  BY MonitorsAssumption DEF TypeOK
<1> QED BY <1>1, <1>2 DEF MonitorInfo

(* Every reachable state of the registrations has its type.                *)
THEOREM TypeCorrect == Spec => []TypeOK
<1>1. Init => TypeOK
  BY MonitorsAssumption DEF Init, TypeOK
<1>2. TypeOK /\ [Next]_vars => TypeOK'
  <2> SUFFICES ASSUME TypeOK, [Next]_vars PROVE TypeOK'
    OBVIOUS
  <2>1. CASE UNCHANGED vars
    BY <2>1 DEF vars, TypeOK
  <2>2. CASE Tick
    BY <2>2 DEF Tick, TypeOK
  <2>3. ASSUME NEW timer \in timers, Expire(timer)
        PROVE  TypeOK'
    BY <2>3 DEF Expire, Kept, TypeOK
  <2>4. ASSUME NEW f \in Facilities, NEW client \in Clients, NEW slot \in Slot, NEW i \in Intervals,
               RegisterMonitorClient(f, client, slot, i)
        PROVE  TypeOK'
    <3>1. PICK info \in MonitorInfo :
             monitors' = monitors \cup {info} /\ timers' = timers \cup {info}
      BY <2>4, InfoType DEF RegisterMonitorClient
    <3>2. registered' \in 0..MaxMonitors /\ clock' = clock
      BY <2>4, MonitorsAssumption DEF RegisterMonitorClient, TypeOK
    <3> QED BY <3>1, <3>2 DEF TypeOK
  <2> QED BY <2>1, <2>2, <2>3, <2>4 DEF Next
<1> QED BY <1>1, <1>2, PTL DEF Spec

(* Whatever clients register and however their timers come due, an entry   *)
(* of the map has its timer pending: a callback that removes the entries   *)
(* of others never leaves one behind whose own callback is over.           *)
THEOREM AllTimed == Spec => []EveryMonitorTimed
<1>1. Init => EveryMonitorTimed
  BY DEF Init, EveryMonitorTimed
<1>2. EveryMonitorTimed /\ [Next]_vars => EveryMonitorTimed'
  <2> SUFFICES ASSUME EveryMonitorTimed, [Next]_vars PROVE EveryMonitorTimed'
    OBVIOUS
  <2>1. CASE UNCHANGED vars
    BY <2>1 DEF vars, EveryMonitorTimed
  <2>2. CASE Tick
    BY <2>2 DEF Tick, EveryMonitorTimed
  <2>3. ASSUME NEW timer \in timers, Expire(timer)
        PROVE  EveryMonitorTimed'
    <3>1. timer \notin Kept(timer) /\ Kept(timer) \subseteq monitors
      BY DEF Kept
    <3> QED BY <2>3, <3>1 DEF Expire, EveryMonitorTimed
  <2>4. ASSUME NEW f \in Facilities, NEW client \in Clients, NEW slot \in Slot, NEW i \in Intervals,
               RegisterMonitorClient(f, client, slot, i)
        PROVE  EveryMonitorTimed'
    BY <2>4 DEF RegisterMonitorClient, EveryMonitorTimed
  <2> QED BY <2>1, <2>2, <2>3, <2>4 DEF Next
<1> QED BY <1>1, <1>2, PTL DEF Spec
=============================================================================
