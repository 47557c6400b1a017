------------------------------ MODULE Calendar ------------------------------
(***************************************************************************)
(* What the booking service promises, without vectors or clock arithmetic: *)
(* a facility is a set of half hours; a booking holds a run of consecutive *)
(* ones that nobody else holds; what no booking holds is free.             *)
(***************************************************************************)
EXTENDS Slots, FiniteSets

CONSTANTS
  Facilities,    \* names of the facilities
  Offered,       \* the half hours each facility is opened with
  Ids            \* booking IDs

VARIABLES
  free,          \* [facility -> half hours nobody holds]
  held           \* [facility -> [booking ID -> half hours it holds]]

vars == <<free, held>>

Init ==
  /\ free = Offered
  /\ held = [f \in Facilities |-> << >>]

(* The half hours of one day from one to another, both included.           *)
Run(first, last) ==
  { h \in HalfHours : /\ h.day = first.day
                      /\ first.startTime <= h.startTime
                      /\ h.startTime <= last.startTime }

(* The runs of consecutive half hours between two that a facility offers.  *)
Runs ==
  [f \in Facilities |-> { Run(first, last) : first, last \in Offered[f] } \ {{}}]

(* Booking id of facility f, new or known, now holds S and nothing else.   *)
Assign(f, id, S) ==
  LET old == IF id \in DOMAIN held[f] THEN held[f][id] ELSE {}
  IN  /\ S \subseteq free[f] \cup old
      /\ free' = [free EXCEPT ![f] = (@ \cup old) \ S]
      /\ held' = [held EXCEPT ![f] =
                    [i \in DOMAIN @ \cup {id} |-> IF i = id THEN S ELSE @[i]]]

(* A booking of no half hours at all is possible: BOOK accepts an interval *)
(* whose start is its end.                                                 *)
Open(f, id, S) ==
  /\ \A g \in Facilities : id \notin DOMAIN held[g]
  /\ Assign(f, id, S)

(* A move keeps the day and the length.                                    *)
Move(f, id, S) ==
  /\ id \in DOMAIN held[f]
  /\ Cardinality(S) = Cardinality(held[f][id])
  /\ \A g \in S, h \in held[f][id] : g.day = h.day
  /\ Assign(f, id, S)

(* An extension keeps every half hour and adds later ones.                 *)
Extend(f, id, S) ==
  /\ id \in DOMAIN held[f]
  /\ held[f][id] \subseteq S
  /\ S # held[f][id]
  /\ \A h \in held[f][id], g \in S \ held[f][id] : h.startTime < g.startTime
  /\ Assign(f, id, S)

Close(f, id) ==
  /\ id \in DOMAIN held[f]
  /\ free' = [free EXCEPT ![f] = @ \cup held[f][id]]
  /\ held' = [held EXCEPT ![f] = [i \in DOMAIN @ \ {id} |-> @[i]]]

(* A request that cannot be met changes nothing.                           *)
Refuse == UNCHANGED vars

Next ==
  \/ Refuse
  \/ \E f \in Facilities, id \in Ids :
       \/ Close(f, id)
       \/ Open(f, id, {})
       \/ \E S \in Runs[f] : Open(f, id, S) \/ Move(f, id, S) \/ Extend(f, id, S)

Spec == Init /\ [][Next]_vars

=============================================================================
