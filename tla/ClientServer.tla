---------------------------- MODULE ClientServer ----------------------------
(***************************************************************************)
(* Clients and the server's request cache, with the UDP network between.   *)
(* A client (Client.java) sends a request, resends it every Timeout until  *)
(* a datagram comes or GiveUp has passed, and takes whatever datagram it   *)
(* finds in its socket for the answer; a MONITOR request is followed by a  *)
(* loop that shows what comes in until the interval is over.  The network  *)
(* loses, delays, duplicates and reorders datagrams, but keeps none longer *)
(* than MaxDelay; a datagram that has reached a client waits in its socket *)
(* for as long as the client does not read it.                             *)
(*                                                                         *)
(* A tick is long (ten seconds, say) for the processes: a client that has  *)
(* something to do does it before the next one, and the server handles a   *)
(* datagram when it arrives.                                               *)
(***************************************************************************)
EXTENDS RequestCache

CONSTANTS
  Clients,       \* client endpoints
  MaxRequests,   \* bound: requests of one client
  Invocation,    \* the client's semantics, "most" or "least"
  Timeout,       \* how long a receive waits (10 s)
  GiveUp,        \* how long "most" goes on (30 s)
  Interval,      \* what a MONITOR request asks for
  MaxDelay,      \* environment: how long the network keeps a datagram
  Copies,        \* environment: how many datagrams it duplicates
  MaxUpdates,    \* bound: updates sent to one registration
  MaxInbox       \* bound: datagrams a client's socket holds

(* The loop of "most" resends only before GiveUp has passed, so a key is   *)
(* not sent later than this after it was sent first.                       *)
LastResend == GiveUp - 1

ASSUME ClientAssumption ==
  /\ Keys = Clients \X (1..MaxRequests)
  /\ MaxRequests \in Nat
  /\ Invocation \in {"most", "least"}
  /\ Timeout \in Nat \ {0}
  /\ GiveUp \in Nat \ {0}
  /\ Interval \in Nat
  /\ MaxDelay \in Nat
  /\ Copies \in Nat
  /\ MaxUpdates \in Nat
  /\ MaxInbox \in Nat \ {0}
  /\ Lifetime = LastResend + MaxDelay

VARIABLES
  counter,     \* [client -> requestIdCounter]
  phase,       \* [client -> "menu", "waiting" or "monitoring"]
  operation,   \* [client -> what its last request asks, "monitor" or "other"]
  started,     \* [client -> totalStartTime]
  deadline,    \* [client -> when its receive times out, or its monitoring ends]
  inbox,       \* [client -> datagrams in its socket, the next one first]
  requests,    \* datagrams on their way to the server
  responses,   \* datagrams on their way to a client
  copies,      \* environment: datagrams it may still duplicate
  registered,  \* [client -> when its registration at the server ends]
  updates,     \* [client -> updates sent under it]
  shown,       \* history: [client -> what it showed as answers, in order]
  disturbed    \* history: [client -> whether a datagram was sent that may
               \* be taken for the answer to another request: by a resend,
               \* as a duplicate, or as an update]

clientVars == <<counter, phase, operation, started, deadline>>
netVars == <<requests, responses, copies>>
monitorVars == <<registered, updates>>
allVars == <<vars, clientVars, netVars, inbox, monitorVars, shown, disturbed>>

-----------------------------------------------------------------------------
(* Datagrams.  An update carries the number 0: its requestId is never set. *)

Request(key, op, first) ==
  [key |-> key, operation |-> op, first |-> first, sent |-> now]

Answer(key) == [key |-> key, sent |-> now]

(* Of the network net, datagram d arrives; if duplicated, to arrive again. *)
Taken(net, d, again) ==
  IF again THEN copies > 0 /\ copies' = copies - 1 /\ net' = net
  ELSE net' = net \ {d} /\ UNCHANGED copies

InFlight(net, time) == { d \in net : time - d.sent <= MaxDelay }

Asked(c) == <<c, counter[c] - 1>>
UpdateFor(c) == <<c, 0>>

-----------------------------------------------------------------------------
(* The client.                                                             *)

ClientInit ==
  /\ Init
  /\ counter = [c \in Clients |-> 1]
  /\ phase = [c \in Clients |-> "menu"]
  /\ operation = [c \in Clients |-> "other"]
  /\ started = [c \in Clients |-> 0]
  /\ deadline = [c \in Clients |-> 0]
  /\ inbox = [c \in Clients |-> << >>]
  /\ requests = {}
  /\ responses = {}
  /\ copies = Copies
  /\ registered = [c \in Clients |-> 0]
  /\ updates = [c \in Clients |-> MaxUpdates]
  /\ shown = [c \in Clients |-> << >>]
  /\ disturbed = [c \in Clients |-> FALSE]

(* Bound: a request is made only if the clock has room for its wait.       *)
Send(c, op) ==
  /\ phase[c] = "menu"
  /\ counter[c] <= MaxRequests
  /\ now + GiveUp + Interval <= MaxTime
  /\ counter' = [counter EXCEPT ![c] = @ + 1]
  /\ requests' = requests \cup {Request(<<c, counter[c]>>, op, now)}
  /\ phase' = [phase EXCEPT ![c] = "waiting"]
  /\ operation' = [operation EXCEPT ![c] = op]
  /\ started' = [started EXCEPT ![c] = now]
  /\ deadline' = [deadline EXCEPT ![c] = now + Timeout]
  /\ UNCHANGED <<vars, inbox, responses, copies, monitorVars, shown, disturbed>>

(* The next datagram in the socket is the answer, whatever it answers.     *)
Receive(c) ==
  /\ phase[c] = "waiting"
  /\ inbox[c] # << >>
  /\ inbox' = [inbox EXCEPT ![c] = Tail(@)]
  /\ shown' = [shown EXCEPT ![c] = Append(@, [asked |-> Asked(c), answer |-> Head(inbox[c])])]
  /\ IF operation[c] = "monitor"
     THEN /\ phase' = [phase EXCEPT ![c] = "monitoring"]
          /\ deadline' = [deadline EXCEPT ![c] = now + Interval]
     ELSE /\ phase' = [phase EXCEPT ![c] = "menu"]
          /\ deadline' = [deadline EXCEPT ![c] = 0]
  /\ started' = [started EXCEPT ![c] = 0]
  /\ UNCHANGED <<vars, counter, operation, netVars, monitorVars, disturbed>>

(* The locals of the loop go out of scope.                                 *)
Menu(c) ==
  /\ phase' = [phase EXCEPT ![c] = "menu"]
  /\ started' = [started EXCEPT ![c] = 0]
  /\ deadline' = [deadline EXCEPT ![c] = 0]

TimedOut(c) ==
  /\ phase[c] = "waiting"
  /\ inbox[c] = << >>
  /\ now >= deadline[c]

(* Mutant: <= where the code has <.                                        *)
Persists_Late(c) == Invocation = "least" \/ now - started[c] <= GiveUp

(* Mutant: a timeout ends the loop.                                        *)
Persists_Never(c) == Invocation = "least"

(* Mutant: the loop that never gives up, in the wrong branch.              *)
Persists_Always(c) == TRUE

(* "least" goes on for ever, "most" until GiveUp.                          *)
Persists(c) == Invocation = "least" \/ now - started[c] < GiveUp

Resend(c) ==
  /\ TimedOut(c)
  /\ Persists(c)
  /\ requests' = requests \cup {Request(Asked(c), operation[c], started[c])}
  /\ deadline' = [deadline EXCEPT ![c] = now + Timeout]
  /\ disturbed' = [disturbed EXCEPT ![c] = TRUE]
  /\ UNCHANGED <<vars, counter, phase, operation, started, inbox, responses, copies, monitorVars, shown>>

(* "Error: No response received", and back to the menu.                    *)
NoResponse(c) ==
  /\ TimedOut(c)
  /\ ~Persists(c)
  /\ Menu(c)
  /\ UNCHANGED <<vars, counter, operation, inbox, netVars, monitorVars, shown, disturbed>>

ShowUpdate(c) ==
  /\ phase[c] = "monitoring"
  /\ now < deadline[c]
  /\ inbox[c] # << >>
  /\ inbox' = [inbox EXCEPT ![c] = Tail(@)]
  /\ UNCHANGED <<vars, clientVars, netVars, monitorVars, shown, disturbed>>

(* What is in the socket by then stays there.                              *)
EndMonitoring(c) ==
  /\ phase[c] = "monitoring"
  /\ now >= deadline[c]
  /\ Menu(c)
  /\ UNCHANGED <<vars, counter, operation, inbox, netVars, monitorVars, shown, disturbed>>

-----------------------------------------------------------------------------
(* The network and the server.                                             *)

(* A request arrives; a copy of it may arrive again.                       *)
Handle(d, again) ==
  LET c == d.key[1]
  IN  /\ Taken(requests, d, again)
      /\ \/ /\ Replay(d.key)
            /\ UNCHANGED monitorVars
         \/ /\ Execute(d.key, 0, 0)
            /\ IF d.operation = "monitor"
               THEN /\ registered' = [registered EXCEPT ![c] = now + Interval]
                    /\ updates' = [updates EXCEPT ![c] = 0]
               ELSE UNCHANGED monitorVars
      /\ responses' = responses \cup {Answer(d.key)}
      /\ disturbed' = [disturbed EXCEPT ![c] = @ \/ again]
      /\ UNCHANGED <<clientVars, inbox, shown>>

(* Somebody changes what a registered client monitors.                     *)
Update(c) ==
  /\ updates[c] < MaxUpdates
  /\ now <= registered[c]
  /\ updates' = [updates EXCEPT ![c] = @ + 1]
  /\ responses' = responses \cup {Answer(UpdateFor(c))}
  /\ disturbed' = [disturbed EXCEPT ![c] = TRUE]
  /\ UNCHANGED <<vars, clientVars, requests, copies, inbox, registered, shown>>

(* A datagram for a client arrives; a full socket drops it.                *)
Deliver(d, again) ==
  LET c == d.key[1]
  IN  /\ Taken(responses, d, again)
      /\ inbox' = [inbox EXCEPT ![c] = IF Len(@) < MaxInbox THEN Append(@, d.key) ELSE @]
      /\ disturbed' = [disturbed EXCEPT ![c] = @ \/ again]
      /\ UNCHANGED <<vars, clientVars, requests, monitorVars, shown>>

(* A client that a datagram or the clock has woken.                        *)
Awake(c) ==
  /\ phase[c] # "menu"
  /\ inbox[c] # << >> \/ now >= deadline[c]

(* Time passes, and with it what the network has kept too long.            *)
TimePasses ==
  /\ \A c \in Clients : ~Awake(c)
  /\ Tick
  /\ requests' = InFlight(requests, now')
  /\ responses' = InFlight(responses, now')
  /\ UNCHANGED <<clientVars, copies, inbox, monitorVars, shown, disturbed>>

-----------------------------------------------------------------------------

ClientStep(c) ==
  Receive(c) \/ Resend(c) \/ NoResponse(c) \/ ShowUpdate(c) \/ EndMonitoring(c)

ClientNext ==
  \/ TimePasses
  \/ \E c \in Clients :
       \/ \E op \in {"other", "monitor"} : Send(c, op)
       \/ ClientStep(c)
       \/ Update(c)
  \/ \E again \in BOOLEAN :
       \/ \E d \in requests : Handle(d, again)
       \/ \E d \in responses : Deliver(d, again)

(* The clock runs and the client's process does; the network and the user  *)
(* owe nothing.                                                            *)
Fairness == WF_allVars(TimePasses) /\ \A c \in Clients : WF_allVars(ClientStep(c))

ClientSpec == ClientInit /\ [][ClientNext]_allVars

FairClientSpec == ClientSpec /\ Fairness

-----------------------------------------------------------------------------
(* Properties.                                                             *)

ClientTypeOK ==
  /\ TypeOK
  /\ counter \in [Clients -> 1..(MaxRequests + 1)]
  /\ phase \in [Clients -> {"menu", "waiting", "monitoring"}]
  /\ operation \in [Clients -> {"other", "monitor"}]
  /\ started \in [Clients -> Nat] /\ deadline \in [Clients -> Nat]
  /\ inbox \in [Clients -> Seq(Clients \X (0..MaxRequests))]
  /\ requests \subseteq [key : Keys, operation : {"other", "monitor"}, first : Nat, sent : Nat]
  /\ responses \subseteq [key : Clients \X (0..MaxRequests), sent : Nat]
  /\ copies \in 0..Copies
  /\ registered \in [Clients -> Nat] /\ updates \in [Clients -> 0..MaxUpdates]
  /\ disturbed \in [Clients -> BOOLEAN]

(* What the request cache relies on, clients of "most" semantics and the   *)
(* network give it: whatever is lost, delayed or duplicated within         *)
(* MaxDelay, no request reaches the server later than Lifetime after it    *)
(* first did, and each arrival is one step of RequestCache.                *)
RetriesInTime == Spec

(* End to end, the answer to a request tells the user that it was executed *)
(* and that it was executed once, through all its resends and duplicates,  *)
(* as long as the server has room to remember.                             *)
ExactlyOnce ==
  Cardinality(DOMAIN firstSeen) <= MaxProcessed =>
    \A c \in Clients : \A i \in DOMAIN shown[c] :
      LET a == shown[c][i]
      IN  a.answer = a.asked =>
            Cardinality({ n \in DOMAIN executed : executed[n].key = a.asked }) = 1

(* A client that has resent nothing, of whose datagrams none was           *)
(* duplicated and to which no update was sent shows for every request its  *)
(* own answer, though it compares no request IDs: whatever is delayed or   *)
(* lost, it gives up no request whose answer may still come.  (To give up  *)
(* takes a resend first, and that disturbs; a client that gave up at once  *)
(* would not be disturbed, and would take the late answer for the next.)   *)
OwnAnswers ==
  \A c \in Clients :
    ~disturbed[c] => \A i \in DOMAIN shown[c] : shown[c][i].answer = shown[c][i].asked

(* The user always gets the menu back: neither the resends nor the updates *)
(* of a monitor keep a client in its loops.                                *)
ReturnsToMenu ==
  \A c \in Clients : phase[c] # "menu" ~> phase[c] = "menu"
=============================================================================
