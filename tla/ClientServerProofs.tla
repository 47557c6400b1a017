------------------------- MODULE ClientServerProofs -------------------------
(***************************************************************************)
(* Theorems about ClientServer: clients and network are an environment as  *)
(* RequestCache assumes it, so what is proved of RequestCache holds of the *)
(* whole; and an answer that a client shows is one of a request that was   *)
(* executed.                                                               *)
(***************************************************************************)
EXTENDS ClientServer, RequestCacheProofs

(* What the clients' actions do to the variables of RequestCache.          *)
LEMMA ClientCases ==
  ASSUME [ClientNext]_allVars
  PROVE  \/ UNCHANGED allVars
         \/ TimePasses
         \/ \E c \in Clients : (\E op \in {"other", "monitor"} : Send(c, op)) \/ Resend(c)
         \/ \E c \in Clients :
              Receive(c) \/ NoResponse(c) \/ ShowUpdate(c) \/ EndMonitoring(c) \/ Update(c)
         \/ \E d \in requests, again \in BOOLEAN : Handle(d, again)
         \/ \E d \in responses, again \in BOOLEAN : Deliver(d, again)
BY DEF ClientNext, ClientStep

-----------------------------------------------------------------------------
(* A request on its way was made, and sent no later than LastResend after  *)
(* its user made it; what the server has seen was made before that.        *)

Numbers ==
  /\ now \in Nat
  /\ counter \in [Clients -> Nat \ {0}]
  /\ \A c \in Clients : counter[c] <= MaxRequests + 1
  /\ started \in [Clients -> Nat] /\ deadline \in [Clients -> Nat]
  /\ phase \in [Clients -> {"menu", "waiting", "monitoring"}]
  /\ operation \in [Clients -> {"other", "monitor"}]

Made(k) == k \in Keys /\ k[2] < counter[k[1]]

SentInTime ==
  \A d \in requests :
    /\ Made(d.key)
    /\ d.first \in Nat /\ d.sent \in Nat
    /\ d.first <= d.sent /\ d.sent <= d.first + LastResend /\ d.sent <= now
    /\ now - d.sent <= MaxDelay
    /\ d.key \in DOMAIN firstSeen => d.first <= firstSeen[d.key]

SeenAfter ==
  /\ \A k \in DOMAIN firstSeen : Made(k) /\ firstSeen[k] \in Nat
  /\ \A c \in Clients :
       phase[c] = "waiting" =>
         /\ started[c] <= now /\ counter[c] > 1
         /\ Asked(c) \in DOMAIN firstSeen => started[c] <= firstSeen[Asked(c)]

TimeInv == Numbers /\ SentInTime /\ SeenAfter

LEMMA TimeInit == ClientInit => TimeInv
BY ClientAssumption DEF ClientInit, Init, TimeInv, Numbers, SentInTime, SeenAfter, Made

(* A request that arrives is not too late.                                 *)
LEMMA ArrivesInTime ==
  ASSUME TimeInv, NEW d \in requests
  PROVE  Timely(d.key) /\ d.key \in Keys
<1>1. d.first \in Nat /\ d.sent \in Nat /\ now \in Nat /\ d.sent <= d.first + LastResend
      /\ now - d.sent <= MaxDelay /\ d.key \in Keys
  BY DEF TimeInv, Numbers, SentInTime, Made
<1>2. ASSUME d.key \in DOMAIN firstSeen PROVE now - firstSeen[d.key] <= Lifetime
  <2>1. d.first <= firstSeen[d.key] /\ firstSeen[d.key] \in Nat
    BY <1>2 DEF TimeInv, SentInTime, SeenAfter
  <2>2. LastResend \in Int /\ MaxDelay \in Nat /\ Lifetime = LastResend + MaxDelay
    BY ClientAssumption DEF LastResend
  <2> QED BY <1>1, <2>1, <2>2
<1> QED BY <1>1, <1>2 DEF Timely

(* So each step is one that RequestCache allows.                           *)
LEMMA CacheStep ==
  ASSUME TimeInv, [ClientNext]_allVars
  PROVE  [Next]_vars
<1>1. CASE UNCHANGED allVars
  BY <1>1 DEF allVars
<1>2. CASE TimePasses
  BY <1>2 DEF TimePasses, Next
<1>3. ASSUME NEW c \in Clients,
             (\E op \in {"other", "monitor"} : Send(c, op)) \/ Resend(c)
      PROVE  [Next]_vars
  BY <1>3 DEF Send, Resend
<1>4. ASSUME NEW c \in Clients,
             Receive(c) \/ NoResponse(c) \/ ShowUpdate(c) \/ EndMonitoring(c) \/ Update(c)
      PROVE  [Next]_vars
  BY <1>4 DEF Receive, NoResponse, ShowUpdate, EndMonitoring, Update
<1>5. ASSUME NEW d \in requests, NEW again \in BOOLEAN, Handle(d, again)
      PROVE  [Next]_vars
  <2>1. Replay(d.key) \/ Execute(d.key, 0, 0)
    BY <1>5 DEF Handle
  <2> QED BY <2>1, ArrivesInTime DEF Next, Statuses
<1>6. ASSUME NEW d \in responses, NEW again \in BOOLEAN, Deliver(d, again)
      PROVE  [Next]_vars
  BY <1>6 DEF Deliver
<1> QED BY <1>1, <1>2, <1>3, <1>4, <1>5, <1>6, ClientCases

-----------------------------------------------------------------------------
(* The invariant, action by action.                                        *)

(* What was made stays made, for the counters only grow.                   *)
LEMMA MadeKept ==
  ASSUME Numbers, NEW k, Made(k), NEW c \in Clients,
         counter' = counter \/ counter' = [counter EXCEPT ![c] = @ + 1]
  PROVE  Made(k)'
<1>1. k[1] \in Clients /\ k[2] \in Nat
  BY ClientAssumption DEF Made
<1>2. counter[k[1]] \in Nat /\ counter'[k[1]] >= counter[k[1]]
  BY <1>1 DEF Numbers
<1>3. k[2] < counter'[k[1]]
  <2>1. counter'[k[1]] \in Nat
    BY <1>1 DEF Numbers
  <2> QED BY <1>1, <1>2, <2>1 DEF Made
<1> QED BY <1>3 DEF Made

LEMMA AskedNumber ==
  ASSUME Numbers, NEW c \in Clients, counter[c] > 1
  PROVE  Made(Asked(c))
<1>1. counter[c] - 1 \in 1..MaxRequests /\ counter[c] - 1 < counter[c]
  BY ClientAssumption DEF Numbers
<1> QED BY <1>1, ClientAssumption DEF Made, Asked

LEMMA SendKeeps ==
  ASSUME TimeInv, NEW c \in Clients, NEW op \in {"other", "monitor"}, Send(c, op)
  PROVE  TimeInv'
<1>0. PICK key : key = <<c, counter[c]>>
  OBVIOUS
<1>1. /\ counter[c] \in Nat \ {0} /\ counter[c] <= MaxRequests /\ now \in Nat /\ now' = now
      /\ firstSeen' = firstSeen
      /\ counter' = [counter EXCEPT ![c] = @ + 1]
      /\ phase' = [phase EXCEPT ![c] = "waiting"]
      /\ started' = [started EXCEPT ![c] = now]
  BY DEF TimeInv, Numbers, Send, vars
<1>2. key \in Keys /\ key \notin DOMAIN firstSeen /\ Made(key)'
  <2>1. key \in Keys
    BY <1>0, <1>1, ClientAssumption
  <2>2. key \notin DOMAIN firstSeen
    BY <1>0, <1>1 DEF TimeInv, SeenAfter, Made
  <2>3. counter'[c] = counter[c] + 1
    BY <1>1 DEF TimeInv, Numbers
  <2>4. key[1] = c /\ key[2] = counter[c]
    BY <1>0
  <2> QED BY <1>1, <2>1, <2>2, <2>3, <2>4 DEF Made
<1>3. \A k : Made(k) => Made(k)'
  BY <1>1, MadeKept DEF TimeInv
<1>4. Numbers'
  <2>1. counter' \in [Clients -> Nat \ {0}] /\ \A b \in Clients : counter'[b] <= MaxRequests + 1
    BY <1>1, ClientAssumption DEF TimeInv, Numbers
  <2>2. now + Timeout \in Nat
    BY <1>1, ClientAssumption
  <2> QED BY <1>1, <2>1, <2>2 DEF TimeInv, Numbers, Send
<1>5. SentInTime'
  <2>1. PICK n : n = [key |-> key, operation |-> op, first |-> now, sent |-> now]
    OBVIOUS
  <2>2. requests' = requests \cup {n}
    BY <1>0, <2>1 DEF Send, Request
  <2>3. LastResend \in Nat /\ MaxDelay \in Nat
    BY ClientAssumption DEF LastResend
  <2>4. ASSUME NEW d \in requests'
        PROVE  /\ Made(d.key)'
               /\ d.first \in Nat /\ d.sent \in Nat
               /\ d.first <= d.sent /\ d.sent <= d.first + LastResend /\ d.sent <= now
               /\ now - d.sent <= MaxDelay
               /\ d.key \in DOMAIN firstSeen => d.first <= firstSeen[d.key]
    <3>1. CASE d = n
      BY <1>1, <1>2, <2>1, <2>3, <3>1
    <3>2. CASE d \in requests
      BY <1>3, <3>2 DEF TimeInv, SentInTime
    <3> QED BY <2>2, <3>1, <3>2
  <2> QED BY <1>1, <2>4 DEF SentInTime
<1>6. SeenAfter'
  <2>1. \A k \in DOMAIN firstSeen' : Made(k)' /\ firstSeen'[k] \in Nat
    BY <1>1, <1>3 DEF TimeInv, SeenAfter
  <2>2. ASSUME NEW b \in Clients, phase'[b] = "waiting"
        PROVE  /\ started'[b] <= now' /\ counter'[b] > 1
               /\ Asked(b)' \in DOMAIN firstSeen' => started'[b] <= firstSeen'[Asked(b)']
    <3>1. CASE b = c
      <4>1. Asked(b)' = key /\ counter'[b] > 1 /\ started'[b] = now
        BY <1>0, <1>1, <3>1 DEF TimeInv, Numbers, Asked
      <4> QED BY <1>1, <1>2, <4>1
    <3>2. CASE b # c
      <4>1. phase[b] = "waiting" /\ started'[b] = started[b] /\ Asked(b)' = Asked(b)
            /\ counter'[b] = counter[b]
        BY <1>1, <2>2, <3>2 DEF TimeInv, Numbers, Asked
      <4> QED BY <1>1, <4>1 DEF TimeInv, SeenAfter
    <3> QED BY <3>1, <3>2
  <2> QED BY <2>1, <2>2 DEF SeenAfter
<1> QED BY <1>4, <1>5, <1>6 DEF TimeInv

LEMMA ResendKeeps ==
  ASSUME TimeInv, Invocation = "most", NEW c \in Clients, Resend(c)
  PROVE  TimeInv'
<1>1. /\ UNCHANGED <<counter, phase, operation, started, firstSeen, now>>
      /\ phase[c] = "waiting" /\ started[c] \in Nat /\ now \in Nat /\ started[c] <= now
      /\ counter[c] > 1
  BY DEF TimeInv, Numbers, SeenAfter, Resend, TimedOut, vars
<1>2. Numbers'
  <2>1. now + Timeout \in Nat
    BY <1>1, ClientAssumption
  <2> QED BY <1>1, <2>1 DEF TimeInv, Numbers, Resend
<1>3. PICK n : n = [key |-> Asked(c), operation |-> operation[c], first |-> started[c], sent |-> now]
  OBVIOUS
<1>4. /\ n.key \in Keys /\ n.key[2] < counter[n.key[1]]
      /\ n.first = started[c] /\ n.sent = now
      /\ n.key \in DOMAIN firstSeen => n.first <= firstSeen[n.key]
  <2>1. n.key = Asked(c)
    BY <1>3
  <2> QED BY <1>1, <1>3, <2>1, AskedNumber DEF TimeInv, SeenAfter, Made
<1>5. now <= started[c] + LastResend
  <2>1. Invocation = "least" \/ now - started[c] < GiveUp
    BY DEF Resend, Persists
  <2>2. GiveUp \in Nat
    BY ClientAssumption
  <2> QED BY <1>1, <2>1, <2>2 DEF LastResend
<1>6. requests' = requests \cup {n}
  BY <1>3 DEF Resend, Request
<1>7. SentInTime'
  <2>1. MaxDelay \in Nat
    BY ClientAssumption
  <2>2. ASSUME NEW d \in requests'
        PROVE  /\ Made(d.key)
               /\ d.first \in Nat /\ d.sent \in Nat
               /\ d.first <= d.sent /\ d.sent <= d.first + LastResend /\ d.sent <= now
               /\ now - d.sent <= MaxDelay
               /\ d.key \in DOMAIN firstSeen => d.first <= firstSeen[d.key]
    <3>1. CASE d = n
      BY <1>1, <1>4, <1>5, <2>1, <3>1 DEF Made
    <3>2. CASE d \in requests
      BY <3>2 DEF TimeInv, SentInTime
    <3> QED BY <1>6, <3>1, <3>2
  <2> QED BY <1>1, <2>2 DEF SentInTime, Made
<1>8. SeenAfter'
  BY <1>1 DEF TimeInv, SeenAfter, Made, Asked
<1> QED BY <1>2, <1>7, <1>8 DEF TimeInv

(* The other steps of a client, and what is delivered to it.               *)
LEMMA ClientKeeps ==
  ASSUME TimeInv, NEW c \in Clients,
         \/ Receive(c) \/ NoResponse(c) \/ ShowUpdate(c) \/ EndMonitoring(c) \/ Update(c)
         \/ \E d \in responses, again \in BOOLEAN : Deliver(d, again)
  PROVE  TimeInv'
<1>1. /\ UNCHANGED <<counter, operation, firstSeen, now, requests>>
      /\ \/ UNCHANGED <<phase, started, deadline>>
         \/ /\ phase' = [phase EXCEPT ![c] = "menu"]
            /\ started' = [started EXCEPT ![c] = 0]
            /\ deadline' = [deadline EXCEPT ![c] = 0]
         \/ /\ phase' = [phase EXCEPT ![c] = "monitoring"]
            /\ started' = [started EXCEPT ![c] = 0]
            /\ deadline' = [deadline EXCEPT ![c] = now + Interval]
  BY DEF Receive, NoResponse, Menu, ShowUpdate, EndMonitoring, Update, Deliver,
         vars, clientVars, netVars
<1>2. now + Interval \in Nat
  BY ClientAssumption DEF TimeInv, Numbers
<1>3. Numbers'
  BY <1>1, <1>2 DEF TimeInv, Numbers
<1>4. SentInTime'
  BY <1>1 DEF TimeInv, SentInTime, Made
<1>5. SeenAfter'
  <2>1. \A k \in DOMAIN firstSeen' : Made(k)' /\ firstSeen'[k] \in Nat
    BY <1>1 DEF TimeInv, SeenAfter, Made
  <2>2. ASSUME NEW b \in Clients, phase'[b] = "waiting"
        PROVE  /\ started'[b] <= now' /\ counter'[b] > 1
               /\ Asked(b)' \in DOMAIN firstSeen' => started'[b] <= firstSeen'[Asked(b)']
    <3>1. phase[b] = "waiting" /\ started'[b] = started[b]
      BY <1>1, <2>2 DEF TimeInv, Numbers
    <3> QED BY <1>1, <3>1 DEF TimeInv, SeenAfter, Asked
  <2> QED BY <2>1, <2>2 DEF SeenAfter
<1> QED BY <1>3, <1>4, <1>5 DEF TimeInv

LEMMA HandleKeeps ==
  ASSUME TimeInv, NEW d \in requests, NEW again \in BOOLEAN, Handle(d, again)
  PROVE  TimeInv'
<1>1. /\ UNCHANGED <<now, counter, phase, operation, started, deadline>>
      /\ requests' \subseteq requests
      /\ Arrives(d.key)
  BY DEF Handle, Taken, Replay, Execute, clientVars
<1>2. /\ DOMAIN firstSeen' = DOMAIN firstSeen \cup {d.key}
      /\ \A k \in DOMAIN firstSeen : firstSeen'[k] = firstSeen[k]
      /\ d.key \notin DOMAIN firstSeen => firstSeen'[d.key] = now
  BY <1>1 DEF Arrives
<1>3. now \in Nat /\ Made(d.key)
  BY DEF TimeInv, Numbers, SentInTime
<1>4. Numbers'
  BY <1>1 DEF TimeInv, Numbers
<1>5. SentInTime'
  <2>1. ASSUME NEW e \in requests
        PROVE  e.key \in DOMAIN firstSeen' => e.first <= firstSeen'[e.key]
    <3>1. e.first \in Nat /\ e.sent \in Nat /\ e.first <= e.sent /\ e.sent <= now
      BY DEF TimeInv, SentInTime
    <3>2. e.first <= now
      BY <1>3, <3>1
    <3> QED BY <1>2, <3>2 DEF TimeInv, SentInTime
  <2> QED BY <1>1, <2>1 DEF TimeInv, SentInTime, Made
<1>6. SeenAfter'
  <2>1. \A k \in DOMAIN firstSeen' : Made(k)' /\ firstSeen'[k] \in Nat
    BY <1>1, <1>2, <1>3 DEF TimeInv, SeenAfter, Made
  <2>2. ASSUME NEW b \in Clients, phase[b] = "waiting", Asked(b) \in DOMAIN firstSeen'
        PROVE  started[b] <= firstSeen'[Asked(b)]
    BY <1>2, <2>2 DEF TimeInv, SeenAfter
  <2> QED BY <1>1, <2>1, <2>2 DEF TimeInv, SeenAfter, Asked
<1> QED BY <1>4, <1>5, <1>6 DEF TimeInv

LEMMA TimePassesKeeps ==
  ASSUME TimeInv, TimePasses
  PROVE  TimeInv'
<1>1. /\ now \in Nat /\ now' = now + 1 /\ now' \in Nat
      /\ UNCHANGED <<firstSeen, counter, phase, operation, started, deadline>>
      /\ requests' = { d \in requests : now' - d.sent <= MaxDelay }
  BY DEF TimeInv, Numbers, TimePasses, Tick, InFlight, clientVars
<1>2. Numbers'
  BY <1>1 DEF TimeInv, Numbers
<1>3. SentInTime'
  <2>1. ASSUME NEW d \in requests'
        PROVE  d.sent <= now' /\ now' - d.sent <= MaxDelay
    <3>1. d.sent \in Nat /\ d.sent <= now /\ now' - d.sent <= MaxDelay
      BY <1>1 DEF TimeInv, SentInTime
    <3> QED BY <1>1, <3>1
  <2>2. requests' \subseteq requests
    BY <1>1
  <2> QED BY <1>1, <2>1, <2>2 DEF TimeInv, SentInTime, Made
<1>4. SeenAfter'
  <2>1. ASSUME NEW b \in Clients, phase[b] = "waiting"
        PROVE  started[b] <= now'
    <3>1. started[b] \in Nat /\ started[b] <= now
      BY <2>1 DEF TimeInv, Numbers, SeenAfter
    <3> QED BY <1>1, <3>1
  <2> QED BY <1>1, <2>1 DEF TimeInv, SeenAfter, Made, Asked
<1> QED BY <1>2, <1>3, <1>4 DEF TimeInv

LEMMA TimeStep ==
  ASSUME Invocation = "most"
  PROVE  TimeInv /\ [ClientNext]_allVars => TimeInv'
<1> SUFFICES ASSUME TimeInv, [ClientNext]_allVars PROVE TimeInv'
  OBVIOUS
<1>1. CASE UNCHANGED allVars
  BY <1>1 DEF allVars, vars, clientVars, netVars, TimeInv, Numbers, SentInTime, SeenAfter,
              Made, Asked
<1>2. ASSUME NEW d \in responses, NEW again \in BOOLEAN, Deliver(d, again)
      PROVE  TimeInv'
  <2>1. CASE Clients = {}
    BY <1>2, <2>1 DEF Deliver, vars, clientVars, TimeInv, Numbers, SentInTime, SeenAfter,
                      Made, Asked
  <2>2. CASE Clients # {}
    BY <1>2, <2>2, ClientKeeps
  <2> QED BY <2>1, <2>2
<1> QED BY <1>1, <1>2, SendKeeps, ResendKeeps, ClientKeeps, HandleKeeps, TimePassesKeeps, ClientCases

LEMMA TimeInvariance ==
  ASSUME Invocation = "most"
  PROVE  ClientSpec => []TimeInv
<1>1. TimeInv /\ [ClientNext]_allVars => TimeInv'
  BY TimeStep
<1> QED BY <1>1, TimeInit, PTL DEF ClientSpec

(* Whatever the network does, the server's cache sees of clients that ask  *)
(* with "most" (as the program does; "least" resends for ever) what        *)
(* RequestCache assumes: RetriesInTime, for every number of clients and    *)
(* requests and all times that fit together.                               *)
THEOREM RetriesArriveInTime ==
  ASSUME Invocation = "most"
  PROVE  ClientSpec => RetriesInTime
<1>1. ClientInit => Init
  BY DEF ClientInit
<1>2. TimeInv /\ [ClientNext]_allVars => [Next]_vars
  BY CacheStep
<1> QED BY <1>1, <1>2, TimeInvariance, PTL DEF ClientSpec, RetriesInTime, Spec

(* So the whole executes no request twice until more have come than fit.   *)
THEOREM EndToEndAtMostOnce ==
  ASSUME ~AtLeastOnce, Prompt, Invocation = "most"
  PROVE  ClientSpec => []AtMostOnce
BY RetriesArriveInTime, ExecutedOnce, PTL DEF RetriesInTime

-----------------------------------------------------------------------------
(* Answers tell of executions.  A key that is cached, or in a response     *)
(* under way, in a socket or on a screen, is one of a request that was     *)
(* executed; updates (whose number is 0) apart.                            *)

Executed == { executed[i].key : i \in 1..Len(executed) }

(* Keys of clients that an answer may carry.                               *)
Told == { k \in Clients \X Nat : k[2] = 0 \/ k \in Executed }

Shown == [asked : Keys, answer : Told]

ToldInv ==
  /\ executed \in Seq([key : Keys, time : Nat, status : Statuses])
  /\ Cached \subseteq Executed
  /\ \A d \in responses : d.key \in Told
  /\ inbox \in [Clients -> Seq(Told)]
  /\ shown \in [Clients -> Seq(Shown)]

LEMMA ToldInit == ClientInit => ToldInv
BY DEF ClientInit, Init, ToldInv, Cached

(* More executions tell of more.                                           *)
LEMMA ToldMore ==
  ASSUME ToldInv, Executed \subseteq Executed'
  PROVE  /\ Told \subseteq Told'
         /\ inbox \in [Clients -> Seq(Told')]
         /\ shown \in [Clients -> Seq(Shown')]
<1>1. Told \subseteq Told'
  BY DEF Told
<1>2. Shown \subseteq Shown'
  BY <1>1 DEF Shown
<1>3. \A q \in Seq(Told) : q \in Seq(Told')
  BY <1>1
<1>4. \A q \in Seq(Shown) : q \in Seq(Shown')
  BY <1>2
<1> QED BY <1>1, <1>3, <1>4 DEF ToldInv

(* An execution, or the replay of one, makes its key one that is told.     *)
LEMMA HandleTells ==
  ASSUME TimeInv, ToldInv, NEW d \in requests, NEW again \in BOOLEAN, Handle(d, again)
  PROVE  /\ executed' \in Seq([key : Keys, time : Nat, status : Statuses])
         /\ Executed \subseteq Executed'
         /\ Cached' \subseteq Executed'
         /\ d.key \in Told'
<1>1. Timely(d.key) /\ d.key \in Keys /\ now \in Nat
  BY ArrivesInTime DEF TimeInv, Numbers
<1>2. d.key \in Clients \X Nat
  BY <1>1, ClientAssumption
<1>3. CASE Replay(d.key)
  <2>1. executed' = executed /\ Cached' = Cached /\ d.key \in Cached
    BY <1>3 DEF Replay, IsDuplicate, Cached
  <2> QED BY <1>2, <2>1 DEF ToldInv, Told, Executed
<1>4. CASE Execute(d.key, 0, 0)
  <2>1. PICK e : e = [key |-> d.key, time |-> now, status |-> 0]
    OBVIOUS
  <2>2. e \in [key : Keys, time : Nat, status : Statuses] /\ e.key = d.key
    BY <1>1, <2>1 DEF Statuses
  <2>3. executed' = Append(executed, e)
    BY <1>4, <2>1 DEF Execute
  <2>4. /\ executed' \in Seq([key : Keys, time : Nat, status : Statuses])
        /\ Len(executed') = Len(executed) + 1 /\ Len(executed) \in Nat
        /\ executed'[Len(executed) + 1] = e
        /\ \A i \in 1..Len(executed) : executed'[i] = executed[i]
    BY <2>2, <2>3 DEF ToldInv
  <2>5. Executed \subseteq Executed'
    BY <2>4 DEF Executed
  <2>6. d.key \in Executed'
    <3>1. Len(executed) + 1 \in 1..Len(executed')
      BY <2>4
    <3> QED BY <2>2, <2>4, <3>1 DEF Executed
  <2>7. Cached' \subseteq Cached \cup {d.key}
    <3>1. Executes(d.key)
      BY <1>1, <1>4 DEF Executes, Statuses
    <3> QED BY <3>1, CacheChange DEF Cached, KeysKept
  <2> QED BY <1>2, <2>4, <2>5, <2>6, <2>7 DEF ToldInv, Told
<1> QED BY <1>3, <1>4 DEF Handle

LEMMA ToldStep ==
  TimeInv /\ ToldInv /\ [ClientNext]_allVars => ToldInv'
<1> SUFFICES ASSUME TimeInv, ToldInv, [ClientNext]_allVars PROVE ToldInv'
  OBVIOUS
<1>0. UNCHANGED <<executed, processed>> =>
        Executed' = Executed /\ Cached' = Cached /\ Told' = Told /\ Shown' = Shown
  BY DEF Told, Shown, Executed, Cached
<1>1. CASE UNCHANGED <<executed, processed, responses, inbox, shown>>
  BY <1>0, <1>1 DEF ToldInv
<1>2. CASE TimePasses
  <2>1. UNCHANGED <<executed, processed, inbox, shown>> /\ responses' \subseteq responses
    BY <1>2 DEF TimePasses, Tick, InFlight
  <2> QED BY <1>0, <2>1 DEF ToldInv
<1>3. ASSUME NEW c \in Clients, Receive(c)
      PROVE  ToldInv'
  <2>1. /\ UNCHANGED <<executed, processed, responses>> /\ inbox[c] # << >>
        /\ inbox' = [inbox EXCEPT ![c] = Tail(inbox[c])]
        /\ phase[c] = "waiting"
    BY <1>3 DEF Receive, vars, netVars
  <2>2. PICK a : a = [asked |-> Asked(c), answer |-> Head(inbox[c])]
    OBVIOUS
  <2>3. inbox[c] \in Seq(Told) /\ Tail(inbox[c]) \in Seq(Told) /\ Head(inbox[c]) \in Told
    BY <2>1 DEF ToldInv
  <2>4. Asked(c) \in Keys
    BY <2>1, AskedNumber DEF TimeInv, SeenAfter, Made
  <2>5. a \in Shown
    BY <2>2, <2>3, <2>4 DEF Shown
  <2>6. shown' = [shown EXCEPT ![c] = Append(shown[c], a)]
    BY <1>3, <2>2 DEF Receive
  <2>7. inbox' \in [Clients -> Seq(Told)] /\ shown' \in [Clients -> Seq(Shown)]
    BY <2>1, <2>3, <2>5, <2>6 DEF ToldInv
  <2> QED BY <1>0, <2>1, <2>7 DEF ToldInv
<1>4. ASSUME NEW c \in Clients, ShowUpdate(c)
      PROVE  ToldInv'
  <2>1. /\ UNCHANGED <<executed, processed, responses, shown>> /\ inbox[c] # << >>
        /\ inbox' = [inbox EXCEPT ![c] = Tail(inbox[c])]
    BY <1>4 DEF ShowUpdate, vars, netVars
  <2>2. Tail(inbox[c]) \in Seq(Told)
    BY <2>1 DEF ToldInv
  <2>3. inbox' \in [Clients -> Seq(Told)]
    BY <2>1, <2>2 DEF ToldInv
  <2> QED BY <1>0, <2>1, <2>3 DEF ToldInv
<1>5. ASSUME NEW c \in Clients, Update(c)
      PROVE  ToldInv'
  <2>1. UNCHANGED <<executed, processed, inbox, shown>>
    BY <1>5 DEF Update, vars
  <2>2. PICK n : n = [key |-> <<c, 0>>, sent |-> now]
    OBVIOUS
  <2>3. responses' = responses \cup {n} /\ n.key \in Told
    BY <1>5, <2>2 DEF Update, Answer, UpdateFor, Told
  <2> QED BY <1>0, <2>1, <2>3 DEF ToldInv
<1>6. ASSUME NEW d \in requests, NEW again \in BOOLEAN, Handle(d, again)
      PROVE  ToldInv'
  <2>1. PICK n : n = [key |-> d.key, sent |-> now]
    OBVIOUS
  <2>2. responses' = responses \cup {n} /\ UNCHANGED <<inbox, shown>>
    BY <1>6, <2>1 DEF Handle, Answer
  <2>3. n.key = d.key
    BY <2>1
  <2>4. \A r \in responses : r.key \in Told'
    BY <1>6, HandleTells, ToldMore DEF ToldInv
  <2> QED BY <1>6, <2>2, <2>3, <2>4, HandleTells, ToldMore DEF ToldInv
<1>7. ASSUME NEW d \in responses, NEW again \in BOOLEAN, Deliver(d, again)
      PROVE  ToldInv'
  <2>1. /\ UNCHANGED <<executed, processed, shown>> /\ responses' \subseteq responses
    BY <1>7 DEF Deliver, Taken, vars
  <2>2. PICK c : c = d.key[1]
    OBVIOUS
  <2>3. d.key \in Told /\ c \in Clients
    BY <2>2 DEF ToldInv, Told
  <2>4. inbox[c] \in Seq(Told) /\ Append(inbox[c], d.key) \in Seq(Told)
    BY <2>3 DEF ToldInv
  <2>5. inbox' = inbox \/ inbox' = [inbox EXCEPT ![c] = Append(inbox[c], d.key)]
    BY <1>7, <2>2, <2>3 DEF Deliver, ToldInv
  <2>6. inbox' \in [Clients -> Seq(Told)]
    BY <2>4, <2>5 DEF ToldInv
  <2> QED BY <1>0, <2>1, <2>6 DEF ToldInv
<1> QED
  BY <1>1, <1>2, <1>3, <1>4, <1>5, <1>6, <1>7, ClientCases
     DEF allVars, vars, netVars, Send, Resend, NoResponse, EndMonitoring

(* The answer to a request tells that it was executed, and executed once.  *)
LEMMA AnswersTellOnce ==
  ToldInv /\ AtMostOnce => ExactlyOnce
<1> SUFFICES ASSUME ToldInv, AtMostOnce, Cardinality(DOMAIN firstSeen) <= MaxProcessed,
                    NEW c \in Clients, NEW i \in DOMAIN shown[c],
                    shown[c][i].answer = shown[c][i].asked
             PROVE  Cardinality({ n \in DOMAIN executed :
                                    executed[n].key = shown[c][i].asked }) = 1
  BY DEF ExactlyOnce
<1>1. PICK k : k = shown[c][i].asked
  OBVIOUS
<1>2. k \in Keys /\ k \in Told
  <2>1. shown[c][i] \in Shown
    BY DEF ToldInv
  <2> QED BY <1>1, <2>1 DEF Shown
<1>3. k[2] # 0
  BY <1>2, ClientAssumption
<1>4. PICK n \in DOMAIN executed : executed[n].key = k
  BY <1>2, <1>3 DEF Told, Executed, ToldInv
<1>5. { m \in DOMAIN executed : executed[m].key = k } = {n}
  BY <1>4 DEF AtMostOnce
<1>6. Cardinality({n}) = 1
  BY FS_Singleton
<1> QED BY <1>1, <1>5, <1>6

(* End to end, for clients that ask with "most" of a server that remembers *)
(* long enough: a request whose answer is shown was executed exactly once. *)
THEOREM AnsweredExactlyOnce ==
  ASSUME ~AtLeastOnce, Prompt, Invocation = "most"
  PROVE  ClientSpec => []ExactlyOnce
<1>1. ClientSpec => []ToldInv
  BY ToldInit, ToldStep, TimeInvariance, PTL DEF ClientSpec
<1> QED BY <1>1, AnswersTellOnce, EndToEndAtMostOnce, PTL
-----------------------------------------------------------------------------
(* A client that nothing has disturbed has at most one datagram under way, *)
(* the one its last request is in: the request, the answer to it, or that  *)
(* answer in its socket; none in the menu and while it monitors.  It waits *)
(* no longer than one timeout, for a client that resends is disturbed.     *)

Mine(net, c) == { d \in net : d.key[1] = c }

Nowhere(c) == Mine(requests, c) = {} /\ Mine(responses, c) = {} /\ inbox[c] = << >>

Asking(c) ==
  /\ \E d \in requests :
       Mine(requests, c) = {d} /\ d.key = Asked(c)
  /\ Mine(responses, c) = {} /\ inbox[c] = << >>

Answering(c) ==
  /\ Mine(requests, c) = {} /\ inbox[c] = << >>
  /\ \E d \in responses : Mine(responses, c) = {d} /\ d.key = Asked(c)

Answered(c) ==
  Mine(requests, c) = {} /\ Mine(responses, c) = {} /\ inbox[c] = <<Asked(c)>>

Underway(c) == Nowhere(c) \/ Asking(c) \/ Answering(c) \/ Answered(c)

ShowsOwn(c) == \A i \in DOMAIN shown[c] : shown[c][i].answer = shown[c][i].asked

Undisturbed(c) ==
  /\ ShowsOwn(c)
  /\ \/ phase[c] \in {"menu", "monitoring"} /\ Nowhere(c)
     \/ /\ phase[c] = "waiting" /\ Underway(c)
        /\ deadline[c] = started[c] + Timeout /\ now <= deadline[c]

OwnInv ==
  /\ disturbed \in [Clients -> BOOLEAN]
  /\ \A c \in Clients : ~disturbed[c] => Undisturbed(c)

LEMMA OwnInit == ClientInit => OwnInv
<1> SUFFICES ASSUME ClientInit PROVE OwnInv
  OBVIOUS
<1>1. ASSUME NEW c \in Clients PROVE Undisturbed(c)
  BY DEF ClientInit, Undisturbed, Nowhere, Mine, ShowsOwn
<1> QED BY <1>1 DEF ClientInit, OwnInv

(* Datagrams of others do not concern a client.                            *)
LEMMA NotMine ==
  ASSUME NEW net, NEW d, NEW c, d.key[1] # c
  PROVE  Mine(net \cup {d}, c) = Mine(net, c) /\ Mine(net \ {d}, c) = Mine(net, c)
BY DEF Mine

LEMMA Bystander ==
  ASSUME NEW b \in Clients, Undisturbed(b), now' = now,
         /\ shown'[b] = shown[b] /\ phase'[b] = phase[b] /\ inbox'[b] = inbox[b]
         /\ deadline'[b] = deadline[b] /\ started'[b] = started[b]
         /\ counter'[b] = counter[b],
         Mine(requests, b)' = Mine(requests, b), Mine(responses, b)' = Mine(responses, b)
  PROVE  Undisturbed(b)'
<1>1. Nowhere(b) => Nowhere(b)'
  BY DEF Nowhere
<1>2. Asking(b) => Asking(b)'
  BY DEF Asking, Asked, Mine
<1>3. Answering(b) => Answering(b)'
  BY DEF Answering, Asked, Mine
<1>4. Answered(b) => Answered(b)'
  BY DEF Answered, Asked
<1> QED BY <1>1, <1>2, <1>3, <1>4 DEF Undisturbed, Underway, ShowsOwn

(* Each action, seen by the client it is about and by the others.          *)

LEMMA OwnSend ==
  ASSUME TimeInv, OwnInv, NEW c \in Clients, NEW op \in {"other", "monitor"}, Send(c, op)
  PROVE  OwnInv'
<1>1. PICK n : n = [key |-> <<c, counter[c]>>, operation |-> op, first |-> now, sent |-> now]
  OBVIOUS
<1>2. /\ n.key = <<c, counter[c]>> /\ n.key[1] = c
      /\ requests' = requests \cup {n}
  BY <1>1 DEF Send, Request
<1>3. /\ phase[c] = "menu" /\ counter[c] \in Nat /\ now \in Nat /\ now' = now
      /\ counter' = [counter EXCEPT ![c] = @ + 1]
      /\ phase' = [phase EXCEPT ![c] = "waiting"]
      /\ started' = [started EXCEPT ![c] = now]
      /\ deadline' = [deadline EXCEPT ![c] = now + Timeout]
      /\ UNCHANGED <<inbox, responses, shown, disturbed>>
  BY DEF Send, TimeInv, Numbers, vars
<1>4. ASSUME ~disturbed[c]
      PROVE  Undisturbed(c)'
  <2>1. Undisturbed(c) /\ Nowhere(c)
    BY <1>3, <1>4 DEF OwnInv, Undisturbed
  <2>2. Mine(requests, c)' = {n} /\ Mine(responses, c)' = {}
    BY <1>2, <1>3, <2>1 DEF Nowhere, Mine
  <2>3. /\ counter'[c] = counter[c] + 1 /\ phase'[c] = "waiting"
        /\ started'[c] = now /\ deadline'[c] = now + Timeout
    BY <1>3, <2>1 DEF TimeInv, Numbers
  <2>4. Asked(c)' = <<c, counter[c]>>
    BY <1>3, <2>3 DEF Asked
  <2>5. n \in requests' /\ n.key = Asked(c)' /\ inbox'[c] = << >>
    BY <1>2, <1>3, <2>1, <2>4 DEF Nowhere
  <2>6. Asking(c)'
    BY <2>2, <2>5 DEF Asking
  <2>7. now' <= deadline'[c]
    BY <1>3, <2>3, ClientAssumption
  <2> QED BY <1>3, <2>1, <2>3, <2>6, <2>7 DEF Undisturbed, Underway, ShowsOwn
<1>5. ASSUME NEW b \in Clients, b # c, ~disturbed[b]
      PROVE  Undisturbed(b)'
  <2>1. Undisturbed(b)
    BY <1>5 DEF OwnInv
  <2>2. Mine(requests, b)' = Mine(requests, b) /\ Mine(responses, b)' = Mine(responses, b)
    BY <1>2, <1>3, <1>5, NotMine DEF Mine
  <2>3. /\ shown'[b] = shown[b] /\ phase'[b] = phase[b] /\ inbox'[b] = inbox[b]
        /\ deadline'[b] = deadline[b] /\ started'[b] = started[b]
        /\ counter'[b] = counter[b]
    BY <1>3, <1>5 DEF TimeInv, Numbers
  <2> QED BY <1>3, <1>5, <2>1, <2>2, <2>3, Bystander
<1> QED BY <1>3, <1>4, <1>5 DEF OwnInv

(* A resend disturbs its client.                                           *)
LEMMA OwnResend ==
  ASSUME TimeInv, OwnInv, NEW c \in Clients, Resend(c)
  PROVE  OwnInv'
<1>1. PICK n : n = [key |-> <<c, counter[c] - 1>>, operation |-> operation[c],
                    first |-> started[c], sent |-> now]
  OBVIOUS
<1>2. /\ n.key[1] = c /\ requests' = requests \cup {n}
  BY <1>1 DEF Resend, Request, Asked
<1>3. /\ now' = now /\ deadline' = [deadline EXCEPT ![c] = now + Timeout]
      /\ UNCHANGED <<inbox, responses, shown, counter, phase, started>>
  BY DEF Resend, vars
<1>4. disturbed' \in [Clients -> BOOLEAN]
  BY DEF OwnInv, Resend
<1>5. ASSUME NEW b \in Clients, ~disturbed'[b]
      PROVE  ~disturbed[b] /\ b # c
  BY <1>5, Zenon DEF OwnInv, Resend
<1>6. ASSUME NEW b \in Clients, ~disturbed'[b]
      PROVE  Undisturbed(b)'
  <2>1. Undisturbed(b) /\ b # c
    BY <1>5, <1>6 DEF OwnInv
  <2>2. Mine(requests, b)' = Mine(requests, b) /\ Mine(responses, b)' = Mine(responses, b)
    BY <1>2, <1>3, <2>1, NotMine DEF Mine
  <2>3. deadline'[b] = deadline[b]
    BY <1>3, <2>1 DEF TimeInv, Numbers
  <2> QED BY <1>3, <2>1, <2>2, <2>3, Bystander
<1> QED BY <1>3, <1>4, <1>6 DEF OwnInv

(* What a client undisturbed so far takes for its answer is its answer.    *)
LEMMA OwnReceive ==
  ASSUME TimeInv, ToldInv, OwnInv, NEW c \in Clients, Receive(c)
  PROVE  OwnInv'
<1>1. /\ phase[c] = "waiting" /\ inbox[c] # << >> /\ now' = now
      /\ inbox' = [inbox EXCEPT ![c] = Tail(inbox[c])]
      /\ UNCHANGED <<requests, responses, disturbed, counter>>
      /\ started' = [started EXCEPT ![c] = 0]
  BY DEF Receive, vars, netVars
<1>2. /\ \A b \in Clients : b # c => phase'[b] = phase[b] /\ deadline'[b] = deadline[b]
      /\ phase'[c] \in {"menu", "monitoring"}
  BY DEF Receive, TimeInv, Numbers
<1>3. PICK a : a = [asked |-> Asked(c), answer |-> Head(inbox[c])]
  OBVIOUS
<1>4. shown' = [shown EXCEPT ![c] = Append(shown[c], a)]
  BY <1>3 DEF Receive
<1>5. ASSUME NEW b \in Clients, ~disturbed[b]
      PROVE  Undisturbed(b)'
  <2>1. Undisturbed(b)
    BY <1>5 DEF OwnInv
  <2>2. CASE b # c
    <3>1. /\ Mine(requests, b)' = Mine(requests, b) /\ Mine(responses, b)' = Mine(responses, b)
      BY <1>1 DEF Mine
    <3>2. /\ shown'[b] = shown[b] /\ inbox'[b] = inbox[b] /\ started'[b] = started[b]
      BY <1>1, <1>4, <2>2 DEF TimeInv, Numbers, ToldInv
    <3> QED BY <1>1, <1>2, <2>1, <2>2, <3>1, <3>2, Bystander
  <2>3. CASE b = c
    <3>1. Answered(c)
      BY <1>1, <2>1, <2>3 DEF Undisturbed, Underway, Nowhere, Asking, Answering
    <3>2. Tail(inbox[c]) = << >> /\ Head(inbox[c]) = Asked(c)
      BY <3>1 DEF Answered
    <3>3. Nowhere(c)'
      BY <1>1, <3>1, <3>2 DEF Nowhere, Answered, Mine, ToldInv
    <3>4. shown[c] \in Seq(Shown) /\ shown'[c] = Append(shown[c], a)
      BY <1>4 DEF ToldInv
    <3>5. a.answer = a.asked
      BY <1>3, <3>2
    <3>6. ShowsOwn(c)'
      BY <2>1, <2>3, <3>4, <3>5 DEF ShowsOwn, Undisturbed
    <3> QED BY <1>1, <1>2, <2>1, <2>3, <3>1, <3>3, <3>6 DEF Undisturbed
  <2> QED BY <2>2, <2>3
<1> QED BY <1>1, <1>5 DEF OwnInv

(* A client that gives up is disturbed: it would have resent first.  One   *)
(* that stops monitoring need not be, and has found no update.             *)
LEMMA OwnMenu ==
  ASSUME Timeout < GiveUp, TimeInv, ToldInv, OwnInv, NEW c \in Clients,
         NoResponse(c) \/ EndMonitoring(c) \/ ShowUpdate(c)
  PROVE  OwnInv'
<1>1. /\ UNCHANGED <<requests, responses, disturbed, counter, shown, now>>
      /\ \A b \in Clients : b # c =>
           /\ phase'[b] = phase[b] /\ deadline'[b] = deadline[b]
           /\ started'[b] = started[b] /\ inbox'[b] = inbox[b]
  BY DEF NoResponse, EndMonitoring, ShowUpdate, Menu, vars, netVars, clientVars,
         TimeInv, Numbers, ToldInv
<1>2. ASSUME ~disturbed[c]
      PROVE  Undisturbed(c)'
  <2>1. Undisturbed(c)
    BY <1>2 DEF OwnInv
  <2>2. CASE NoResponse(c)
    <3>1. phase[c] = "waiting" /\ now - started[c] >= GiveUp
      BY <2>2, ClientAssumption DEF NoResponse, TimedOut, Persists, TimeInv, Numbers
    <3>2. now <= started[c] + Timeout
      BY <2>1, <3>1 DEF Undisturbed
    <3> QED BY <3>1, <3>2, ClientAssumption DEF TimeInv, Numbers
  <2>3. CASE ShowUpdate(c)
    BY <2>1, <2>3 DEF ShowUpdate, Undisturbed, Nowhere
  <2>4. CASE EndMonitoring(c)
    <3>1. phase[c] = "monitoring" /\ phase'[c] = "menu" /\ inbox' = inbox
      BY <2>4 DEF EndMonitoring, Menu, TimeInv, Numbers
    <3>2. Nowhere(c)'
      BY <1>1, <2>1, <3>1 DEF Undisturbed, Nowhere, Mine
    <3> QED BY <1>1, <2>1, <3>1, <3>2 DEF Undisturbed, ShowsOwn
  <2> QED BY <2>2, <2>3, <2>4
<1>3. ASSUME NEW b \in Clients, b # c, ~disturbed[b]
      PROVE  Undisturbed(b)'
  <2>1. Undisturbed(b)
    BY <1>3 DEF OwnInv
  <2>2. Mine(requests, b)' = Mine(requests, b) /\ Mine(responses, b)' = Mine(responses, b)
    BY <1>1 DEF Mine
  <2> QED BY <1>1, <1>3, <2>1, <2>2, Bystander
<1> QED BY <1>1, <1>2, <1>3 DEF OwnInv

(* An update disturbs the client it is sent to.                            *)
LEMMA OwnUpdate ==
  ASSUME OwnInv, NEW c \in Clients, Update(c)
  PROVE  OwnInv'
<1>1. PICK n : n = [key |-> <<c, 0>>, sent |-> now]
  OBVIOUS
<1>2. n.key[1] = c /\ responses' = responses \cup {n}
  BY <1>1 DEF Update, Answer, UpdateFor
<1>3. UNCHANGED <<requests, counter, shown, now, phase, deadline, started, inbox>>
  BY DEF Update, vars, clientVars
<1>4. disturbed' \in [Clients -> BOOLEAN]
  BY DEF OwnInv, Update
<1>5. ASSUME NEW b \in Clients, ~disturbed'[b]
      PROVE  ~disturbed[b] /\ b # c
  BY <1>5, Zenon DEF OwnInv, Update
<1>6. ASSUME NEW b \in Clients, ~disturbed'[b]
      PROVE  Undisturbed(b)'
  <2>1. Undisturbed(b) /\ b # c
    BY <1>5, <1>6 DEF OwnInv
  <2>2. Mine(requests, b)' = Mine(requests, b) /\ Mine(responses, b)' = Mine(responses, b)
    BY <1>2, <1>3, <2>1, NotMine DEF Mine
  <2> QED BY <1>3, <2>1, <2>2, Bystander
<1> QED BY <1>4, <1>6 DEF OwnInv

(* The server answers the request.                                         *)
LEMMA OwnHandle ==
  ASSUME TimeInv, OwnInv, NEW d \in requests, NEW again \in BOOLEAN, Handle(d, again)
  PROVE  OwnInv'
<1>1. PICK c \in Clients : c = d.key[1]
  BY ArrivesInTime, ClientAssumption
<1>2. PICK n : n = [key |-> d.key, sent |-> now]
  OBVIOUS
<1>3. n.key = d.key /\ responses' = responses \cup {n}
  BY <1>2 DEF Handle, Answer
<1>4. /\ UNCHANGED <<counter, shown, now, phase, deadline, started, inbox>>
      /\ IF again THEN requests' = requests ELSE requests' = requests \ {d}
  BY DEF Handle, Replay, Execute, Taken, clientVars
<1>5. disturbed' \in [Clients -> BOOLEAN]
  BY DEF OwnInv, Handle
<1>6. ASSUME NEW b \in Clients, ~disturbed'[b]
      PROVE  ~disturbed[b] /\ (b = c => ~again)
  BY <1>1, <1>6, Zenon DEF OwnInv, Handle
<1>7. ASSUME NEW b \in Clients, ~disturbed'[b]
      PROVE  Undisturbed(b)'
  <2>1. Undisturbed(b)
    BY <1>6, <1>7 DEF OwnInv
  <2>2. CASE b # c
    <3>1. Mine(requests, b)' = Mine(requests, b) /\ Mine(responses, b)' = Mine(responses, b)
      BY <1>1, <1>3, <1>4, <2>2, NotMine DEF Mine
    <3> QED BY <1>4, <2>1, <3>1, Bystander
  <2>3. CASE b = c
    <3>1. d \in Mine(requests, c)
      BY <1>1 DEF Mine
    <3>2. phase[c] = "waiting" /\ Asking(c)
      BY <2>1, <2>3, <3>1 DEF Undisturbed, Underway, Nowhere, Answering, Answered
    <3>3. Mine(requests, c) = {d} /\ d.key = Asked(c)
      BY <3>1, <3>2 DEF Asking
    <3>4. Mine(requests, c)' = {} /\ Mine(responses, c)' = {n}
      <4>1. requests' = requests \ {d}
        BY <1>4, <1>6, <1>7, <2>3
      <4>2. Mine(requests, c)' = {}
        BY <3>3, <4>1 DEF Mine
      <4>3. Mine(responses, c) = {}
        BY <3>2 DEF Asking
      <4>4. Mine(responses, c)' = {n}
        BY <1>1, <1>3, <4>3 DEF Mine
      <4> QED BY <4>2, <4>4
    <3>5. Answering(c)'
      <4>1. inbox'[c] = << >> /\ n \in responses' /\ n.key = Asked(c)'
        BY <1>3, <1>4, <3>2, <3>3 DEF Asking, Asked
      <4> QED BY <3>4, <4>1 DEF Answering
    <3> QED BY <1>4, <2>1, <2>3, <3>2, <3>5 DEF Undisturbed, Underway, ShowsOwn
  <2> QED BY <2>2, <2>3
<1> QED BY <1>5, <1>7 DEF OwnInv

LEMMA OwnDeliver ==
  ASSUME ToldInv, OwnInv, NEW d \in responses, NEW again \in BOOLEAN, Deliver(d, again)
  PROVE  OwnInv'
<1>1. PICK c \in Clients : c = d.key[1]
  BY DEF ToldInv, Told
<1>2. /\ UNCHANGED <<requests, counter, shown, now, phase, deadline, started>>
      /\ IF again THEN responses' = responses ELSE responses' = responses \ {d}
  BY DEF Deliver, Taken, clientVars, vars
<1>3. /\ \A b \in Clients : b # c => inbox'[b] = inbox[b]
      /\ inbox[c] = << >> => inbox'[c] = <<d.key>>
  <2>1. PICK q : q = IF Len(inbox[c]) < MaxInbox THEN Append(inbox[c], d.key) ELSE inbox[c]
    OBVIOUS
  <2>2. inbox' = [inbox EXCEPT ![c] = q]
    BY <1>1, <2>1 DEF Deliver
  <2>3. inbox[c] = << >> => q = <<d.key>>
    <3>1. 0 < MaxInbox
      BY ClientAssumption
    <3>2. Append(<< >>, d.key) = <<d.key>> /\ Len(<< >>) = 0
      OBVIOUS
    <3> QED BY <2>1, <3>1, <3>2
  <2> QED BY <2>2, <2>3 DEF ToldInv
<1>4. disturbed' \in [Clients -> BOOLEAN]
  BY DEF OwnInv, Deliver
<1>5. ASSUME NEW b \in Clients, ~disturbed'[b]
      PROVE  ~disturbed[b] /\ (b = c => ~again)
  BY <1>1, <1>5, Zenon DEF OwnInv, Deliver
<1>6. ASSUME NEW b \in Clients, ~disturbed'[b]
      PROVE  Undisturbed(b)'
  <2>1. Undisturbed(b)
    BY <1>5, <1>6 DEF OwnInv
  <2>2. CASE b # c
    <3>1. Mine(requests, b)' = Mine(requests, b) /\ Mine(responses, b)' = Mine(responses, b)
      BY <1>1, <1>2, <2>2, NotMine DEF Mine
    <3> QED BY <1>2, <1>3, <2>1, <2>2, <3>1, Bystander
  <2>3. CASE b = c
    <3>1. d \in Mine(responses, c)
      BY <1>1 DEF Mine
    <3>2. phase[c] = "waiting" /\ Answering(c)
      BY <2>1, <2>3, <3>1 DEF Undisturbed, Underway, Nowhere, Asking, Answered
    <3>3. Mine(responses, c) = {d} /\ d.key = Asked(c)
      BY <3>1, <3>2 DEF Answering
    <3>4. Mine(requests, c)' = {} /\ Mine(responses, c)' = {}
      <4>1. responses' = responses \ {d}
        BY <1>2, <1>5, <1>6, <2>3
      <4> QED BY <1>2, <3>2, <3>3, <4>1 DEF Mine, Answering
    <3>5. Answered(c)'
      BY <1>2, <1>3, <3>2, <3>3, <3>4 DEF Answered, Answering, Asked
    <3> QED BY <1>2, <2>1, <2>3, <3>2, <3>5 DEF Undisturbed, Underway, ShowsOwn
  <2> QED BY <2>2, <2>3
<1> QED BY <1>4, <1>6 DEF OwnInv

(* A loss leaves nothing under way; time does not pass a deadline.         *)
LEMMA OwnTimePasses ==
  ASSUME TimeInv, OwnInv, TimePasses
  PROVE  OwnInv'
<1>1. /\ UNCHANGED <<disturbed, counter, shown, phase, deadline, started, inbox>>
      /\ now \in Nat /\ now' = now + 1
      /\ requests' \subseteq requests /\ responses' \subseteq responses
  BY DEF TimePasses, Tick, InFlight, clientVars, TimeInv, Numbers
<1>2. ASSUME NEW b \in Clients, ~disturbed[b]
      PROVE  Undisturbed(b)'
  <2>1. Undisturbed(b)
    BY <1>2 DEF OwnInv
  <2>2. Mine(requests, b)' \subseteq Mine(requests, b) /\ Mine(responses, b)' \subseteq Mine(responses, b)
    BY <1>1 DEF Mine
  <2>3. CASE phase[b] \in {"menu", "monitoring"}
    <3>1. Nowhere(b) /\ phase[b] # "waiting"
      BY <2>1, <2>3 DEF Undisturbed
    <3>2. Nowhere(b)'
      BY <1>1, <2>2, <3>1 DEF Nowhere
    <3> QED BY <1>1, <2>1, <2>3, <3>2 DEF Undisturbed, ShowsOwn
  <2>4. CASE phase[b] = "waiting"
    <3>1. inbox[b] = << >> /\ now < deadline[b]
      BY <2>4 DEF TimePasses, Awake, TimeInv, Numbers
    <3>2. now' <= deadline[b]
      BY <1>1, <2>4, <3>1 DEF TimeInv, Numbers
    <3>3. Nowhere(b) \/ Asking(b) \/ Answering(b)
      BY <2>1, <2>4, <3>1 DEF Undisturbed, Underway, Answered
    <3>4. ASSUME Asking(b) PROVE Asking(b)' \/ Nowhere(b)'
      BY <1>1, <2>2, <3>4 DEF Asking, Nowhere, Asked, Mine
    <3>5. ASSUME Answering(b) PROVE Answering(b)' \/ Nowhere(b)'
      BY <1>1, <2>2, <3>5 DEF Answering, Nowhere, Asked, Mine
    <3>6. Nowhere(b) => Nowhere(b)'
      BY <1>1, <2>2 DEF Nowhere
    <3>7. Underway(b)'
      BY <3>3, <3>4, <3>5, <3>6 DEF Underway
    <3> QED BY <1>1, <2>1, <2>4, <3>2, <3>7 DEF Undisturbed, ShowsOwn
  <2> QED BY <2>1, <2>3, <2>4 DEF Undisturbed
<1> QED BY <1>1, <1>2 DEF OwnInv

LEMMA OwnStep ==
  ASSUME Timeout < GiveUp
  PROVE  TimeInv /\ ToldInv /\ OwnInv /\ [ClientNext]_allVars => OwnInv'
<1> SUFFICES ASSUME TimeInv, ToldInv, OwnInv, [ClientNext]_allVars PROVE OwnInv'
  OBVIOUS
<1>1. CASE UNCHANGED allVars
  <2>1. UNCHANGED <<disturbed, counter, shown, phase, deadline, started, inbox, now, requests,
                    responses>>
    BY <1>1 DEF allVars, vars, clientVars, netVars
  <2>2. ASSUME NEW b \in Clients, ~disturbed[b]
        PROVE  Undisturbed(b)'
    <3>1. Undisturbed(b)
      BY <2>2 DEF OwnInv
    <3>2. Mine(requests, b)' = Mine(requests, b) /\ Mine(responses, b)' = Mine(responses, b)
      BY <2>1 DEF Mine
    <3> QED BY <2>1, <3>1, <3>2, Bystander
  <2> QED BY <2>1, <2>2 DEF OwnInv
<1> QED BY <1>1, OwnSend, OwnResend, OwnReceive, OwnMenu, OwnUpdate, OwnHandle, OwnDeliver,
           OwnTimePasses, ClientCases

(* For any number of clients and requests, provided a client waits for its *)
(* first timeout before it gives up (10 and 30 seconds): one that has      *)
(* resent nothing, met no duplicate and was sent no update shows its own   *)
(* answers only, OwnAnswers, though it compares no request IDs.            *)
THEOREM AnswersAreOwn ==
  ASSUME Timeout < GiveUp, Invocation = "most"
  PROVE  ClientSpec => []OwnAnswers
<1>1. ClientSpec => []ToldInv
  BY ToldInit, ToldStep, TimeInvariance, PTL DEF ClientSpec
<1>2. ClientSpec => []OwnInv
  BY <1>1, OwnInit, OwnStep, TimeInvariance, PTL DEF ClientSpec
<1>3. OwnInv => OwnAnswers
  BY DEF OwnInv, OwnAnswers, Undisturbed, ShowsOwn
<1> QED BY <1>2, <1>3, PTL
-----------------------------------------------------------------------------
(* Types.  What the invariants above leave open are the datagrams and the  *)
(* server's registrations.                                                 *)

RestTypes ==
  /\ requests \subseteq [key : Keys, operation : {"other", "monitor"}, first : Nat, sent : Nat]
  /\ responses \subseteq [key : Clients \X (0..MaxRequests), sent : Nat]
  /\ copies \in 0..Copies
  /\ registered \in [Clients -> Nat] /\ updates \in [Clients -> 0..MaxUpdates]
  /\ disturbed \in [Clients -> BOOLEAN]

LEMMA RestInit == ClientInit => RestTypes
BY ClientAssumption DEF ClientInit, RestTypes

(* The datagrams the actions send have these types, and duplicating one    *)
(* leaves the bound on copies.                                             *)
LEMMA RestTaken ==
  ASSUME copies \in 0..Copies, NEW net, NEW d, NEW again \in BOOLEAN, NEW left,
         IF again THEN copies > 0 /\ copies' = copies - 1 /\ left = net
         ELSE left = net \ {d} /\ UNCHANGED copies
  PROVE  copies' \in 0..Copies /\ left \subseteq net
<1>1. CASE again = TRUE
  BY <1>1, ClientAssumption
<1>2. CASE again = FALSE
  BY <1>2
<1> QED BY <1>1, <1>2

LEMMA RestStep ==
  TimeInv /\ RestTypes /\ [ClientNext]_allVars => RestTypes'
<1> SUFFICES ASSUME TimeInv, RestTypes, [ClientNext]_allVars PROVE RestTypes'
  OBVIOUS
<1>0. now \in Nat
  BY DEF TimeInv, Numbers
<1>1. CASE UNCHANGED <<requests, responses, copies, registered, updates, disturbed>>
  BY <1>1 DEF RestTypes
<1>2. CASE TimePasses
  <2>1. /\ UNCHANGED <<copies, registered, updates, disturbed>>
        /\ requests' \subseteq requests /\ responses' \subseteq responses
    BY <1>2 DEF TimePasses, InFlight, monitorVars
  <2> QED BY <2>1 DEF RestTypes
<1>3. ASSUME NEW c \in Clients, NEW op \in {"other", "monitor"}, Send(c, op)
      PROVE  RestTypes'
  <2>1. PICK n : n = [key |-> <<c, counter[c]>>, operation |-> op, first |-> now, sent |-> now]
    OBVIOUS
  <2>2. n \in [key : Keys, operation : {"other", "monitor"}, first : Nat, sent : Nat]
    <3>1. <<c, counter[c]>> \in Keys
      BY <1>3, ClientAssumption DEF Send, TimeInv, Numbers
    <3> QED BY <1>0, <2>1, <3>1
  <2>3. /\ requests' = requests \cup {n}
        /\ UNCHANGED <<responses, copies, registered, updates, disturbed>>
    BY <1>3, <2>1 DEF Send, Request, monitorVars
  <2> QED BY <2>2, <2>3 DEF RestTypes
<1>4. ASSUME NEW c \in Clients, Resend(c)
      PROVE  RestTypes'
  <2>1. PICK n : n = [key |-> Asked(c), operation |-> operation[c],
                      first |-> started[c], sent |-> now]
    OBVIOUS
  <2>2. n \in [key : Keys, operation : {"other", "monitor"}, first : Nat, sent : Nat]
    <3>1. Asked(c) \in Keys /\ operation[c] \in {"other", "monitor"} /\ started[c] \in Nat
      BY <1>4, AskedNumber DEF Resend, TimedOut, TimeInv, SeenAfter, Numbers, Made
    <3> QED BY <1>0, <2>1, <3>1
  <2>3. requests' = requests \cup {n} /\ UNCHANGED <<responses, copies, registered, updates>>
    BY <1>4, <2>1 DEF Resend, Request, monitorVars
  <2>4. disturbed' \in [Clients -> BOOLEAN]
    BY <1>4 DEF Resend, RestTypes
  <2> QED BY <2>2, <2>3, <2>4 DEF RestTypes
<1>5. ASSUME NEW c \in Clients, Update(c)
      PROVE  RestTypes'
  <2>1. PICK n : n = [key |-> <<c, 0>>, sent |-> now]
    OBVIOUS
  <2>2. n \in [key : Clients \X (0..MaxRequests), sent : Nat]
    BY <1>0, <2>1, ClientAssumption
  <2>3. responses' = responses \cup {n} /\ UNCHANGED <<requests, copies, registered>>
    BY <1>5, <2>1 DEF Update, Answer, UpdateFor
  <2>4. updates' \in [Clients -> 0..MaxUpdates]
    BY <1>5, ClientAssumption DEF Update, RestTypes
  <2>5. disturbed' \in [Clients -> BOOLEAN]
    BY <1>5 DEF Update, RestTypes
  <2> QED BY <2>2, <2>3, <2>4, <2>5 DEF RestTypes
<1>6. ASSUME NEW d \in requests, NEW again \in BOOLEAN, Handle(d, again)
      PROVE  RestTypes'
  <2>1. PICK n : n = [key |-> d.key, sent |-> now]
    OBVIOUS
  <2>2. n \in [key : Clients \X (0..MaxRequests), sent : Nat]
    <3>1. d.key \in Clients \X (0..MaxRequests)
      BY ClientAssumption, ArrivesInTime
    <3> QED BY <1>0, <2>1, <3>1
  <2>3. responses' = responses \cup {n}
    BY <1>6, <2>1 DEF Handle, Answer
  <2>4. copies' \in 0..Copies /\ requests' \subseteq requests
    BY <1>6, RestTaken DEF Handle, Taken, RestTypes
  <2>5. registered' \in [Clients -> Nat] /\ updates' \in [Clients -> 0..MaxUpdates]
    <3>1. now + Interval \in Nat /\ 0 \in 0..MaxUpdates
      BY <1>0, ClientAssumption
    <3> QED BY <1>6, <3>1 DEF Handle, monitorVars, RestTypes
  <2>6. disturbed' \in [Clients -> BOOLEAN]
    BY <1>6 DEF Handle, RestTypes
  <2> QED BY <2>2, <2>3, <2>4, <2>5, <2>6 DEF RestTypes
<1>7. ASSUME NEW d \in responses, NEW again \in BOOLEAN, Deliver(d, again)
      PROVE  RestTypes'
  <2>1. copies' \in 0..Copies /\ responses' \subseteq responses
    BY <1>7, RestTaken DEF Deliver, Taken, RestTypes
  <2>2. disturbed' \in [Clients -> BOOLEAN] /\ UNCHANGED <<requests, registered, updates>>
    BY <1>7 DEF Deliver, RestTypes, monitorVars
  <2> QED BY <2>1, <2>2 DEF RestTypes
<1> QED
  BY <1>1, <1>2, <1>3, <1>4, <1>5, <1>6, <1>7, ClientCases
     DEF allVars, netVars, monitorVars, Receive, NoResponse, ShowUpdate, EndMonitoring

LEMMA AllTypes ==
  TimeInv /\ ToldInv /\ RestTypes /\ TypeOK => ClientTypeOK
<1> SUFFICES ASSUME TimeInv, ToldInv, RestTypes, TypeOK PROVE ClientTypeOK
  OBVIOUS
<1>1. counter \in [Clients -> 1..(MaxRequests + 1)]
  BY ClientAssumption DEF TimeInv, Numbers
<1>2. \A q \in Seq(Told) : q \in Seq(Clients \X (0..MaxRequests))
  <2>1. Executed \subseteq Keys
    <3>1. ASSUME NEW i \in 1..Len(executed) PROVE executed[i].key \in Keys
      <4>1. \A S : executed \in Seq(S) => executed[i] \in S
        OBVIOUS
      <4>2. executed[i] \in [key : Keys, time : Nat, status : Statuses]
        BY <4>1 DEF ToldInv
      <4> QED BY <4>2
    <3> QED BY <3>1 DEF Executed
  <2>2. Told \subseteq Clients \X (0..MaxRequests)
    BY <2>1, ClientAssumption DEF Told
  <2> QED BY <2>2
<1>3. inbox \in [Clients -> Seq(Clients \X (0..MaxRequests))]
  BY <1>2 DEF ToldInv
<1> QED BY <1>1, <1>3 DEF ClientTypeOK, TimeInv, Numbers, RestTypes

(* Clients, network and server keep their types, for any number of clients *)
(* and requests.                                                           *)
THEOREM ClientTypes ==
  ASSUME Invocation = "most"
  PROVE  ClientSpec => []ClientTypeOK
<1>1. ClientSpec => []ToldInv
  BY ToldInit, ToldStep, TimeInvariance, PTL DEF ClientSpec
<1>2. ClientSpec => []RestTypes
  BY RestInit, RestStep, TimeInvariance, PTL DEF ClientSpec
<1>3. ClientSpec => []TypeOK
  BY RetriesArriveInTime, TypeCorrect, PTL DEF RetriesInTime
<1> QED BY <1>1, <1>2, <1>3, TimeInvariance, AllTypes, PTL

=============================================================================
