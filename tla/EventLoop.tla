----------------------------- MODULE EventLoop ------------------------------
(***************************************************************************)
(* A request from what a user types to the answer on the screen: packed    *)
(* into a datagram, received by the server's event loop, unpacked,         *)
(* dispatched, answered, and the answer unpacked.  The server has one      *)
(* receive pending at a time, into one buffer; a completed receive waits   *)
(* for io_context::run to call its handler, and an exception that leaves   *)
(* the handler ends run and with it the program.                           *)
(*                                                                         *)
(* The network reorders and delays; lost datagrams and resends are the     *)
(* subject of ClientServer, the request cache of RequestCache, what an     *)
(* operation does of BookingServer: here a request is sent once, and an    *)
(* operation on a facility that exists has one of the given Outcomes.      *)
(***************************************************************************)
EXTENDS Codec, FiniteSets

CONSTANTS
  Clients,       \* clients, the Java program or the one of the tests
  Testers,       \* those that are the one of the tests
  Choices,       \* [client -> for each of its requests, what its user may ask for:
                 \* a request that has no ID yet]
  Facilities,    \* the names of the server's facilities
  Outcomes,      \* [status, message] of operations on them
  Texts,         \* messages of the errors found before, by kind
  NotFoundText,  \* what stands before and behind the name of a facility not found
  Junk,          \* environment: what freed or foreign memory may hold
  MaxIdle        \* bound: empty datagrams and receives that fail on an open socket

(* The message that a facility is not found, from its name.                *)
NotFound(name) == NotFoundText.before \o name \o NotFoundText.behind

(* A user's client asks for every field of an operation; the tests' leaves *)
(* some out.                                                               *)
Complete(r) ==
  /\ r.operation \in {CHANGE, EXTEND, CANCEL} => r.bookingId # << >>
  /\ r.operation \in {CHANGE, EXTEND} => r.offsetMinutes # << >>
  /\ r.operation = MONITOR => r.monitorInterval # << >>

ASSUME LoopAssumption ==
  /\ Testers \subseteq Clients
  /\ Choices \in [Clients -> Seq(SUBSET Request)]
  /\ \A c \in Clients : Len(Choices[c]) < Power[4]
  /\ \A c \in Clients \ Testers : \A id \in DOMAIN Choices[c] :
       \A r \in Choices[c][id] : Complete(r)
  /\ Junk \subseteq Seq(Byte) /\ \A j \in Junk : Len(j) = 5
  /\ Outcomes \subseteq [status : {0, 1}, message : Seq(Byte)]
  /\ \A o \in Outcomes : 7 + Len(o.message) <= BufferSize
  /\ Texts \in [{"noIds", "noId", "noInterval", "invalid"} -> Seq(Byte)]
  /\ \A t \in DOMAIN Texts : 7 + Len(Texts[t]) <= BufferSize
  /\ NotFoundText \in [before : Seq(Byte), behind : Seq(Byte)]
  /\ Len(NotFound(<< >>)) + BufferSize <= Power[2] \div 2
  /\ MaxIdle \in Nat

VARIABLES
  asked,        \* [client -> its requests in order; the last has ID Len(asked[client])]
  phase,        \* [client -> "menu", "waiting" or "ended"]
  shown,        \* history: [client -> answers it has shown, in order]
  toServer,     \* datagrams [from, bytes] on their way to the server's socket
  toClients,    \* datagrams [to, bytes] on their way to a client
  running,      \* io_context::run has not returned
  open,         \* the server's socket is open
  receiving,    \* a receive is pending
  completions,  \* [error, size] of completed receives, their handlers to be called
  recvBuffer,   \* recv_buffer_, as far as it was ever written
  remote,       \* remote_endpoint_
  sending,      \* sends that found no room in the socket
  acted,        \* history: [from, request, response] of each handled request
  idle          \* bound: empty datagrams and failed receives so far

clientVars == <<asked, phase, shown>>
loopVars == <<receiving, completions, recvBuffer, remote>>
vars == <<clientVars, toServer, toClients, running, open, loopVars, sending, acted, idle>>

-----------------------------------------------------------------------------
(* Clients.                                                                *)

(* main and the server's constructor, which arms the first receive.        *)
Init ==
  /\ asked = [c \in Clients |-> << >>]
  /\ phase = [c \in Clients |-> "menu"]
  /\ shown = [c \in Clients |-> << >>]
  /\ toServer = {}
  /\ toClients = {}
  /\ running = TRUE
  /\ open = TRUE
  /\ receiving = TRUE
  /\ completions = << >>
  /\ recvBuffer = << >>
  /\ remote = "none"
  /\ sending = {}
  /\ acted = << >>
  /\ idle = 0

Packed(c, r) == IF c \in Testers THEN Marshal(r) ELSE ClientMarshal(r)

Ask(c) ==
  LET id == Len(asked[c]) + 1
  IN  /\ phase[c] = "menu"
      /\ id <= Len(Choices[c])
      /\ \E choice \in Choices[c][id] :
           LET r == [choice EXCEPT !.requestId = id]
           IN  /\ asked' = [asked EXCEPT ![c] = Append(@, r)]
               /\ toServer' = toServer \cup {[from |-> c, bytes |-> Packed(c, r)]}
      /\ phase' = [phase EXCEPT ![c] = "waiting"]
      /\ UNCHANGED <<shown, toClients, running, open, loopVars, sending, acted, idle>>

(* How the client reads a length: the tests' as it is, Java's signed.      *)
Length(c, bytes) == IF c \in Testers THEN Unsigned(bytes) ELSE Signed(bytes)

(* An exception ends the client.                                           *)
ShowAnswer(c, d) ==
  LET buffer == Received(d.bytes)
  IN  /\ phase[c] = "waiting"
      /\ d.to = c
      /\ toClients' = toClients \ {d}
      /\ IF Len(buffer) >= 7 /\ ReadableResponse(buffer, Length(c, Bytes(buffer, 5, 2)))
         THEN /\ shown' = [shown EXCEPT ![c] = Append(@, UnmarshalResponse(buffer))]
              /\ phase' = [phase EXCEPT ![c] = "menu"]
         ELSE /\ phase' = [phase EXCEPT ![c] = "ended"]
              /\ UNCHANGED shown
      /\ UNCHANGED <<asked, toServer, running, open, loopVars, sending, acted, idle>>

(* A datagram without content reaches the server from somewhere.           *)
Stray ==
  /\ idle < MaxIdle
  /\ idle' = idle + 1
  /\ toServer' = toServer \cup {[from |-> "stranger", bytes |-> << >>]}
  /\ UNCHANGED <<clientVars, toClients, running, open, loopVars, sending, acted>>

-----------------------------------------------------------------------------
(* The server.                                                             *)

(* The buffer after a receive: what the datagram does not cover stays.     *)
Over(data) == data \o SubSeq(recvBuffer, Len(data) + 1, Len(recvBuffer))

(* Mutant: the next receive is armed before the handler has run.           *)
Receive_Rearmed(d) ==
  /\ running /\ open
  /\ receiving
  /\ completions' = Append(completions, [error |-> FALSE, size |-> Len(Received(d.bytes))])
  /\ recvBuffer' = Over(Received(d.bytes))
  /\ remote' = d.from
  /\ toServer' = toServer \ {d}
  /\ UNCHANGED <<clientVars, toClients, running, open, receiving, sending, acted, idle>>

(* The pending receive completes with datagram d...                        *)
Receive(d) ==
  /\ running /\ open
  /\ receiving
  /\ receiving' = FALSE
  /\ completions' = Append(completions, [error |-> FALSE, size |-> Len(Received(d.bytes))])
  /\ recvBuffer' = Over(Received(d.bytes))
  /\ remote' = d.from
  /\ toServer' = toServer \ {d}
  /\ UNCHANGED <<clientVars, toClients, running, open, sending, acted, idle>>

(* ...or fails, as it does at once on a closed socket.                     *)
ReceiveFails ==
  /\ running
  /\ receiving
  /\ receiving' = FALSE
  /\ completions' = Append(completions, [error |-> TRUE, size |-> 0])
  /\ IF open THEN idle < MaxIdle /\ idle' = idle + 1 ELSE UNCHANGED idle
  /\ UNCHANGED <<clientVars, toServer, toClients, running, open, recvBuffer, remote, sending,
                 acted>>

(* The outcomes of the switch.  Whatever is thrown becomes an error.       *)
Dispatch(r) ==
  LET Failed(message) == {[status |-> 1, message |-> message]}
  IN  CASE r.operation \in {CHANGE, EXTEND} /\ (r.bookingId = << >> \/ r.offsetMinutes = << >>) ->
             Failed(Texts.noIds)
        [] r.operation = CANCEL /\ r.bookingId = << >> -> Failed(Texts.noId)
        [] r.operation = MONITOR /\ r.monitorInterval = << >> -> Failed(Texts.noInterval)
        [] r.operation \notin QUERY..CANCEL -> Failed(Texts.invalid)
        [] r.facilityName \notin Facilities -> Failed(NotFound(r.facilityName))
        [] OTHER -> Outcomes

(* do_send.  A send that finds no room is finished later, when the string  *)
(* it refers to is gone.                                                   *)
DoSend(bytes, endpoint, room) ==
  IF ~open THEN UNCHANGED <<toClients, sending>>
  ELSE IF room THEN /\ toClients' = toClients \cup {[to |-> endpoint, bytes |-> bytes]}
                    /\ UNCHANGED sending
  ELSE /\ sending' = sending \cup {[to |-> endpoint, size |-> Len(bytes)]}
       /\ UNCHANGED toClients

(* handle_receive, of a datagram of the given size.                        *)
HandleReceive(size) ==
  LET data == SubSeq(recvBuffer, 1, size)
  IN  IF ~Readable(data)
      THEN /\ running' = FALSE
           /\ open' = FALSE
           /\ UNCHANGED <<toClients, sending, acted, receiving>>
      ELSE /\ \E junk \in Junk, room \in BOOLEAN :
                LET r == Unmarshal(data, junk)
                IN  \E outcome \in Dispatch(r) :
                      LET response == [requestId |-> r.requestId,
                                       status    |-> outcome.status,
                                       message   |-> outcome.message]
                      IN  /\ acted' = Append(acted, [from |-> remote, request |-> r,
                                                     response |-> response, lost |-> ~room])
                          /\ DoSend(MarshalResponse(response), remote, room)
           /\ receiving' = TRUE
           /\ UNCHANGED <<running, open>>

(* Mutant: the receive is armed again only after a datagram.               *)
Idle_Unarmed == UNCHANGED <<receiving, running, open, toClients, sending, acted>>

(* Nothing has come, and the receive is armed again all the same.          *)
Idle == receiving' = TRUE /\ UNCHANGED <<running, open, toClients, sending, acted>>

(* The handler of the completed receive.                                   *)
Handler ==
  /\ running
  /\ completions # << >>
  /\ completions' = Tail(completions)
  /\ LET done == Head(completions)
     IN  IF ~done.error /\ done.size > 0 THEN HandleReceive(done.size) ELSE Idle
  /\ UNCHANGED <<clientVars, toServer, recvBuffer, remote, idle>>

(* A send is finished, with what is where its string was.                  *)
SendLate(s, junk) ==
  /\ running /\ open
  /\ sending' = sending \ {s}
  /\ toClients' = toClients \cup {[to |-> s.to, bytes |-> [i \in 1..s.size |-> junk[1]]]}
  /\ UNCHANGED <<clientVars, toServer, running, open, loopVars, acted, idle>>

(* stop: the socket is closed; run goes on.                                *)
Stop ==
  /\ running /\ open
  /\ open' = FALSE
  /\ sending' = {}
  /\ UNCHANGED <<clientVars, toServer, toClients, running, loopVars, acted, idle>>

-----------------------------------------------------------------------------

Next ==
  \/ \E c \in Clients :
       \/ Ask(c)
       \/ \E d \in toClients : ShowAnswer(c, d)
  \/ Stray
  \/ \E d \in toServer : Receive(d)
  \/ ReceiveFails
  \/ Handler
  \/ \E s \in sending, junk \in Junk : SendLate(s, junk)
  \/ Stop

Spec == Init /\ [][Next]_vars

(* The loop runs, what is sent arrives, and a waiting client reads it.     *)
Fairness ==
  /\ WF_vars(\E d \in toServer : Receive(d))
  /\ WF_vars(Handler)
  /\ WF_vars(\E s \in sending, junk \in Junk : SendLate(s, junk))
  /\ \A c \in Clients : WF_vars(\E d \in toClients : ShowAnswer(c, d))

FairSpec == Spec /\ Fairness

-----------------------------------------------------------------------------
(* Properties.                                                             *)

LoopTypeOK ==
  /\ phase \in [Clients -> {"menu", "waiting", "ended"}]
  /\ \A c \in Clients : Len(asked[c]) <= Len(Choices[c])
  /\ Len(completions) <= 1
  /\ running => receiving = (completions = << >>)
  /\ recvBuffer \in Seq(Byte) /\ Len(recvBuffer) <= BufferSize
  /\ running \in BOOLEAN /\ open \in BOOLEAN
  /\ \A d \in toServer \cup toClients : d.bytes \in Seq(Byte)

(* A request as it is meant, its numbers in the widths of the datagram; of *)
(* two extra fields neither is sent without the other.                     *)
Meant(r) ==
  LET both == r.bookingId # << >> /\ r.offsetMinutes # << >>
  IN  [r EXCEPT !.day             = @ % Base,
                !.startTime       = @ % Power[2],
                !.endTime         = @ % Power[2],
                !.bookingId       = IF @ = << >> \/ (r.operation # CANCEL /\ ~both) THEN << >>
                                    ELSE <<@[1] % Power[4]>>,
                !.offsetMinutes   = IF both THEN @ ELSE << >>,
                !.monitorInterval = IF @ = << >> THEN @ ELSE <<@[1] % Power[4]>>]

(* The server acts on a request once, for the client that sent it, and on  *)
(* what its user typed, with nothing of the datagram the buffer held       *)
(* before it, if only it fits in the buffer.                               *)
ActsAsAsked ==
  \A i \in DOMAIN acted :
    LET a == acted[i]
        r == asked[a.from][a.request.requestId]
    IN  /\ Len(Packed(a.from, r)) <= BufferSize => a.request = Meant(r)
        /\ \A j \in DOMAIN acted :
             j # i => <<acted[j].from, acted[j].request.requestId>> #
                      <<a.from, a.request.requestId>>

(* What a user types into a client ends the server only if it names a      *)
(* facility in fewer than three bytes or in more than the buffer holds.    *)
StaysUp ==
  running \/ \E c \in Clients : \E i \in DOMAIN asked[c] :
    Len(asked[c][i].facilityName) \notin 3..(BufferSize - 7)

(* The n-th answer a client shows is the one composed for its n-th         *)
(* request, to the letter, unless the server's socket had no room for it.  *)
ShowsItsAnswer ==
  \A c \in Clients : \A n \in DOMAIN shown[c] :
    \E i \in DOMAIN acted :
      /\ acted[i].from = c
      /\ acted[i].request.requestId = n
      /\ acted[i].lost \/ acted[i].response = shown[c][n]

(* An answer ends a client only if it names a facility that does not exist *)
(* with a name too long for its buffer, or if the server's socket had no   *)
(* room for it.                                                            *)
ClientLives ==
  \A c \in Clients : phase[c] = "ended" =>
    \/ Len(asked[c][Len(asked[c])].facilityName) + Len(NotFound(<< >>)) + 7 > BufferSize
    \/ \E i \in DOMAIN acted : acted[i].from = c /\ acted[i].lost

(* Whatever else arrives, empty datagrams and failing receives included, a *)
(* request is answered unless the server ends or is stopped.               *)
Answered ==
  \A c \in Clients : phase[c] = "waiting" ~> phase[c] # "waiting" \/ ~running \/ ~open
=============================================================================
