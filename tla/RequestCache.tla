---------------------------- MODULE RequestCache ----------------------------
(***************************************************************************)
(* The server's memory of the requests it has processed: the at-most-once  *)
(* half of UDPServer::handle_receive, with processedRequests and           *)
(* requestOrder.  What a request does is not modelled: an execution is     *)
(* recorded with the status it answers, 0 or 1.                            *)
(*                                                                         *)
(* Clients and the network decide when datagrams arrive.  A key (client    *)
(* endpoint and request ID) may arrive again, resent or duplicated, until  *)
(* Lifetime ticks after it first did.  A datagram that is lost, or dropped *)
(* on arrival, is one that does not arrive here; a lost reply is followed  *)
(* by one that arrives again.                                              *)
(***************************************************************************)
EXTENDS Integers, Sequences, FiniteSets

CONSTANTS
  Keys,            \* request keys
  AtLeastOnce,     \* the server's mode; if TRUE the cache is not used
  MaxProcessed,    \* MAX_PROCESSED_REQUESTS (1000 in the program)
  ExpirySeconds,   \* how long an entry answers duplicates (30)
  TicksPerSecond,  \* resolution of the clock
  Lifetime,        \* environment: ticks during which a key may arrive again
  MaxTime,         \* bound: the clock stops here
  MaxExecutions    \* bound: no more requests are executed than this

ASSUME CacheAssumption ==
  /\ AtLeastOnce \in BOOLEAN
  /\ MaxProcessed \in Nat \ {0}
  /\ ExpirySeconds \in Nat
  /\ TicksPerSecond \in Nat \ {0}
  /\ Lifetime \in Nat
  /\ MaxTime \in Nat
  /\ MaxExecutions \in Nat

VARIABLES
  now,            \* steady_clock, in ticks
  firstSeen,      \* environment: [key -> when it first arrived], partial
  processed,      \* processedRequests: [key -> [time, response]], partial
  requestOrder,   \* the queue of keys
  executed,       \* history: [key, time, status] of each execution, in order
  reply           \* the response last sent, with the key it answers

vars == <<now, firstSeen, processed, requestOrder, executed, reply>>

-----------------------------------------------------------------------------
(* The cache.                                                              *)

Statuses == {0, 1}

(* A response tells of an execution, by its number; 0 stands for the empty *)
(* message of a ResponseMessage that nobody has filled in, whose status is *)
(* whatever was in memory.                                                 *)
Response(status, result) == [status |-> status, result |-> result]

Cached == DOMAIN processed

(* duration_cast<seconds> drops the fraction of a second.                  *)
Age(key) == (now - processed[key].time) \div TicksPerSecond

(* Mutant: < where the code has <=.                                        *)
IsDuplicate_Strict(key) ==
  ~AtLeastOnce /\ key \in Cached /\ Age(key) < ExpirySeconds

IsDuplicate(key) ==
  ~AtLeastOnce /\ key \in Cached /\ Age(key) <= ExpirySeconds

(* Mutants of the capacity check: > where the code has >=, and room made   *)
(* one entry too early.                                                    *)
Full_Over == Cardinality(Cached) > MaxProcessed
Full_Early == Cardinality(Cached) + 1 >= MaxProcessed

(* Room is made, at capacity, by dropping the key at the front.            *)
Full == Cardinality(Cached) >= MaxProcessed
KeysKept == IF Full THEN Cached \ {Head(requestOrder)} ELSE Cached
OrderKept == IF Full THEN Tail(requestOrder) ELSE requestOrder

(* Mutant: the entry keeps when it will expire, and Age takes that for     *)
(* when it was written.                                                    *)
Remember_Deadline(key, junk) ==
  IF AtLeastOnce THEN UNCHANGED <<processed, requestOrder>>
  ELSE /\ processed' = [k \in KeysKept \cup {key} |->
                          IF k = key
                          THEN [time |-> now + ExpirySeconds * TicksPerSecond,
                                response |-> Response(junk, 0)]
                          ELSE processed[k]]
       /\ requestOrder' = Append(OrderKept, key)

(* Mutant: the queue misses the push.                                      *)
Remember_Unqueued(key, junk) ==
  IF AtLeastOnce THEN UNCHANGED <<processed, requestOrder>>
  ELSE /\ processed' = [k \in KeysKept \cup {key} |->
                          IF k = key
                          THEN [time |-> now, response |-> Response(junk, 0)]
                          ELSE processed[k]]
       /\ requestOrder' = OrderKept

(* The entry is written before the operation runs, with the response as it *)
(* is then.                                                                *)
Remember(key, junk) ==
  IF AtLeastOnce THEN UNCHANGED <<processed, requestOrder>>
  ELSE /\ processed' = [k \in KeysKept \cup {key} |->
                          IF k = key
                          THEN [time |-> now, response |-> Response(junk, 0)]
                          ELSE processed[k]]
       /\ requestOrder' = Append(OrderKept, key)

-----------------------------------------------------------------------------
(* handle_receive.                                                         *)

(* A datagram with this key arrives now...                                 *)
Arrives(key) ==
  firstSeen' = [k \in DOMAIN firstSeen \cup {key} |->
                  IF k \in DOMAIN firstSeen THEN firstSeen[k] ELSE now]

(* ...if it is not too late for that.                                      *)
Timely(key) == key \in DOMAIN firstSeen => now - firstSeen[key] <= Lifetime

Init ==
  /\ now = 0
  /\ firstSeen = << >>
  /\ processed = << >>
  /\ requestOrder = << >>
  /\ executed = << >>
  /\ reply = << >>

Replay(key) ==
  /\ Arrives(key)
  /\ IsDuplicate(key)
  /\ reply' = [key |-> key, response |-> processed[key].response]
  /\ UNCHANGED <<now, processed, requestOrder, executed>>

Execute(key, status, junk) ==
  /\ Len(executed) < MaxExecutions
  /\ Arrives(key)
  /\ ~IsDuplicate(key)
  /\ Remember(key, junk)
  /\ executed' = Append(executed, [key |-> key, time |-> now, status |-> status])
  /\ reply' = [key |-> key, response |-> Response(status, Len(executed) + 1)]
  /\ UNCHANGED now

Tick ==
  /\ now < MaxTime
  /\ now' = now + 1
  /\ UNCHANGED <<firstSeen, processed, requestOrder, executed, reply>>

Next ==
  \/ Tick
  \/ \E key \in Keys :
       /\ Timely(key)
       /\ \/ Replay(key)
          \/ \E status, junk \in Statuses : Execute(key, status, junk)

Spec == Init /\ [][Next]_vars

-----------------------------------------------------------------------------
(* Properties.                                                             *)

TypeOK ==
  /\ now \in Nat
  /\ DOMAIN firstSeen \subseteq Keys
  /\ \A k \in DOMAIN firstSeen : firstSeen[k] \in 0..now
  /\ Cached \subseteq Keys
  /\ \A k \in Cached : /\ processed[k].time \in 0..now
                       /\ processed[k].response.status \in Statuses
  /\ requestOrder \in Seq(Keys)
  /\ executed \in Seq([key : Keys, time : Nat, status : Statuses])

(* requestOrder.front() and pop() are never called on an empty queue, for  *)
(* which their behaviour is undefined: however often keys expire and come  *)
(* back, a full cache has a key in the queue.                              *)
EvictionDefined == Full => requestOrder # << >>

(* The map never outgrows its capacity ("Clean up if over capacity").      *)
CapacityRespected == Cardinality(Cached) <= MaxProcessed

(* The retention a key is executed under: a second execution comes only    *)
(* after the entry has expired, or after MaxProcessed others have pushed   *)
(* it out.                                                                 *)
Retained ==
  \A i, j \in DOMAIN executed :
    i < j /\ executed[i].key = executed[j].key =>
      \/ j - i > MaxProcessed
      \/ executed[j].time - executed[i].time >= (ExpirySeconds + 1) * TicksPerSecond

(* At most once: until more keys have come than fit in the cache, no       *)
(* request is executed twice, however often it is resent.                  *)
AtMostOnce ==
  Cardinality(DOMAIN firstSeen) <= MaxProcessed =>
    \A i, j \in DOMAIN executed : executed[i].key = executed[j].key => i = j

(* Every response tells the outcome of an execution of the request it      *)
(* answers.                                                                *)
RepliesTellOutcome ==
  reply # << >> =>
    LET n == reply.response.result
    IN  /\ n \in DOMAIN executed
        /\ executed[n].key = reply.key
        /\ executed[n].status = reply.response.status
=============================================================================
