------------------------- MODULE RequestCacheProofs -------------------------
(***************************************************************************)
(* Theorems about RequestCache.  For every environment: the variables keep *)
(* their types, and the queue is never read when empty.  For one in which  *)
(* keys come again only while their entries are fresh (a Lifetime below    *)
(* ExpirySeconds + 1 seconds): the cache keeps to its capacity, a request  *)
(* is executed again only when the capacity has pushed it out, and not at  *)
(* all when the keys fit.                                                  *)
(***************************************************************************)
EXTENDS RequestCache, FiniteSetTheorems, TLAPS

(* The shape of one step that changes the cache.                           *)
Executes(key) ==
  Timely(key) /\ \E status, junk \in Statuses : Execute(key, status, junk)

LEMMA NextCases ==
  [Next]_vars => \/ UNCHANGED vars
                 \/ Tick
                 \/ \E key \in Keys : Replay(key)
                 \/ \E key \in Keys : Executes(key)
BY DEF Next, Executes

(* A step changes the cache only by executing a request outside            *)
(* at-least-once mode.                                                     *)
LEMMA CacheChange ==
  ASSUME NEW key, Executes(key)
  PROVE  \/ UNCHANGED <<processed, requestOrder>> /\ AtLeastOnce
         \/ /\ ~AtLeastOnce
            /\ Cached' = KeysKept \cup {key}
            /\ requestOrder' = Append(OrderKept, key)
            /\ \A k \in Cached' \ {key} : processed'[k] = processed[k]
            /\ processed'[key].time = now
            /\ processed'[key].response.status \in Statuses
BY CacheAssumption DEF Executes, Execute, Remember, Cached, Response

-----------------------------------------------------------------------------
(* The queue.                                                              *)

(* Every cached key is in the queue.                                       *)
Queued == \A k \in Cached : \E i \in 1..Len(requestOrder) : requestOrder[i] = k

(* So a full cache has a key to evict.                                     *)
LEMMA QueuedFront ==
  ASSUME Queued, Full
  PROVE  requestOrder # << >>
<1> SUFFICES ASSUME requestOrder = << >> PROVE FALSE
  OBVIOUS
<1>1. Cached = {}
  BY DEF Queued
<1>2. Cardinality(Cached) = 0
  BY <1>1, FS_EmptySet
<1> QED BY <1>2, CacheAssumption DEF Full

(* Making room.                                                            *)
LEMMA OrderKeptShape ==
  ASSUME requestOrder \in Seq(Keys), Queued
  PROVE  /\ OrderKept \in Seq(Keys)
         /\ Full => /\ Len(requestOrder) > 0
                    /\ Len(OrderKept) = Len(requestOrder) - 1
                    /\ \A i \in 1..Len(OrderKept) : OrderKept[i] = requestOrder[i + 1]
                    /\ Head(requestOrder) = requestOrder[1]
         /\ ~Full => OrderKept = requestOrder
BY QueuedFront DEF OrderKept

LEMMA QueuedStep ==
  ASSUME requestOrder \in Seq(Keys), Queued, [Next]_vars
  PROVE  Queued' /\ requestOrder' \in Seq(Keys)
<1>1. CASE UNCHANGED <<processed, requestOrder>>
  BY <1>1 DEF Queued, Cached
<1>2. ASSUME NEW key \in Keys, Executes(key), ~AtLeastOnce
      PROVE  Queued' /\ requestOrder' \in Seq(Keys)
  <2>1. Cached' = KeysKept \cup {key} /\ requestOrder' = Append(OrderKept, key)
    BY <1>2, CacheChange
  <2>2. OrderKept \in Seq(Keys)
    BY OrderKeptShape
  <2>3. /\ requestOrder' \in Seq(Keys)
        /\ Len(requestOrder') = Len(OrderKept) + 1
        /\ requestOrder'[Len(OrderKept) + 1] = key
        /\ \A i \in 1..Len(OrderKept) : requestOrder'[i] = OrderKept[i]
    BY <2>1, <2>2
  <2>4. ASSUME NEW k \in KeysKept
        PROVE  \E i \in 1..Len(OrderKept) : OrderKept[i] = k
    <3>1. k \in Cached /\ (Full => k # Head(requestOrder))
      BY DEF KeysKept
    <3>2. PICK i \in 1..Len(requestOrder) : requestOrder[i] = k
      BY <3>1 DEF Queued
    <3>3. CASE Full
      <4>1. i # 1 /\ i - 1 \in 1..Len(OrderKept) /\ OrderKept[i - 1] = requestOrder[i - 1 + 1]
        BY <3>1, <3>2, <3>3, OrderKeptShape
      <4> QED BY <3>2, <4>1
    <3>4. CASE ~Full
      BY <3>2, <3>4, OrderKeptShape
    <3> QED BY <3>3, <3>4
  <2>5. Len(OrderKept) \in Nat
    BY <2>2
  <2>6. ASSUME NEW k \in Cached'
        PROVE  \E i \in 1..Len(requestOrder') : requestOrder'[i] = k
    <3>1. CASE k = key
      BY <2>3, <2>5, <3>1, Len(OrderKept) + 1 \in 1..(Len(OrderKept) + 1)
    <3>2. CASE k \in KeysKept
      <4>1. PICK i \in 1..Len(OrderKept) : OrderKept[i] = k
        BY <2>4, <3>2
      <4>2. i \in 1..Len(requestOrder')
        BY <2>3, <2>5
      <4> QED BY <2>3, <4>1, <4>2
    <3> QED BY <2>1, <3>1, <3>2
  <2> QED BY <2>3, <2>6 DEF Queued
<1>3. ASSUME NEW key \in Keys, Executes(key), AtLeastOnce
      PROVE  Queued' /\ requestOrder' \in Seq(Keys)
  BY <1>1, <1>3, CacheChange
<1> QED BY <1>1, <1>2, <1>3, NextCases DEF vars, Tick, Replay

(* The queue is never read when empty, in either mode and however late a   *)
(* key comes back.                                                         *)
THEOREM EvictionSafe == Spec => []EvictionDefined
<1> DEFINE QInv == requestOrder \in Seq(Keys) /\ Queued
<1>1. Init => QInv
  BY DEF Init, Queued, Cached
<1>2. QInv /\ [Next]_vars => QInv'
  BY QueuedStep
<1>3. QInv => EvictionDefined
  BY QueuedFront DEF EvictionDefined
<1> QED BY <1>1, <1>2, <1>3, PTL DEF Spec
-----------------------------------------------------------------------------
(* Type correctness.                                                       *)

LEMMA InitTypes ==
  Init => TypeOK
BY DEF Init, TypeOK, Cached

LEMMA TypesAndQueue ==
  TypeOK /\ Queued /\ [Next]_vars => TypeOK' /\ Queued'
<1> SUFFICES ASSUME TypeOK, Queued, [Next]_vars
             PROVE  TypeOK' /\ Queued'
  OBVIOUS
<1>1. requestOrder' \in Seq(Keys) /\ Queued'
  BY QueuedStep DEF TypeOK
<1>2. CASE UNCHANGED vars
  BY <1>1, <1>2 DEF vars, TypeOK, Cached
<1>3. CASE Tick
  BY <1>1, <1>3 DEF Tick, TypeOK, Cached
<1>4. ASSUME NEW key \in Keys, Replay(key)
      PROVE  TypeOK'
  BY <1>1, <1>4 DEF Replay, Arrives, TypeOK, Cached
<1>5. ASSUME NEW key \in Keys, Executes(key)
      PROVE  TypeOK'
  <2>1. PICK status \in Statuses, junk \in Statuses : Execute(key, status, junk)
    BY <1>5 DEF Executes
  <2>2. now' = now
    BY <2>1 DEF Execute
  <2>3. /\ DOMAIN firstSeen' \subseteq Keys
        /\ \A k \in DOMAIN firstSeen' : firstSeen'[k] \in 0..now'
    BY <2>1, <2>2 DEF Execute, Arrives, TypeOK
  <2>4. /\ Cached' \subseteq Keys
        /\ \A k \in Cached' : processed'[k].time \in 0..now'
                             /\ processed'[k].response.status \in Statuses
    <3>1. CASE UNCHANGED <<processed, requestOrder>>
      BY <2>2, <3>1 DEF TypeOK, Cached
    <3>2. CASE /\ Cached' = KeysKept \cup {key}
               /\ \A k \in Cached' \ {key} : processed'[k] = processed[k]
               /\ processed'[key].time = now
               /\ processed'[key].response.status \in Statuses
      BY <2>2, <3>2 DEF TypeOK, KeysKept
    <3> QED BY <1>5, <3>1, <3>2, CacheChange
  <2>5. executed' \in Seq([key : Keys, time : Nat, status : Statuses])
    BY <2>1 DEF Execute, TypeOK
  <2>6. now' \in Nat
    BY <2>2 DEF TypeOK
  <2> QED BY <1>1, <2>3, <2>4, <2>5, <2>6 DEF TypeOK
<1> QED BY <1>1, <1>2, <1>3, <1>4, <1>5, NextCases

(* Every variable keeps its shape.                                         *)
THEOREM TypeCorrect == Spec => []TypeOK
<1>1. Init => TypeOK /\ Queued
  BY InitTypes DEF Init, Queued, Cached
<1> QED BY <1>1, TypesAndQueue, PTL DEF Spec

-----------------------------------------------------------------------------
(* Fresh entries.                                                          *)

(* A key that is in the cache arrived first no later than the entry says.  *)
Dated == \A k \in Cached : k \in DOMAIN firstSeen /\ firstSeen[k] <= processed[k].time

Prompt == Lifetime < (ExpirySeconds + 1) * TicksPerSecond

(* Less than n + 1 seconds of ticks make at most n whole seconds.          *)
LEMMA WholeSeconds ==
  ASSUME NEW t \in Nat, NEW n \in Nat, t < (n + 1) * TicksPerSecond
  PROVE  t \div TicksPerSecond <= n
<1> DEFINE q == t \div TicksPerSecond
           r == t % TicksPerSecond
<1>1. TicksPerSecond \in Nat /\ TicksPerSecond > 0
  BY CacheAssumption
<1>2. q \in Int /\ r \in Nat /\ t = TicksPerSecond * q + r
  BY <1>1
<1> HIDE DEF q, r
<1>3. SUFFICES ASSUME q >= n + 1 PROVE FALSE
  BY <1>2 DEF q
<1>4. TicksPerSecond * q >= TicksPerSecond * (n + 1)
  BY <1>1, <1>2, <1>3
<1> QED BY <1>1, <1>2, <1>4

(* So a key that arrives while it is cached is a duplicate: only keys that *)
(* are not cached are executed.                                            *)
LEMMA OnlyNewKeys ==
  ASSUME Prompt, ~AtLeastOnce, TypeOK, Dated, NEW key, Executes(key)
  PROVE  key \notin Cached
<1> SUFFICES ASSUME key \in Cached PROVE FALSE
  OBVIOUS
<1>1. now - firstSeen[key] <= Lifetime
  BY DEF Dated, Executes, Timely
<1>2. /\ now \in Nat /\ processed[key].time \in 0..now
      /\ firstSeen[key] \in Nat /\ firstSeen[key] <= processed[key].time
  BY DEF TypeOK, Dated
<1>3. now - processed[key].time \in Nat /\ now - processed[key].time <= Lifetime
  BY <1>1, <1>2, CacheAssumption
<1>4. now - processed[key].time < (ExpirySeconds + 1) * TicksPerSecond
  BY <1>3, CacheAssumption DEF Prompt
<1>5. Age(key) <= ExpirySeconds
  BY <1>3, <1>4, WholeSeconds, CacheAssumption DEF Age
<1> QED BY <1>5 DEF Executes, Execute, IsDuplicate
LEMMA DatedStep ==
  TypeOK /\ Dated /\ [Next]_vars => Dated'
<1> SUFFICES ASSUME TypeOK, Dated, [Next]_vars PROVE Dated'
  OBVIOUS
<1>1. CASE UNCHANGED <<processed, firstSeen>>
  BY <1>1 DEF Dated, Cached
<1>2. ASSUME NEW key \in Keys, Arrives(key)
      PROVE  /\ key \in DOMAIN firstSeen' /\ firstSeen'[key] <= now
             /\ \A k \in DOMAIN firstSeen : k \in DOMAIN firstSeen'
                                           /\ firstSeen'[k] = firstSeen[k]
  BY <1>2 DEF Arrives, TypeOK
<1>3. ASSUME NEW key \in Keys, Replay(key)
      PROVE  Dated'
  BY <1>2, <1>3 DEF Replay, Dated, Cached
<1>4. ASSUME NEW key \in Keys, Executes(key)
      PROVE  Dated'
  <2>1. Arrives(key)
    BY <1>4 DEF Executes, Execute
  <2>2. CASE UNCHANGED <<processed, requestOrder>>
    BY <1>2, <2>1, <2>2 DEF Dated, Cached
  <2>3. CASE /\ Cached' = KeysKept \cup {key}
             /\ \A k \in Cached' \ {key} : processed'[k] = processed[k]
             /\ processed'[key].time = now
    BY <1>2, <2>1, <2>3 DEF Dated, KeysKept
  <2> QED BY <1>4, <2>2, <2>3, CacheChange
<1> QED BY <1>1, <1>3, <1>4, NextCases DEF vars, Tick

-----------------------------------------------------------------------------
(* The queue of a prompt environment lists the cached keys, each once: the *)
(* keys executed last, as many as fit.                                     *)

Offset == Len(executed) - Len(requestOrder)

RecentKeys ==
  /\ Len(requestOrder) <= MaxProcessed
  /\ Offset \in Nat /\ (Offset > 0 => Len(requestOrder) = MaxProcessed)
  /\ \A i \in 1..Len(requestOrder) : /\ requestOrder[i] = executed[Offset + i].key
                                    /\ requestOrder[i] \in Cached

(* One entry per place in the queue.                                       *)
Counted == IsFiniteSet(Cached) /\ Cardinality(Cached) = Len(requestOrder)

(* Two executions of a key are more than MaxProcessed apart.               *)
Apart ==
  \A i, j \in 1..Len(executed) :
    i < j /\ executed[i].key = executed[j].key => j - i > MaxProcessed

PInv == TypeOK /\ Queued /\ Dated /\ RecentKeys /\ Counted /\ Apart

(* The state after executing a key that is not cached.                     *)
LEMMA ExecuteNew ==
  ASSUME ~AtLeastOnce, Prompt, PInv, NEW key \in Keys, Executes(key)
  PROVE  /\ key \notin Cached
         /\ Len(executed') = Len(executed) + 1
         /\ executed'[Len(executed) + 1].key = key
         /\ \A i \in 1..Len(executed) : executed'[i] = executed[i]
         /\ Cached' = KeysKept \cup {key}
         /\ requestOrder' = Append(OrderKept, key)
         /\ Len(executed) \in Nat /\ Len(requestOrder) \in Nat
         /\ Full <=> Len(requestOrder) = MaxProcessed
<1>1. key \notin Cached
  BY OnlyNewKeys DEF PInv
<1>2. PICK status \in Statuses, junk \in Statuses : Execute(key, status, junk)
  BY DEF Executes
<1>3. executed \in Seq([key : Keys, time : Nat, status : Statuses]) /\ requestOrder \in Seq(Keys)
  BY DEF PInv, TypeOK
<1>4. executed' = Append(executed, [key |-> key, time |-> now, status |-> status])
  BY <1>2 DEF Execute
<1>5. /\ Len(executed') = Len(executed) + 1
      /\ executed'[Len(executed) + 1].key = key
      /\ \A i \in 1..Len(executed) : executed'[i] = executed[i]
  BY <1>3, <1>4
<1>6. Len(executed) \in Nat /\ Len(requestOrder) \in Nat
  BY <1>3
<1>7. Full <=> Len(requestOrder) = MaxProcessed
  BY <1>6, CacheAssumption DEF PInv, Counted, RecentKeys, Full
<1> QED BY <1>1, <1>5, <1>6, <1>7, CacheChange

LEMMA ExecuteKeepsRecent ==
  ASSUME ~AtLeastOnce, Prompt, PInv, NEW key \in Keys, Executes(key)
  PROVE  RecentKeys'
<1> DEFINE n == Len(executed)
           m == Len(requestOrder)
           kept == Len(OrderKept)
<1>1. n \in Nat /\ m \in Nat /\ MaxProcessed \in Nat /\ MaxProcessed > 0
  BY ExecuteNew, CacheAssumption
<1>2. /\ OrderKept \in Seq(Keys)
      /\ Full => kept = m - 1 /\ \A i \in 1..kept : OrderKept[i] = requestOrder[i + 1]
      /\ ~Full => kept = m /\ \A i \in 1..kept : OrderKept[i] = requestOrder[i]
  BY OrderKeptShape DEF PInv, TypeOK
<1>3. /\ Len(requestOrder') = kept + 1
      /\ requestOrder'[kept + 1] = key
      /\ \A i \in 1..kept : requestOrder'[i] = OrderKept[i]
  BY <1>2, ExecuteNew
<1>4. Len(executed') = n + 1
  BY ExecuteNew
<1>5. Full <=> m = MaxProcessed
  BY ExecuteNew
<1>6. m <= MaxProcessed /\ n - m \in Nat /\ (n - m > 0 => m = MaxProcessed)
  BY DEF PInv, RecentKeys, Offset
<1>7. kept + 1 <= MaxProcessed /\ kept \in Nat
  BY <1>1, <1>2, <1>5, <1>6
<1>8. /\ Offset' = n - kept /\ Offset' \in Nat
      /\ Offset' > 0 => kept + 1 = MaxProcessed
  <2>1. Offset' = n + 1 - (kept + 1)
    BY <1>3, <1>4 DEF Offset
  <2> QED BY <1>1, <1>2, <1>5, <1>6, <1>7, <2>1
<1>9. ASSUME NEW i \in 1..(kept + 1)
      PROVE  requestOrder'[i] = executed'[Offset' + i].key /\ requestOrder'[i] \in Cached'
  <2>1. CASE i = kept + 1
    BY <1>1, <1>3, <1>7, <1>8, <2>1, ExecuteNew
  <2>2. CASE i \in 1..kept /\ Full
    <3>1. i + 1 \in 1..m /\ i + 1 # 1 /\ 1 \in 1..m
      BY <1>1, <1>2, <2>2
    <3>2. requestOrder'[i] = requestOrder[i + 1]
      BY <1>2, <1>3, <2>2
    <3>3. requestOrder[i + 1] = executed[n - m + (i + 1)].key /\ requestOrder[i + 1] \in Cached
      BY <3>1 DEF PInv, RecentKeys, Offset
    <3>4. n - m + (i + 1) = Offset' + i /\ n - m + (i + 1) \in 1..n
      <4>1. kept = m - 1 /\ i \in 1..kept /\ n \in Nat /\ m \in Nat /\ n - m \in Nat
        BY <1>1, <1>2, <1>6, <2>2
      <4>2. Offset' = n - kept
        BY <1>8
      <4> HIDE DEF n, m, kept
      <4> QED BY <4>1, <4>2
    <3>5. executed'[Offset' + i] = executed[n - m + (i + 1)]
      BY <3>4, ExecuteNew
    <3>6. requestOrder[i + 1] # Head(requestOrder)
      <4>1. requestOrder[1] = executed[n - m + 1].key /\ Head(requestOrder) = requestOrder[1]
        BY <2>2, <3>1, OrderKeptShape DEF PInv, TypeOK, RecentKeys, Offset
      <4>2. n - m + 1 \in 1..n /\ n - m + 1 < n - m + (i + 1)
            /\ ~(n - m + (i + 1) - (n - m + 1) > MaxProcessed)
        BY <1>1, <1>2, <1>6, <2>2
      <4>3. executed[n - m + 1].key # executed[n - m + (i + 1)].key
        BY <3>4, <4>2 DEF PInv, Apart
      <4> QED BY <3>3, <4>1, <4>3
    <3>7. requestOrder[i + 1] \in Cached'
      BY <3>3, <3>6, ExecuteNew DEF KeysKept
    <3> QED BY <3>2, <3>3, <3>5, <3>7
  <2>3. CASE i \in 1..kept /\ ~Full
    <3>1. requestOrder'[i] = requestOrder[i] /\ i \in 1..m
      BY <1>2, <1>3, <2>3
    <3>2. requestOrder[i] = executed[n - m + i].key /\ requestOrder[i] \in Cached
      BY <3>1 DEF PInv, RecentKeys, Offset
    <3>3. n - m + i = Offset' + i /\ n - m + i \in 1..n
      BY <1>1, <1>2, <1>6, <1>8, <2>3
    <3>4. executed'[Offset' + i] = executed[n - m + i]
      BY <3>3, ExecuteNew
    <3>5. requestOrder[i] \in Cached'
      BY <2>3, <3>2, ExecuteNew DEF KeysKept
    <3> QED BY <3>1, <3>2, <3>4, <3>5
  <2> QED BY <1>7, <2>1, <2>2, <2>3
<1> HIDE DEF n, m, kept
<1> QED BY <1>3, <1>7, <1>8, <1>9 DEF RecentKeys
LEMMA ExecuteKeepsApart ==
  ASSUME ~AtLeastOnce, Prompt, PInv, NEW key \in Keys, Executes(key)
  PROVE  Apart'
<1> DEFINE n == Len(executed)
           m == Len(requestOrder)
<1>1. n \in Nat /\ m \in Nat /\ MaxProcessed \in Nat
  BY ExecuteNew, CacheAssumption
<1>2. m <= MaxProcessed /\ n - m \in Nat /\ (n - m > 0 => m = MaxProcessed)
  BY DEF PInv, RecentKeys, Offset
<1>3. Len(executed') = n + 1 /\ executed'[n + 1].key = key
  BY ExecuteNew
<1>4. \A i \in 1..n : executed'[i] = executed[i]
  BY ExecuteNew
<1>5. ASSUME NEW i \in 1..n, executed[i].key = key
      PROVE  n + 1 - i > MaxProcessed
  <2>1. SUFFICES ASSUME i > n - m PROVE FALSE
    BY <1>1, <1>2
  <2>2. i - (n - m) \in 1..m /\ n - m + (i - (n - m)) = i
    BY <1>1, <1>2, <2>1
  <2>3. executed[i].key \in Cached
    BY <2>2 DEF PInv, RecentKeys, Offset
  <2> QED BY <1>5, <2>3, ExecuteNew
<1>6. ASSUME NEW i \in 1..(n + 1), NEW j \in 1..(n + 1), i < j,
             executed'[i].key = executed'[j].key
      PROVE  j - i > MaxProcessed
  <2>1. i \in 1..n
    BY <1>1, <1>6
  <2>2. CASE j = n + 1
    BY <1>3, <1>4, <1>5, <1>6, <2>1, <2>2
  <2>3. CASE j \in 1..n
    BY <1>4, <1>6, <2>1, <2>3 DEF PInv, Apart
  <2> QED BY <1>1, <2>2, <2>3
<1> HIDE DEF n, m
<1> QED BY <1>3, <1>6 DEF Apart

LEMMA ExecuteKeepsCount ==
  ASSUME ~AtLeastOnce, Prompt, PInv, NEW key \in Keys, Executes(key)
  PROVE  Counted'
<1>1. IsFiniteSet(Cached) /\ Cardinality(Cached) = Len(requestOrder) /\ key \notin Cached
  BY ExecuteNew DEF PInv, Counted
<1>2. OrderKept \in Seq(Keys) /\ Len(OrderKept) \in Nat /\ Len(requestOrder) \in Nat
  BY OrderKeptShape, ExecuteNew DEF PInv, TypeOK
<1>3. Len(requestOrder') = Len(OrderKept) + 1
  BY <1>2, ExecuteNew
<1>4. IsFiniteSet(KeysKept) /\ Cardinality(KeysKept) = Len(OrderKept) /\ key \notin KeysKept
  <2>1. CASE ~Full
    BY <1>1, <2>1 DEF KeysKept, OrderKept
  <2>2. CASE Full
    <3>1. Head(requestOrder) \in Cached /\ Len(OrderKept) = Len(requestOrder) - 1
      <4>1. Len(requestOrder) > 0 /\ Head(requestOrder) = requestOrder[1]
            /\ Len(OrderKept) = Len(requestOrder) - 1
        BY <2>2, OrderKeptShape DEF PInv, TypeOK
      <4> QED BY <1>2, <4>1, 1 \in 1..Len(requestOrder) DEF PInv, RecentKeys
    <3>2. /\ IsFiniteSet(Cached \ {Head(requestOrder)})
          /\ Cardinality(Cached \ {Head(requestOrder)}) = Cardinality(Cached) - 1
      BY <1>1, <3>1, FS_RemoveElement
    <3> QED BY <1>1, <2>2, <3>1, <3>2 DEF KeysKept
  <2> QED BY <2>1, <2>2
<1>5. IsFiniteSet(KeysKept \cup {key}) /\ Cardinality(KeysKept \cup {key}) = Len(OrderKept) + 1
  BY <1>4, FS_AddElement
<1>6. Cached' = KeysKept \cup {key}
  BY ExecuteNew
<1> QED BY <1>3, <1>5, <1>6 DEF Counted

LEMMA PromptStep ==
  ASSUME ~AtLeastOnce, Prompt
  PROVE  PInv /\ [Next]_vars => PInv'
<1> SUFFICES ASSUME PInv, [Next]_vars PROVE PInv'
  OBVIOUS
<1>1. TypeOK' /\ Queued' /\ Dated'
  BY TypesAndQueue, DatedStep DEF PInv
<1>2. CASE UNCHANGED <<processed, requestOrder, executed>>
  BY <1>1, <1>2 DEF PInv, RecentKeys, Offset, Counted, Apart, Cached
<1>3. ASSUME NEW key \in Keys, Executes(key)
      PROVE  PInv'
  BY <1>1, <1>3, ExecuteKeepsRecent, ExecuteKeepsCount, ExecuteKeepsApart DEF PInv
<1> QED BY <1>2, <1>3, NextCases DEF vars, Tick, Replay

LEMMA PromptInit ==
  Init => PInv
<1> SUFFICES ASSUME Init PROVE PInv
  OBVIOUS
<1>1. Cached = {} /\ Len(requestOrder) = 0 /\ Len(executed) = 0
  BY DEF Init, Cached
<1>2. Counted
  BY <1>1, FS_EmptySet DEF Counted
<1>3. Queued /\ Dated /\ Apart
  BY <1>1 DEF Queued, Dated, Apart
<1>4. RecentKeys
  BY <1>1, CacheAssumption DEF RecentKeys, Offset
<1> QED BY <1>2, <1>3, <1>4, InitTypes DEF PInv

LEMMA PromptInvariance ==
  ASSUME ~AtLeastOnce, Prompt
  PROVE  Spec => []PInv
<1>1. PInv /\ [Next]_vars => PInv'
  BY PromptStep
<1> QED BY <1>1, PromptInit, PTL DEF Spec

(* When keys come again only while their entries are fresh, the map never  *)
(* holds more than MaxProcessed of them.                                   *)
THEOREM CapacityKept ==
  ASSUME ~AtLeastOnce, Prompt
  PROVE  Spec => []CapacityRespected
<1>1. PInv => CapacityRespected
  BY DEF PInv, Counted, RecentKeys, CapacityRespected
<1> QED BY <1>1, PromptInvariance, PTL

(* ...and a request is executed a second time only after MaxProcessed      *)
(* others have been.                                                       *)
THEOREM RetentionKept ==
  ASSUME ~AtLeastOnce, Prompt
  PROVE  Spec => []Retained
<1>1. PInv => Retained
  <2>1. TypeOK => DOMAIN executed = 1..Len(executed)
    BY DEF TypeOK
  <2> QED BY <2>1 DEF PInv, Apart, Retained
<1> QED BY <1>1, PromptInvariance, PTL
-----------------------------------------------------------------------------
(* At most once.  Until more keys have come than fit, none is evicted: so  *)
(* every key that was executed is cached, and only keys that are not are   *)
(* executed.                                                               *)

Seen == DOMAIN firstSeen

AllFit == Cardinality(Seen) <= MaxProcessed

OnceInv ==
  /\ PInv
  /\ IsFiniteSet(Seen)
  /\ AllFit =>
       /\ \A i \in 1..Len(executed) : executed[i].key \in Cached
       /\ \A i, j \in 1..Len(executed) : executed[i].key = executed[j].key => i = j

(* A step adds at most one key to those seen, so they were fewer before.   *)
LEMMA SeenGrows ==
  ASSUME IsFiniteSet(Seen), [Next]_vars
  PROVE  /\ IsFiniteSet(Seen') /\ Seen \subseteq Seen'
         /\ Cardinality(Seen') <= MaxProcessed => AllFit
<1>1. Seen' = Seen \/ \E key \in Keys : Seen' = Seen \cup {key}
  BY NextCases DEF vars, Tick, Replay, Executes, Execute, Arrives, Seen
<1>2. IsFiniteSet(Seen') /\ Seen \subseteq Seen'
  BY <1>1, FS_AddElement
<1>3. /\ Cardinality(Seen) <= Cardinality(Seen')
      /\ Cardinality(Seen) \in Nat /\ Cardinality(Seen') \in Nat
  BY <1>2, FS_Subset, FS_CardinalityType
<1> QED BY <1>2, <1>3, CacheAssumption DEF AllFit

LEMMA RoomForNew ==
  ASSUME ~AtLeastOnce, Prompt, PInv, NEW key \in Keys, Executes(key),
         IsFiniteSet(Seen'), Cardinality(Seen') <= MaxProcessed
  PROVE  ~Full
<1>1. key \notin Cached /\ Cached \subseteq Seen
  BY ExecuteNew DEF PInv, Dated, Seen
<1>2. key \in Seen' /\ Seen \subseteq Seen'
  BY DEF Executes, Execute, Arrives, Seen
<1>3. PICK S : S = Seen'
  OBVIOUS
<1>4. /\ IsFiniteSet(S \ {key}) /\ Cardinality(S \ {key}) = Cardinality(S) - 1
      /\ Cardinality(S) \in Nat
  BY <1>2, <1>3, FS_RemoveElement, FS_CardinalityType
<1>5. Cached \subseteq S \ {key}
  BY <1>1, <1>2, <1>3
<1>6. Cardinality(Cached) <= Cardinality(S) - 1 /\ Cardinality(Cached) \in Nat
  BY <1>4, <1>5, FS_Subset, FS_CardinalityType
<1> QED BY <1>3, <1>4, <1>6, CacheAssumption DEF Full

LEMMA OnceStep ==
  ASSUME ~AtLeastOnce, Prompt
  PROVE  OnceInv /\ [Next]_vars => OnceInv'
<1> SUFFICES ASSUME OnceInv, [Next]_vars PROVE OnceInv'
  OBVIOUS
<1>1. PInv'
  BY PromptStep DEF OnceInv
<1>2. IsFiniteSet(Seen') /\ (AllFit' => AllFit)
  BY SeenGrows DEF OnceInv, AllFit
<1>3. CASE UNCHANGED <<processed, requestOrder, executed>>
  BY <1>1, <1>2, <1>3 DEF OnceInv, Cached
<1>4. ASSUME NEW key \in Keys, Executes(key)
      PROVE  OnceInv'
  <2> SUFFICES ASSUME AllFit'
               PROVE  /\ \A i \in 1..Len(executed') : executed'[i].key \in Cached'
                      /\ \A i, j \in 1..Len(executed') :
                           executed'[i].key = executed'[j].key => i = j
    BY <1>1, <1>2 DEF OnceInv
  <2>1. PInv /\ ~Full
    BY <1>2, <1>4, RoomForNew DEF OnceInv, AllFit
  <2>2. /\ key \notin Cached /\ Cached' = Cached \cup {key}
        /\ Len(executed') = Len(executed) + 1 /\ Len(executed) \in Nat
        /\ executed'[Len(executed) + 1].key = key
        /\ \A i \in 1..Len(executed) : executed'[i] = executed[i]
    BY <1>4, <2>1, ExecuteNew DEF KeysKept
  <2>3. /\ \A i \in 1..Len(executed) : executed[i].key \in Cached
        /\ \A i, j \in 1..Len(executed) : executed[i].key = executed[j].key => i = j
    BY <1>2 DEF OnceInv
  <2>4. \A i \in 1..Len(executed') : executed'[i].key \in Cached'
    BY <2>2, <2>3
  <2>5. ASSUME NEW i \in 1..Len(executed'), NEW j \in 1..Len(executed'),
               executed'[i].key = executed'[j].key
        PROVE  i = j
    <3>1. CASE i \in 1..Len(executed) /\ j \in 1..Len(executed)
      BY <2>2, <2>3, <2>5, <3>1
    <3>2. CASE i = Len(executed) + 1 /\ j \in 1..Len(executed)
      BY <2>2, <2>3, <2>5, <3>2
    <3>3. CASE i \in 1..Len(executed) /\ j = Len(executed) + 1
      BY <2>2, <2>3, <2>5, <3>3
    <3> QED BY <2>2, <3>1, <3>2, <3>3
  <2> QED BY <2>4, <2>5
<1> QED BY <1>3, <1>4, NextCases DEF vars, Tick, Replay

(* Until more requests have come than it has room for, the server executes *)
(* none of them twice, as long as they are not resent after they expire.   *)
THEOREM ExecutedOnce ==
  ASSUME ~AtLeastOnce, Prompt
  PROVE  Spec => []AtMostOnce
<1>1. Init => OnceInv
  <2>1. Init => Seen = {}
    BY DEF Init, Seen
  <2> QED BY <2>1, PromptInit, FS_EmptySet DEF Init, OnceInv
<1>2. OnceInv /\ [Next]_vars => OnceInv'
  BY OnceStep
<1>3. OnceInv => AtMostOnce
  <2>1. TypeOK => DOMAIN executed = 1..Len(executed)
    BY DEF TypeOK
  <2> QED BY <2>1 DEF OnceInv, PInv, AtMostOnce, AllFit, Seen
<1> QED BY <1>1, <1>2, <1>3, PTL DEF Spec
=============================================================================
