------------------------ MODULE FacilityVectorProofs ------------------------
(***************************************************************************)
(* Theorems about FacilityVector, for all openings, request times, offsets *)
(* and ID spaces.  The two searches agree whatever the operations have     *)
(* done to the vector; as long as no booking is moved or extended, no      *)
(* moment of the room is given away twice; and a facility opened with half *)
(* hours does what Facility says, which counts its half hours.             *)
(*                                                                         *)
(* The vector's loops are recursive functions, and what they compute is    *)
(* shown by induction on how far they have come: the least number where a  *)
(* claim fails does not exist (CountUp).                                   *)
(***************************************************************************)
EXTENDS FacilityVector, SlotsProofs, SequenceTheorems, FiniteSetTheorems, WellFoundedInduction

-----------------------------------------------------------------------------
(* Induction over the natural numbers, on sets.                            *)

(* A set of natural numbers that is not empty has a smallest one.          *)
LEMMA Smallest ==
  ASSUME NEW T, T \subseteq Nat, T # {}
  PROVE  \E x \in T : \A y \in T : x <= y
<1> DEFINE R == {p \in Nat \X Nat : p[1] < p[2]}
<1>1. IsWellFoundedOn(R, Nat)
  BY NatLessThanWellFounded DEF OpToRel
<1>2. PICK x \in T : \A y \in T : ~(<<y, x>> \in R)
  <2> HIDE DEF R
  <2> QED BY <1>1, WFMin, Zenon
<1>3. \A y \in T : ~(y < x)
  BY <1>2
<1> QED BY <1>3

(* A set that has 0 and, with each number up to n, the next one.           *)
LEMMA CountUp ==
  ASSUME NEW n \in Nat, NEW T, 0 \in T, \A i \in 1..n : i - 1 \in T => i \in T
  PROVE  0..n \subseteq T
<1> SUFFICES ASSUME (0..n) \ T # {} PROVE FALSE
  OBVIOUS
<1>1. PICK x \in (0..n) \ T : \A y \in (0..n) \ T : x <= y
  <2>1. (0..n) \ T \subseteq Nat
    OBVIOUS
  <2> QED BY <2>1, Smallest
<1>2. x \in 1..n
  OBVIOUS
<1>3. x - 1 \in 0..n /\ x - 1 \notin (0..n) \ T
  BY <1>1, <1>2
<1> QED BY <1>2, <1>3

(* The values of a function that goes on from each one by a step stay in   *)
(* the set the steps stay in.                                              *)
LEMMA IteratesStay ==
  ASSUME NEW n \in Nat, NEW S, NEW f, f[0] \in S,
         \A i \in 1..n : f[i - 1] \in S => f[i] \in S
  PROVE  \A i \in 0..n : f[i] \in S
<1> DEFINE T == { i \in 0..n : f[i] \in S }
<1>1. 0 \in T
  OBVIOUS
<1>2. \A i \in 1..n : i - 1 \in T => i \in T
  OBVIOUS
<1>3. 0..n \subseteq T
  <2> HIDE DEF T
  <2> QED BY <1>1, <1>2, CountUp
<1> QED BY <1>3

(* A function that starts from x and goes on by the steps G.               *)
Iterating(f, n, x, G) == f[0] = x /\ \A i \in 1..n : f[i] = G[i][f[i - 1]]

(* There is such a function: what makes a recursive definition one.        *)
LEMMA Iterates ==
  ASSUME NEW n \in Nat, NEW S, NEW x \in S, NEW G \in [1..n -> [S -> S]]
  PROVE  \E f \in [0..n -> S] : Iterating(f, n, x, G)
<1> DEFINE Upto(k, f) == f \in [0..k -> S] /\ f[0] = x /\ \A i \in 1..k : f[i] = G[i][f[i - 1]]
           T == { k \in 0..n : \E f : Upto(k, f) }
<1>1. 0 \in T
  <2>1. Upto(0, [i \in 0..0 |-> x])
    OBVIOUS
  <2> HIDE DEF Upto
  <2> QED BY <2>1
<1>2. ASSUME NEW k \in 1..n, k - 1 \in T
      PROVE  k \in T
  <2>1. PICK f : Upto(k - 1, f)
    BY <1>2
  <2>2. PICK y : y = G[k][f[k - 1]]
    OBVIOUS
  <2>3. y \in S
    <3>1. f[k - 1] \in S
      BY <2>1
    <3> QED BY <2>2, <3>1
  <2>4. PICK g : g = [i \in 0..k |-> IF i = k THEN y ELSE f[i]]
    OBVIOUS
  <2>5. g \in [0..k -> S]
    <3>1. ASSUME NEW i \in 0..k, i # k PROVE f[i] \in S
      BY <2>1, <3>1
    <3> QED BY <2>3, <2>4, <3>1
  <2>6. g[0] = x
    BY <2>1, <2>4
  <2>7. ASSUME NEW i \in 1..k
        PROVE  g[i] = G[i][g[i - 1]]
    <3>1. i - 1 \in 0..k /\ i - 1 # k /\ g[i - 1] = f[i - 1]
      BY <2>4
    <3>2. CASE i = k
      BY <2>2, <2>4, <3>1, <3>2
    <3>3. CASE i # k
      <4>1. i \in 1..(k - 1) /\ g[i] = f[i]
        BY <2>4, <3>3
      <4> QED BY <2>1, <3>1, <4>1
    <3> QED BY <3>2, <3>3
  <2>8. Upto(k, g)
    BY <2>5, <2>6, <2>7
  <2> HIDE DEF Upto
  <2> QED BY <2>8
<1>3. 0..n \subseteq T
  <2> HIDE DEF T
  <2> QED BY <1>1, <1>2, CountUp
<1>4. n \in T
  BY <1>3
<1> QED BY <1>4 DEF Iterating

-----------------------------------------------------------------------------
(* The recursive functions of the model are what they say.                 *)

(* What std::remove keeps, slot by slot.                                   *)
LEMMA KeptSteps ==
  ASSUME NEW R, NEW v \in Seq(R), NEW parts
  PROVE  /\ Kept(v, parts)[0] = << >>
         /\ \A n \in 1..Len(v) :
              Kept(v, parts)[n] = IF v[n] \in parts THEN Kept(v, parts)[n - 1]
                                  ELSE Append(Kept(v, parts)[n - 1], v[n])
         /\ \A n \in 0..Len(v) : Kept(v, parts)[n] \in Seq(R)
<1>1. PICK S, n, x : S = Seq(R) /\ n = Len(v) /\ x = << >>
  OBVIOUS
<1> DEFINE Next1(w, i) == IF v[i] \in parts THEN w ELSE Append(w, v[i])
           G == [i \in 1..n |-> [w \in S |-> Next1(w, i)]]
           Steps(f) == [i \in 0..n |-> IF i = 0 THEN x ELSE Next1(f[i - 1], i)]
<1>2. n \in Nat /\ x \in S
  BY <1>1, LenProperties, EmptySeq
<1>3. \A w \in S, i \in 1..n : Next1(w, i) \in S
  <2>1. \A i \in 1..n : v[i] \in R
    BY <1>1, ElementOfSeq
  <2> QED BY <1>1, <2>1, AppendProperties
<1>4. \E f : f = Steps(f)
  <2> HIDE DEF Next1
  <2>1. PICK f \in [0..n -> S] : Iterating(f, n, x, G)
    <3>1. G \in [1..n -> [S -> S]]
      BY <1>3
    <3> HIDE DEF G
    <3> QED BY <1>2, <3>1, Iterates, Zenon
  <2>2. ASSUME NEW i \in 0..n PROVE f[i] = IF i = 0 THEN x ELSE Next1(f[i - 1], i)
    <3>1. CASE i \in 1..n
      <4>1. f[i - 1] \in S
        BY <1>2, <3>1
      <4> QED BY <2>1, <3>1, <4>1 DEF Iterating
    <3> QED BY <1>2, <2>1, <3>1 DEF Iterating
  <2> QED BY <2>2
<1>5. PICK k : k = Kept(v, parts)
  OBVIOUS
<1>6. k = Steps(k)
  <2>1. k = CHOOSE g : g = Steps(g)
    BY <1>1, <1>5, Zenon DEF Kept
  <2> HIDE DEF Steps
  <2> QED BY <1>4, <2>1, Zenon
<1>7. k[0] = x /\ \A i \in 1..n : k[i] = Next1(k[i - 1], i)
  <2> HIDE DEF Next1
  <2> QED BY <1>2, <1>6
<1>8. \A i \in 0..n : k[i] \in S
  <2>1. \A i \in 1..n : k[i - 1] \in S => k[i] \in S
    <3> HIDE DEF Next1
    <3> QED BY <1>3, <1>7
  <2> QED BY <1>2, <1>7, <2>1, IteratesStay
<1> QED BY <1>1, <1>5, <1>7, <1>8

-----------------------------------------------------------------------------
(* The sort.                                                               *)

(* What the vector holds: slots whose times need not fit in 16 bits.       *)
Interval == [day : Days, startTime : Nat, endTime : Nat]

(* Its fields are numbers, the day too.                                    *)
LEMMA IntervalTimes ==
  ASSUME NEW s \in Interval
  PROVE  s.day \in Days /\ s.day \in Int /\ s.startTime \in Nat /\ s.endTime \in Nat
<1>1. s.day \in Days /\ s.startTime \in Nat /\ s.endTime \in Nat
  BY DEF Interval
<1>2. \A d \in Days : d \in Int
  BY VectorAssumption
<1> QED BY <1>1, <1>2

Sorted(v) == \A i, j \in DOMAIN v : i < j => ~Earlier(v[j], v[i])

(* Places of a vector come one before the other.                           *)
LEMMA BeforeIsOrder ==
  ASSUME NEW v \in Seq(Interval)
  PROVE  /\ \A i \in DOMAIN v : i \notin SortedBefore(v, i)
         /\ \A i, j \in DOMAIN v : i # j => i \in SortedBefore(v, j) \/ j \in SortedBefore(v, i)
         /\ \A i, j \in DOMAIN v :
              i \in SortedBefore(v, j) => SortedBefore(v, i) \subseteq SortedBefore(v, j)
         /\ \A i, j \in DOMAIN v : Earlier(v[i], v[j]) => i \in SortedBefore(v, j)
<1>1. /\ DOMAIN v = 1..Len(v) /\ Len(v) \in Nat
      /\ \A i \in DOMAIN v : v[i].day \in Int /\ v[i].startTime \in Int /\ i \in Int
  BY LenProperties, ElementOfSeq, IntervalTimes
<1>2. ASSUME NEW i \in DOMAIN v
      PROVE  i \notin SortedBefore(v, i)
  BY <1>1 DEF SortedBefore, Earlier
<1>3. ASSUME NEW i \in DOMAIN v, NEW j \in DOMAIN v, i # j
      PROVE  i \in SortedBefore(v, j) \/ j \in SortedBefore(v, i)
  BY <1>1, <1>3 DEF SortedBefore, Earlier
<1>4. ASSUME NEW i \in DOMAIN v, NEW j \in DOMAIN v, i \in SortedBefore(v, j),
             NEW k \in SortedBefore(v, i)
      PROVE  k \in SortedBefore(v, j)
  <2>1. k \in DOMAIN v
    BY DEF SortedBefore
  <2> QED BY <1>1, <1>4, <2>1 DEF SortedBefore, Earlier
<1>5. ASSUME NEW i \in DOMAIN v, NEW j \in DOMAIN v, Earlier(v[i], v[j])
      PROVE  i \in SortedBefore(v, j)
  BY <1>5 DEF SortedBefore
<1> QED BY <1>2, <1>3, <1>4, <1>5

(* How many come before each: as many different numbers as there are       *)
(* places.                                                                 *)
LEMMA Ranks ==
  ASSUME NEW v \in Seq(Interval)
  PROVE  /\ \A i \in DOMAIN v : Cardinality(SortedBefore(v, i)) \in 0..(Len(v) - 1)
         /\ \A i, j \in DOMAIN v :
              i \in SortedBefore(v, j)
                <=> Cardinality(SortedBefore(v, i)) < Cardinality(SortedBefore(v, j))
         /\ \A k \in DOMAIN v : \E i \in DOMAIN v : Cardinality(SortedBefore(v, i)) = k - 1
<1> DEFINE rank(i) == Cardinality(SortedBefore(v, i))
<1>1. PICK n : n = Len(v)
  OBVIOUS
<1>2. DOMAIN v = 1..n /\ n \in Nat /\ IsFiniteSet(DOMAIN v) /\ Cardinality(DOMAIN v) = n
  <2>1. DOMAIN v = 1..n /\ n \in Nat
    BY <1>1, LenProperties
  <2> QED BY <2>1, FS_Interval
<1>3. ASSUME NEW i \in DOMAIN v
      PROVE  IsFiniteSet(SortedBefore(v, i)) /\ rank(i) \in 0..(n - 1)
  <2>1. SortedBefore(v, i) \subseteq DOMAIN v /\ i \notin SortedBefore(v, i)
    BY BeforeIsOrder DEF SortedBefore
  <2>2. SortedBefore(v, i) # DOMAIN v
    BY <2>1
  <2>3. IsFiniteSet(SortedBefore(v, i)) /\ rank(i) <= n /\ (rank(i) = n => SortedBefore(v, i) = DOMAIN v)
    BY <1>2, <2>1, FS_Subset
  <2>4. rank(i) \in Nat
    BY <2>3, FS_CardinalityType
  <2> QED BY <1>2, <2>2, <2>3, <2>4
<1>4. ASSUME NEW i \in DOMAIN v, NEW j \in DOMAIN v, i \in SortedBefore(v, j)
      PROVE  rank(i) < rank(j)
  <2>1. SortedBefore(v, i) \subseteq SortedBefore(v, j) /\ i \notin SortedBefore(v, i)
    BY <1>4, BeforeIsOrder
  <2>2. SortedBefore(v, i) # SortedBefore(v, j)
    BY <1>4, <2>1
  <2>3. rank(i) <= rank(j) /\ (rank(i) = rank(j) => SortedBefore(v, i) = SortedBefore(v, j))
    BY <1>3, <2>1, FS_Subset
  <2> QED BY <1>3, <2>2, <2>3
<1>5. ASSUME NEW i \in DOMAIN v, NEW j \in DOMAIN v, rank(i) < rank(j)
      PROVE  i \in SortedBefore(v, j)
  <2>1. rank(i) \in Int /\ rank(j) \in Int
    BY <1>3
  <2>2. i # j /\ j \notin SortedBefore(v, i)
    BY <1>4, <1>5, <2>1
  <2> QED BY <2>2, BeforeIsOrder
<1>6. ASSUME NEW k \in DOMAIN v, \A i \in DOMAIN v : rank(i) # k - 1
      PROVE  FALSE
  <2> DEFINE T == (0..(n - 1)) \ {k - 1}
             f == [i \in DOMAIN v |-> rank(i)]
  <2>1. IsFiniteSet(T) /\ Cardinality(T) < Cardinality(DOMAIN v)
    <3>1. IsFiniteSet(0..(n - 1)) /\ Cardinality(0..(n - 1)) = n
      BY <1>2, FS_Interval
    <3>2. k - 1 \in 0..(n - 1)
      BY <1>2
    <3>3. IsFiniteSet(T) /\ Cardinality(T) = n - 1
      BY <3>1, <3>2, FS_RemoveElement
    <3> QED BY <1>2, <3>3
  <2>2. f \in [DOMAIN v -> T]
    BY <1>3, <1>6
  <2>3. PICK i \in DOMAIN v, j \in DOMAIN v : i # j /\ f[i] = f[j]
    <3> HIDE DEF T, f
    <3> QED BY <1>2, <2>1, <2>2, FS_PigeonHole
  <2>4. rank(i) = rank(j) /\ rank(i) \in Int
    BY <1>3, <2>3
  <2>5. rank(i) < rank(j) \/ rank(j) < rank(i)
    BY <1>4, <2>3, BeforeIsOrder
  <2> QED BY <2>4, <2>5
<1> QED BY <1>1, <1>3, <1>4, <1>5, <1>6

(* w has at each place what v has at place p of it, and p leaves none out. *)
Moved(v, w, p) ==
  /\ p \in [DOMAIN v -> DOMAIN v]
  /\ \A k, l \in DOMAIN v : k # l => p[k] # p[l]
  /\ \A i \in DOMAIN v : \E k \in DOMAIN v : p[k] = i
  /\ \A k \in DOMAIN v : w[k] = v[p[k]]

(* The sort moves the slots to other places, one to each, and leaves them  *)
(* in order.                                                               *)
LEMMA SortMoves ==
  ASSUME NEW v \in Seq(Interval)
  PROVE  /\ SortAvailableSlots(v) \in Seq(Interval)
         /\ Len(SortAvailableSlots(v)) = Len(v)
         /\ \E p : Moved(v, SortAvailableSlots(v), p)
         /\ Sorted(SortAvailableSlots(v))
<1> DEFINE rank(i) == Cardinality(SortedBefore(v, i))
           p == [k \in DOMAIN v |-> CHOOSE i \in DOMAIN v : rank(i) = k - 1]
<1>1. PICK w : w = SortAvailableSlots(v)
  OBVIOUS
<1>2. w = [k \in DOMAIN v |-> v[p[k]]]
  BY <1>1 DEF SortAvailableSlots
<1>3. \A k \in DOMAIN v : \E i \in DOMAIN v : rank(i) = k - 1
  BY Ranks
<1>4. \A k \in DOMAIN v : p[k] \in DOMAIN v /\ rank(p[k]) = k - 1
  <2> HIDE DEF rank
  <2> QED BY <1>3
<1>5. /\ \A i \in DOMAIN v : rank(i) \in 0..(Len(v) - 1)
      /\ \A i, j \in DOMAIN v : i \in SortedBefore(v, j) <=> rank(i) < rank(j)
  BY Ranks
<1>6. DOMAIN v = 1..Len(v) /\ Len(v) \in Nat /\ \A i \in DOMAIN v : v[i] \in Interval
  BY LenProperties, ElementOfSeq
<1>7. p \in [DOMAIN v -> DOMAIN v]
  BY <1>4
<1> HIDE DEF p, rank
<1>8. w \in Seq(Interval) /\ Len(w) = Len(v) /\ DOMAIN w = DOMAIN v
  <2>1. w \in [1..Len(v) -> Interval]
    BY <1>2, <1>6, <1>7
  <2>2. w \in Seq(Interval)
    BY <1>6, <2>1, IsASeq
  <2> QED BY <1>6, <2>1, <2>2, LenProperties
<1>9. \A k, l \in DOMAIN v : k # l => p[k] # p[l]
  BY <1>4, <1>6
<1>10. ASSUME NEW i \in DOMAIN v
       PROVE  \E k \in DOMAIN v : p[k] = i
  <2>1. PICK k : k = rank(i) + 1
    OBVIOUS
  <2>2. k \in DOMAIN v /\ k - 1 = rank(i)
    BY <1>5, <1>6, <2>1
  <2>3. p[k] \in DOMAIN v /\ rank(p[k]) = rank(i) /\ rank(i) \in Int
    BY <1>4, <1>5, <2>2
  <2>4. p[k] = i
    <3>1. i \notin SortedBefore(v, p[k]) /\ p[k] \notin SortedBefore(v, i)
      BY <1>5, <2>3
    <3> QED BY <2>3, <3>1, BeforeIsOrder
  <2> QED BY <2>2, <2>4
<1>11. Sorted(w)
  <2>1. ASSUME NEW k \in DOMAIN v, NEW l \in DOMAIN v, k < l, Earlier(v[p[l]], v[p[k]])
        PROVE  FALSE
    <3>1. p[l] \in SortedBefore(v, p[k])
      BY <1>4, <2>1, BeforeIsOrder
    <3>2. rank(p[l]) < rank(p[k])
      BY <1>4, <1>5, <3>1
    <3> QED BY <1>4, <1>6, <2>1, <3>2
  <2> QED BY <1>2, <1>8, <2>1 DEF Sorted
<1>12. Moved(v, w, p)
  <2>1. \A k \in DOMAIN v : w[k] = v[p[k]]
    BY <1>2
  <2> QED BY <1>7, <1>9, <1>10, <2>1 DEF Moved
<1> QED BY <1>1, <1>8, <1>11, <1>12

(* One round of isAvailable's loop, and one step of bookSlot's.            *)
Matching(v, slot, now) == { i \in DOMAIN v : Continues(v[i], slot.day, now, slot.endTime) }

Round(v, slot, now) ==
  IF now < slot.endTime /\ Matching(v, slot, now) # {}
  THEN v[Min(Matching(v, slot, now))].endTime ELSE now

Look(v, slot, m, n) ==
  IF Continues(v[n], slot.day, m.currentStart, slot.endTime)
  THEN [matched |-> m.matched \cup {n}, currentStart |-> v[n].endTime]
  ELSE m

(* The smallest place of a set is one of them.                             *)
LEMMA SmallestPlace ==
  ASSUME NEW T, T \subseteq Nat, T # {}
  PROVE  Min(T) \in T /\ \A y \in T : Min(T) <= y
<1>1. \E x \in T : \A y \in T : x <= y
  BY Smallest
<1> QED BY <1>1 DEF Min

(* Each round reaches a time.                                              *)
LEMMA RoundInNat ==
  ASSUME NEW v \in Seq(Interval), NEW slot, NEW now \in Nat
  PROVE  Round(v, slot, now) \in Nat
<1>1. CASE Matching(v, slot, now) # {}
  <2>1. \A i \in DOMAIN v : i \in Nat /\ v[i].endTime \in Nat
    BY LenProperties, ElementOfSeq, IntervalTimes
  <2>2. Matching(v, slot, now) \subseteq DOMAIN v
    BY DEF Matching
  <2>3. Min(Matching(v, slot, now)) \in DOMAIN v
    BY <1>1, <2>1, <2>2, SmallestPlace
  <2> QED BY <2>1, <2>3 DEF Round
<1> QED BY <1>1 DEF Round

(* initFacilities: the vector grows by one slot at a time.                 *)
LEMMA OpenedSteps ==
  ASSUME NEW o \in Seq(Interval)
  PROVE  /\ Opened(o)[0] = << >>
         /\ \A n \in 1..Len(o) : Opened(o)[n] = AddAvailability(Opened(o)[n - 1], o[n])
         /\ \A n \in 0..Len(o) : Opened(o)[n] \in Seq(Interval)
<1>1. PICK S, n, x : S = Seq(Interval) /\ n = Len(o) /\ x = << >>
  OBVIOUS
<1> DEFINE Go(w, i) == AddAvailability(w, o[i])
           G == [i \in 1..n |-> [w \in S |-> Go(w, i)]]
           Steps(f) == [i \in 0..n |-> IF i = 0 THEN x ELSE Go(f[i - 1], i)]
<1>2. n \in Nat /\ x \in S
  BY <1>1, LenProperties, EmptySeq
<1>3. \A w \in S, i \in 1..n : Go(w, i) \in S
  <2>1. \A i \in 1..n : o[i] \in Interval
    BY <1>1, ElementOfSeq
  <2>2. \A w \in S, i \in 1..n : Append(w, o[i]) \in S
    BY <1>1, <2>1, AppendProperties
  <2> QED BY <1>1, <2>2, SortMoves DEF AddAvailability
<1>4. \E f : f = Steps(f)
  <2> HIDE DEF Go
  <2>1. PICK f \in [0..n -> S] : Iterating(f, n, x, G)
    <3>1. G \in [1..n -> [S -> S]]
      BY <1>3
    <3> HIDE DEF G
    <3> QED BY <1>2, <3>1, Iterates, Zenon
  <2>2. ASSUME NEW i \in 0..n PROVE f[i] = IF i = 0 THEN x ELSE Go(f[i - 1], i)
    <3>1. CASE i \in 1..n
      <4>1. f[i - 1] \in S
        BY <1>2, <3>1
      <4> QED BY <2>1, <3>1, <4>1 DEF Iterating
    <3> QED BY <1>2, <2>1, <3>1 DEF Iterating
  <2> QED BY <2>2
<1>5. PICK k : k = Opened(o)
  OBVIOUS
<1>6. k = Steps(k)
  <2>1. k = CHOOSE g : g = Steps(g)
    BY <1>1, <1>5, Zenon DEF Opened
  <2> HIDE DEF Steps
  <2> QED BY <1>4, <2>1, Zenon
<1>7. k[0] = x /\ \A i \in 1..n : k[i] = Go(k[i - 1], i)
  <2> HIDE DEF Go
  <2> QED BY <1>2, <1>6
<1>8. \A i \in 0..n : k[i] \in S
  <2>1. \A i \in 1..n : k[i - 1] \in S => k[i] \in S
    <3> HIDE DEF Go
    <3> QED BY <1>3, <1>7
  <2> QED BY <1>2, <1>7, <2>1, IteratesStay
<1> QED BY <1>1, <1>5, <1>7, <1>8

(* isAvailable, round by round.                                            *)
LEMMA ReachedSteps ==
  ASSUME NEW v \in Seq(Interval), NEW slot \in Interval
  PROVE  /\ Reached(v, slot)[0] = slot.startTime
         /\ \A n \in 1..Len(v) :
              Reached(v, slot)[n] = Round(v, slot, Reached(v, slot)[n - 1])
         /\ \A n \in 0..Len(v) : Reached(v, slot)[n] \in Nat
<1>1. PICK S, n, x : S = Nat /\ n = Len(v) /\ x = slot.startTime
  OBVIOUS
<1> DEFINE Go(w, i) == Round(v, slot, w)
           G == [i \in 1..n |-> [w \in S |-> Go(w, i)]]
           Steps(f) == [i \in 0..n |-> IF i = 0 THEN x ELSE Go(f[i - 1], i)]
<1>2. n \in Nat /\ x \in S
  BY <1>1, LenProperties, IntervalTimes
<1>3. \A w \in S, i \in 1..n : Go(w, i) \in S
  <2>1. \A w \in Nat : Round(v, slot, w) \in Nat
    BY RoundInNat
  <2> QED BY <1>1, <2>1
<1>4. \E f : f = Steps(f)
  <2> HIDE DEF Go
  <2>1. PICK f \in [0..n -> S] : Iterating(f, n, x, G)
    <3>1. G \in [1..n -> [S -> S]]
      BY <1>3
    <3> HIDE DEF G
    <3> QED BY <1>2, <3>1, Iterates, Zenon
  <2>2. ASSUME NEW i \in 0..n PROVE f[i] = IF i = 0 THEN x ELSE Go(f[i - 1], i)
    <3>1. CASE i \in 1..n
      <4>1. f[i - 1] \in S
        BY <1>2, <3>1
      <4> QED BY <2>1, <3>1, <4>1 DEF Iterating
    <3> QED BY <1>2, <2>1, <3>1 DEF Iterating
  <2> QED BY <2>2
<1>5. PICK k : k = Reached(v, slot)
  OBVIOUS
<1>6. k = Steps(k)
  <2>1. k = CHOOSE g : g = Steps(g)
    BY <1>1, <1>5, Zenon DEF Reached, Round, Matching
  <2> HIDE DEF Steps
  <2> QED BY <1>4, <2>1, Zenon
<1>7. k[0] = x /\ \A i \in 1..n : k[i] = Go(k[i - 1], i)
  <2> HIDE DEF Go
  <2> QED BY <1>2, <1>6
<1>8. \A i \in 0..n : k[i] \in S
  <2>1. \A i \in 1..n : k[i - 1] \in S => k[i] \in S
    <3> HIDE DEF Go
    <3> QED BY <1>3, <1>7
  <2> QED BY <1>2, <1>7, <2>1, IteratesStay
<1> QED BY <1>1, <1>5, <1>7, <1>8

(* bookSlot's pass, slot by slot.                                          *)
LEMMA PassSteps ==
  ASSUME NEW v \in Seq(Interval), NEW slot \in Interval
  PROVE  /\ Pass(v, slot)[0] = [matched |-> {}, currentStart |-> slot.startTime]
         /\ \A n \in 1..Len(v) :
              Pass(v, slot)[n] = Look(v, slot, Pass(v, slot)[n - 1], n)
         /\ \A n \in 0..Len(v) :
              Pass(v, slot)[n] \in [matched : SUBSET DOMAIN v, currentStart : Nat]
<1>1. PICK S, n, x : /\ S = [matched : SUBSET DOMAIN v, currentStart : Nat] /\ n = Len(v)
                     /\ x = [matched |-> {}, currentStart |-> slot.startTime]
  OBVIOUS
<1> DEFINE Go(w, i) == Look(v, slot, w, i)
           G == [i \in 1..n |-> [w \in S |-> Go(w, i)]]
           Steps(f) == [i \in 0..n |-> IF i = 0 THEN x ELSE Go(f[i - 1], i)]
<1>2. n \in Nat /\ x \in S
  BY <1>1, LenProperties, IntervalTimes
<1>3. \A w \in S, i \in 1..n : Go(w, i) \in S
  <2>1. \A i \in 1..n : i \in DOMAIN v /\ v[i].endTime \in Nat
    BY <1>1, LenProperties, ElementOfSeq, IntervalTimes
  <2> QED BY <1>1, <2>1 DEF Look
<1>4. \E f : f = Steps(f)
  <2> HIDE DEF Go
  <2>1. PICK f \in [0..n -> S] : Iterating(f, n, x, G)
    <3>1. G \in [1..n -> [S -> S]]
      BY <1>3
    <3> HIDE DEF G
    <3> QED BY <1>2, <3>1, Iterates, Zenon
  <2>2. ASSUME NEW i \in 0..n PROVE f[i] = IF i = 0 THEN x ELSE Go(f[i - 1], i)
    <3>1. CASE i \in 1..n
      <4>1. f[i - 1] \in S
        BY <1>2, <3>1
      <4> QED BY <2>1, <3>1, <4>1 DEF Iterating
    <3> QED BY <1>2, <2>1, <3>1 DEF Iterating
  <2> QED BY <2>2
<1>5. PICK k : k = Pass(v, slot)
  OBVIOUS
<1>6. k = Steps(k)
  <2>1. k = CHOOSE g : g = Steps(g)
    BY <1>1, <1>5, Zenon DEF Pass, Look
  <2> HIDE DEF Steps
  <2> QED BY <1>4, <2>1, Zenon
<1>7. k[0] = x /\ \A i \in 1..n : k[i] = Go(k[i - 1], i)
  <2> HIDE DEF Go
  <2> QED BY <1>2, <1>6
<1>8. \A i \in 0..n : k[i] \in S
  <2>1. \A i \in 1..n : k[i - 1] \in S => k[i] \in S
    <3> HIDE DEF Go
    <3> QED BY <1>3, <1>7
  <2> QED BY <1>2, <1>7, <2>1, IteratesStay
<1> QED BY <1>1, <1>5, <1>7, <1>8

-----------------------------------------------------------------------------
(* The erasures.                                                           *)

(* w is what v has at the places of I, in the same order: at place k what  *)
(* v has at place p[k].                                                    *)
Taken(v, I, w, p) ==
  /\ p \in [DOMAIN w -> I]
  /\ \A k, l \in DOMAIN w : k < l => p[k] < p[l]
  /\ \A i \in I : \E k \in DOMAIN w : p[k] = i
  /\ \A k \in DOMAIN w : w[k] = v[p[k]]

(* RemoveAt leaves what stands before the place and moves down the rest.   *)
LEMMA RemoveAtProperties ==
  ASSUME NEW R, NEW w \in Seq(R), NEW i \in 1..Len(w)
  PROVE  /\ RemoveAt(w, i) \in Seq(R)
         /\ Len(RemoveAt(w, i)) = Len(w) - 1
         /\ \A k \in 1..(Len(w) - 1) :
              RemoveAt(w, i)[k] = w[IF k < i THEN k ELSE k + 1]
<1> DEFINE a == SubSeq(w, 1, i - 1)
           b == SubSeq(w, i + 1, Len(w))
<1>1. Len(w) \in Nat
  BY LenProperties
<1>2. a \in Seq(R) /\ Len(a) = i - 1 /\ \A k \in 1..(i - 1) : a[k] = w[k]
  BY <1>1, SubSeqProperties
<1>3. b \in Seq(R) /\ Len(b) = Len(w) - i /\ \A k \in 1..(Len(w) - i) : b[k] = w[k + i]
  BY <1>1, SubSeqProperties
<1>4. RemoveAt(w, i) = a \o b
  BY DEF RemoveAt
<1> HIDE DEF a, b
<1>5. /\ a \o b \in Seq(R) /\ Len(a \o b) = Len(w) - 1
      /\ \A k \in 1..(Len(w) - 1) : (a \o b)[k] = IF k <= i - 1 THEN a[k] ELSE b[k - (i - 1)]
  <2>1. /\ a \o b \in Seq(R) /\ Len(a \o b) = Len(a) + Len(b)
        /\ \A k \in 1..(Len(a) + Len(b)) : (a \o b)[k] = IF k <= Len(a) THEN a[k] ELSE b[k - Len(a)]
    BY <1>2, <1>3, ConcatProperties
  <2>2. Len(a) = i - 1 /\ Len(b) = Len(w) - i /\ Len(a) + Len(b) = Len(w) - 1
    BY <1>1, <1>2, <1>3
  <2> QED BY <2>1, <2>2
<1>6. ASSUME NEW k \in 1..(Len(w) - 1)
      PROVE  (a \o b)[k] = w[IF k < i THEN k ELSE k + 1]
  <2>1. CASE k < i
    BY <1>1, <1>2, <1>5, <2>1
  <2>2. CASE ~(k < i)
    <3>1. k - (i - 1) \in 1..(Len(w) - i) /\ k - (i - 1) + i = k + 1
      BY <1>1, <2>2
    <3> QED BY <1>1, <1>3, <1>5, <2>2, <3>1
  <2> QED BY <2>1, <2>2
<1> QED BY <1>4, <1>5, <1>6

Agree(p, q, n) == \A k \in 1..n : q[k] = p[k]

(* One place less: p skips it.                                             *)
LEMMA TakenRemove ==
  ASSUME NEW R, NEW v \in Seq(R), NEW I, I \subseteq DOMAIN v, NEW w \in Seq(R), NEW p, Taken(v, I, w, p),
         NEW i \in 1..Len(w)
  PROVE  \E q : /\ Taken(v, I \ {p[i]}, RemoveAt(w, i), q)
                /\ Agree(p, q, i - 1)
<1> DEFINE u == RemoveAt(w, i)
           q == [k \in 1..(Len(w) - 1) |-> p[IF k < i THEN k ELSE k + 1]]
<1>1. Len(w) \in Nat /\ DOMAIN w = 1..Len(w) /\ \A j \in I : j \in Int
  BY LenProperties
<1>2. u \in Seq(R) /\ DOMAIN u = 1..(Len(w) - 1)
      /\ \A k \in 1..(Len(w) - 1) : u[k] = w[IF k < i THEN k ELSE k + 1]
  <2>1. u \in Seq(R) /\ Len(u) = Len(w) - 1
        /\ \A k \in 1..(Len(w) - 1) : u[k] = w[IF k < i THEN k ELSE k + 1]
    BY RemoveAtProperties
  <2> QED BY <2>1, LenProperties
<1>3. \A k \in DOMAIN w : p[k] \in I
  BY DEF Taken
<1>4. \A k, l \in DOMAIN w : k < l => p[k] < p[l]
  BY DEF Taken
<1>5. \A k, l \in DOMAIN w : k # l => p[k] # p[l]
  BY <1>1, <1>3, <1>4
<1> HIDE DEF u
<1>6. \A k \in DOMAIN u : (IF k < i THEN k ELSE k + 1) \in DOMAIN w /\ (IF k < i THEN k ELSE k + 1) # i
  BY <1>1, <1>2
<1>7. q \in [DOMAIN u -> I \ {p[i]}]
  BY <1>1, <1>2, <1>3, <1>5, <1>6
<1>8. ASSUME NEW k \in DOMAIN u, NEW l \in DOMAIN u, k < l
      PROVE  q[k] < q[l]
  <2>1. PICK kk, ll : kk = (IF k < i THEN k ELSE k + 1) /\ ll = (IF l < i THEN l ELSE l + 1)
    OBVIOUS
  <2>2. q[k] = p[kk] /\ q[l] = p[ll] /\ kk \in DOMAIN w /\ ll \in DOMAIN w
    BY <1>2, <1>6, <2>1
  <2>3. kk < ll
    BY <1>1, <1>2, <1>8, <2>1
  <2> QED BY <1>4, <2>2, <2>3
<1>9. ASSUME NEW j \in I \ {p[i]}
      PROVE  \E k \in DOMAIN u : q[k] = j
  <2>1. PICK k \in DOMAIN w : p[k] = j
    BY DEF Taken
  <2>2. CASE k < i
    BY <1>1, <1>2, <2>1, <2>2
  <2>3. CASE k > i
    <3>1. k - 1 \in DOMAIN u /\ ~(k - 1 < i) /\ k - 1 + 1 = k
      BY <1>1, <1>2, <2>3
    <3> QED BY <1>1, <1>2, <2>1, <3>1
  <2>4. k # i /\ k \in Int /\ i \in Int
    BY <1>1, <2>1
  <2> QED BY <2>2, <2>3, <2>4
<1>10. ASSUME NEW k \in DOMAIN u
       PROVE  u[k] = v[q[k]]
  BY <1>2, <1>6 DEF Taken
<1>11. Agree(p, q, i - 1)
  BY <1>1 DEF Agree
<1>12. Taken(v, I \ {p[i]}, u, q)
  <2> HIDE DEF q
  <2> QED BY <1>7, <1>8, <1>9, <1>10 DEF Taken
<1> HIDE DEF q
<1> QED BY <1>11, <1>12 DEF u

(* One place more, at the end.                                             *)
LEMMA TakenAppend ==
  ASSUME NEW R, NEW v \in Seq(R), NEW n \in DOMAIN v, NEW I, I \subseteq 1..(n - 1),
         NEW w \in Seq(R), NEW p, Taken(v, I, w, p)
  PROVE  \E q : Taken(v, I \cup {n}, Append(w, v[n]), q)
<1> DEFINE u == Append(w, v[n])
           q == [k \in 1..(Len(w) + 1) |-> IF k = Len(w) + 1 THEN n ELSE p[k]]
<1>1. /\ Len(w) \in Nat /\ DOMAIN w = 1..Len(w) /\ n \in Nat
      /\ \A j \in I : j \in Int /\ j < n
  BY LenProperties
<1>2. v[n] \in R
  BY ElementOfSeq, LenProperties
<1>3. u \in Seq(R) /\ DOMAIN u = 1..(Len(w) + 1) /\ u[Len(w) + 1] = v[n]
      /\ \A k \in 1..Len(w) : u[k] = w[k]
  <2>1. u \in Seq(R) /\ Len(u) = Len(w) + 1 /\ u[Len(w) + 1] = v[n]
        /\ \A k \in 1..Len(w) : u[k] = w[k]
    BY <1>2, AppendProperties
  <2> QED BY <2>1, LenProperties
<1> HIDE DEF u
<1>4. \A k \in DOMAIN u : k = Len(w) + 1 \/ k \in DOMAIN w
  BY <1>1, <1>3
<1>5. \A k \in DOMAIN w : k # Len(w) + 1 /\ q[k] = p[k] /\ k \in DOMAIN u
  BY <1>1, <1>3
<1>6. q[Len(w) + 1] = n /\ Len(w) + 1 \in DOMAIN u
  BY <1>1, <1>3
<1>7. \A k \in DOMAIN w : p[k] \in I
  BY DEF Taken
<1>8. q \in [DOMAIN u -> I \cup {n}]
  BY <1>3, <1>4, <1>7
<1> HIDE DEF q
<1>9. ASSUME NEW k \in DOMAIN u, NEW l \in DOMAIN u, k < l
      PROVE  q[k] < q[l]
  <2>1. k \in DOMAIN w
    BY <1>1, <1>3, <1>9
  <2>2. CASE l \in DOMAIN w
    BY <1>5, <1>9, <2>1, <2>2 DEF Taken
  <2>3. CASE l = Len(w) + 1
    BY <1>1, <1>5, <1>6, <1>7, <2>1, <2>3
  <2> QED BY <1>4, <2>2, <2>3
<1>10. \A j \in I \cup {n} : \E k \in DOMAIN u : q[k] = j
  BY <1>5, <1>6 DEF Taken
<1>11. \A k \in DOMAIN u : u[k] = v[q[k]]
  BY <1>1, <1>3, <1>4, <1>5, <1>6 DEF Taken
<1>12. Taken(v, I \cup {n}, u, q)
  BY <1>8, <1>9, <1>10, <1>11 DEF Taken
<1> QED BY <1>12 DEF u

(* std::remove keeps the places of the slots that are not to go.           *)
LEMMA KeptTaken ==
  ASSUME NEW R, NEW v \in Seq(R), NEW parts
  PROVE  /\ Kept(v, parts)[Len(v)] \in Seq(R)
         /\ \E p : Taken(v, { i \in DOMAIN v : v[i] \notin parts }, Kept(v, parts)[Len(v)], p)
<1> DEFINE I(n) == { i \in 1..n : v[i] \notin parts }
           T == { n \in 0..Len(v) : \E p : Taken(v, I(n), Kept(v, parts)[n], p) }
<1>1. Len(v) \in Nat /\ DOMAIN v = 1..Len(v)
  BY LenProperties
<1>2. PICK kept : kept = Kept(v, parts)
  OBVIOUS
<1>3. /\ kept[0] = << >>
      /\ \A n \in 1..Len(v) :
           kept[n] = IF v[n] \in parts THEN kept[n - 1] ELSE Append(kept[n - 1], v[n])
      /\ \A n \in 0..Len(v) : kept[n] \in Seq(R)
  BY <1>2, KeptSteps
<1>4. 0 \in T
  <2>1. I(0) = {}
    OBVIOUS
  <2>2. DOMAIN << >> = {}
    OBVIOUS
  <2>3. PICK e : e = << >>
    OBVIOUS
  <2>4. Taken(v, {}, e, e)
    BY <2>2, <2>3 DEF Taken
  <2>5. Taken(v, I(0), Kept(v, parts)[0], e)
    <3> HIDE DEF I
    <3> QED BY <1>2, <1>3, <2>1, <2>3, <2>4
  <2>6. 0 \in 0..Len(v)
    BY <1>1
  <2> HIDE DEF I
  <2> QED BY <2>5, <2>6
<1>5. ASSUME NEW n \in 1..Len(v), n - 1 \in T
      PROVE  n \in T
  <2>1. PICK p : Taken(v, I(n - 1), kept[n - 1], p)
    BY <1>2, <1>5
  <2>2. kept[n - 1] \in Seq(R) /\ n \in DOMAIN v
    BY <1>1, <1>3
  <2>3. CASE v[n] \in parts
    <3>1. I(n) = I(n - 1)
      BY <1>1, <2>3
    <3>2. kept[n] = kept[n - 1]
      BY <1>3, <2>3
    <3> HIDE DEF I
    <3> QED BY <1>2, <2>1, <3>1, <3>2
  <2>4. CASE v[n] \notin parts
    <3>1. I(n) = I(n - 1) \cup {n} /\ I(n - 1) \subseteq 1..(n - 1)
      BY <1>1, <2>4
    <3>2. kept[n] = Append(kept[n - 1], v[n])
      BY <1>3, <2>4
    <3> HIDE DEF I
    <3>3. PICK q : Taken(v, I(n - 1) \cup {n}, Append(kept[n - 1], v[n]), q)
      BY <2>1, <2>2, <3>1, TakenAppend
    <3>4. Taken(v, I(n), Kept(v, parts)[n], q)
      BY <1>2, <3>1, <3>2, <3>3, Zenon
    <3>5. n \in 0..Len(v)
      BY <1>1
    <3> QED BY <3>4, <3>5
  <2> QED BY <2>3, <2>4
<1>6. 0..Len(v) \subseteq T
  <2> HIDE DEF T
  <2> QED BY <1>1, <1>4, <1>5, CountUp
<1>7. Len(v) \in T
  <2> HIDE DEF T
  <2> QED BY <1>1, <1>6
<1>8. I(Len(v)) = { i \in DOMAIN v : v[i] \notin parts }
  BY <1>1
<1> HIDE DEF I
<1> QED BY <1>1, <1>2, <1>3, <1>7, <1>8

(* One round of the loop that erases by index.                             *)
EraseRound(v, matched, w, n) ==
  IF Len(v) + 1 - n \in matched THEN RemoveAt(w, Len(v) + 1 - n) ELSE w

(* From the back, each round removes the place of v it means: those in     *)
(* front of it have not moved.                                             *)
LEMMA RoundsTake ==
  ASSUME NEW R, NEW v \in Seq(R), NEW matched, NEW f, f[0] = v,
         \A n \in 1..Len(v) :
           EraseRound(v, matched, f[n - 1], n) \in Seq(R) => f[n] = EraseRound(v, matched, f[n - 1], n)
  PROVE  /\ \A n \in 0..Len(v) : f[n] \in Seq(R)
         /\ \A n \in 1..Len(v) : EraseRound(v, matched, f[n - 1], n) \in Seq(R)
         /\ \E p : Taken(v, DOMAIN v \ matched, f[Len(v)], p)
<1> DEFINE I(n) == { i \in DOMAIN v : i > Len(v) - n => i \notin matched }
           Ahead(n, p) == \A k \in 1..(Len(v) - n) : k \in DOMAIN f[n] /\ p[k] = k
           T == { n \in 0..Len(v) :
                    f[n] \in Seq(R) /\ \E p : Taken(v, I(n), f[n], p) /\ Ahead(n, p) }
<1>1. Len(v) \in Nat /\ DOMAIN v = 1..Len(v)
  BY LenProperties
<1>2. 0 \in T
  <2>1. I(0) = DOMAIN v
    BY <1>1
  <2>2. PICK p : p = [k \in DOMAIN v |-> k]
    OBVIOUS
  <2>3. Taken(v, DOMAIN v, v, p)
    BY <1>1, <2>2 DEF Taken
  <2>4. Ahead(0, p)
    BY <1>1, <2>2
  <2> HIDE DEF I, Ahead
  <2> QED BY <1>1, <2>1, <2>3, <2>4
<1>3. ASSUME NEW n \in 1..Len(v), n - 1 \in T
      PROVE  EraseRound(v, matched, f[n - 1], n) \in Seq(R) /\ n \in T
  <2>1. PICK w : w = f[n - 1]
    OBVIOUS
  <2>2. PICK p : Taken(v, I(n - 1), w, p) /\ Ahead(n - 1, p)
    BY <1>3, <2>1
  <2>3. PICK i : i = Len(v) + 1 - n
    OBVIOUS
  <2>4. w \in Seq(R) /\ i \in 1..Len(w) /\ p[i] = i /\ i \in DOMAIN v /\ i \in DOMAIN w
    <3>1. w \in Seq(R)
      BY <1>3, <2>1
    <3>2. i \in 1..(Len(v) - (n - 1))
      BY <1>1, <2>3
    <3>3. i \in DOMAIN w /\ p[i] = i
      BY <2>1, <2>2, <3>2
    <3> QED BY <1>1, <2>3, <3>1, <3>3, LenProperties
  <2>5. CASE i \in matched
    <3>1. I(n) = I(n - 1) \ {i}
      BY <1>1, <2>3, <2>5
    <3>2. I(n - 1) \subseteq DOMAIN v
      OBVIOUS
    <3>3. EraseRound(v, matched, w, n) = RemoveAt(w, i) /\ RemoveAt(w, i) \in Seq(R)
      BY <2>3, <2>4, <2>5, RemoveAtProperties DEF EraseRound
    <3>4. f[n] = RemoveAt(w, i)
      BY <2>1, <3>3
    <3>5. PICK q : Taken(v, I(n - 1) \ {p[i]}, RemoveAt(w, i), q) /\ Agree(p, q, i - 1)
      <4>1. PICK J : J = I(n - 1)
        OBVIOUS
      <4> HIDE DEF I, Ahead
      <4>2. Taken(v, J, w, p) /\ J \subseteq DOMAIN v
        BY <2>2, <3>2, <4>1
      <4>3. \E q : Taken(v, J \ {p[i]}, RemoveAt(w, i), q) /\ Agree(p, q, i - 1)
        BY <2>4, <4>2, TakenRemove
      <4> QED BY <4>1, <4>3
    <3>6. Ahead(n, q)
      <4>1. ASSUME NEW k \in 1..(Len(v) - n)
            PROVE  k \in DOMAIN f[n] /\ q[k] = k
        <5>1. k \in 1..(i - 1) /\ k \in 1..(Len(v) - (n - 1))
          BY <1>1, <2>3
        <5>2. q[k] = k
          BY <2>2, <3>5, <5>1 DEF Agree
        <5>3. Len(RemoveAt(w, i)) = Len(w) - 1 /\ Len(w) \in Nat
          BY <2>4, RemoveAtProperties, LenProperties
        <5>4. DOMAIN RemoveAt(w, i) = 1..(Len(w) - 1)
          BY <3>3, <5>3, LenProperties
        <5>5. k \in 1..(Len(w) - 1)
          BY <2>4, <5>1, <5>3
        <5> QED BY <3>4, <5>2, <5>4, <5>5
      <4> QED BY <4>1
    <3>7. EraseRound(v, matched, f[n - 1], n) \in Seq(R) /\ f[n] \in Seq(R) /\ n \in 0..Len(v)
      BY <1>1, <2>1, <3>3, <3>4
    <3> HIDE DEF I, Ahead
    <3>8. Taken(v, I(n), f[n], q)
      BY <2>4, <3>1, <3>4, <3>5, Zenon
    <3> QED BY <3>6, <3>7, <3>8
  <2>6. CASE i \notin matched
    <3>1. I(n) = I(n - 1)
      BY <1>1, <2>3, <2>6
    <3>2. EraseRound(v, matched, w, n) = w
      BY <2>3, <2>6 DEF EraseRound
    <3>3. f[n] = w
      BY <2>1, <2>4, <3>2
    <3>4. Ahead(n, p)
      BY <1>1, <2>1, <2>2, <3>3
    <3> HIDE DEF I, Ahead
    <3> QED BY <1>1, <2>1, <2>2, <2>4, <3>1, <3>2, <3>3, <3>4
  <2> QED BY <2>5, <2>6
<1>4. 0..Len(v) \subseteq T
  <2> HIDE DEF T
  <2> QED BY <1>1, <1>2, <1>3, CountUp
<1>5. I(Len(v)) = DOMAIN v \ matched
  BY <1>1
<1>6. Len(v) \in T /\ \A n \in 1..Len(v) : n - 1 \in T
  <2> HIDE DEF T
  <2> QED BY <1>1, <1>4
<1>7. \A n \in 0..Len(v) : f[n] \in Seq(R)
  BY <1>4
<1>8. \E p : Taken(v, I(Len(v)), f[Len(v)], p)
  BY <1>6
<1> HIDE DEF I, Ahead, T
<1> QED BY <1>3, <1>5, <1>6, <1>7, <1>8

(* So erasing by index takes exactly the matches out of the vector.        *)
LEMMA ErasedTaken ==
  ASSUME NEW R, NEW v \in Seq(R), NEW matched
  PROVE  /\ EraseMatched(v, matched) \in Seq(R)
         /\ \E p : Taken(v, DOMAIN v \ matched, EraseMatched(v, matched), p)
<1>1. PICK S, n : S = Seq(R) /\ n = Len(v)
  OBVIOUS
<1> DEFINE Go(w, i) == EraseRound(v, matched, w, i)
           G == [i \in 1..n |-> [w \in S |-> IF Go(w, i) \in S THEN Go(w, i) ELSE w]]
           Steps(f) == [i \in 0..n |-> IF i = 0 THEN v ELSE Go(f[i - 1], i)]
<1>2. n \in Nat /\ v \in S
  BY <1>1, LenProperties
<1>3. \E f : f = Steps(f)
  <2> HIDE DEF Go
  <2>1. PICK f \in [0..n -> S] : Iterating(f, n, v, G)
    <3>1. G \in [1..n -> [S -> S]]
      OBVIOUS
    <3> HIDE DEF G
    <3> QED BY <1>2, <3>1, Iterates, Zenon
  <2>2. f[0] = v /\ \A i \in 1..n : Go(f[i - 1], i) \in S => f[i] = Go(f[i - 1], i)
    <3>1. ASSUME NEW i \in 1..n, Go(f[i - 1], i) \in S
          PROVE  f[i] = Go(f[i - 1], i)
      <4>1. f[i - 1] \in S
        BY <1>2
      <4> QED BY <2>1, <3>1, <4>1 DEF Iterating
    <3> QED BY <2>1, <3>1 DEF Iterating
  <2>3. \A i \in 1..n : Go(f[i - 1], i) \in S
    BY <1>1, <2>2, RoundsTake DEF Go
  <2>4. ASSUME NEW i \in 0..n PROVE f[i] = IF i = 0 THEN v ELSE Go(f[i - 1], i)
    <3>1. i = 0 \/ i \in 1..n
      BY <1>2
    <3> QED BY <2>2, <2>3, <3>1
  <2> QED BY <2>4
<1>4. PICK k : k = Erased(v, matched)
  OBVIOUS
<1>5. k = Steps(k)
  <2>1. k = CHOOSE g : g = Steps(g)
    BY <1>1, <1>4, Zenon DEF Erased, EraseRound
  <2> HIDE DEF Steps
  <2> QED BY <1>3, <2>1, Zenon
<1>6. k[0] = v /\ \A i \in 1..n : k[i] = Go(k[i - 1], i)
  <2> HIDE DEF Go
  <2> QED BY <1>2, <1>5
<1>7. /\ \A i \in 0..n : k[i] \in S
      /\ \E p : Taken(v, DOMAIN v \ matched, k[n], p)
  BY <1>1, <1>6, RoundsTake
<1>8. EraseMatched(v, matched) = k[n]
  BY <1>1, <1>4 DEF EraseMatched
<1> QED BY <1>1, <1>2, <1>7, <1>8

-----------------------------------------------------------------------------
(* The searches.                                                           *)

(* A vector the searches can be trusted with: its slots have some length   *)
(* and are in order.                                                       *)
Searchable(v) ==
  v \in Seq(Interval) /\ (\A i \in DOMAIN v : v[i].startTime < v[i].endTime) /\ Sorted(v)

Covers(s, t) == s.startTime <= t /\ t < s.endTime

(* After n slots of bookSlot's pass: the matches lie within the requested  *)
(* time, one after the other, and fill it from its start to the time       *)
(* reached.                                                                *)
Filled(v, slot, m, n) ==
  /\ m.matched \subseteq 1..n
  /\ slot.startTime <= m.currentStart
  /\ \A i \in m.matched : /\ v[i].day = slot.day
                          /\ slot.startTime <= v[i].startTime
                          /\ v[i].endTime <= m.currentStart /\ v[i].endTime <= slot.endTime
  /\ \A i, j \in m.matched : i < j => v[i].endTime <= v[j].startTime
  /\ \A t \in Nat : slot.startTime <= t /\ t < m.currentStart =>
                      \E i \in m.matched : Covers(v[i], t)
  /\ m.currentStart = slot.startTime
     \/ \E i \in m.matched : v[i].endTime = m.currentStart

(* It is so at every slot of the pass.                                     *)
LEMMA PassFills ==
  ASSUME NEW v \in Seq(Interval), \A i \in DOMAIN v : v[i].startTime < v[i].endTime,
         NEW slot \in Interval
  PROVE  \A n \in 0..Len(v) : Filled(v, slot, Pass(v, slot)[n], n)
<1> DEFINE pass == Pass(v, slot)
           T == { n \in 0..Len(v) : Filled(v, slot, pass[n], n) }
<1>1. Len(v) \in Nat /\ DOMAIN v = 1..Len(v) /\ slot.startTime \in Nat /\ slot.endTime \in Nat
  BY LenProperties, IntervalTimes
<1>2. /\ pass[0] = [matched |-> {}, currentStart |-> slot.startTime]
      /\ \A n \in 1..Len(v) : pass[n] = Look(v, slot, pass[n - 1], n)
      /\ \A n \in 0..Len(v) : pass[n] \in [matched : SUBSET DOMAIN v, currentStart : Nat]
  BY PassSteps
<1>3. \A i \in DOMAIN v : v[i].startTime \in Nat /\ v[i].endTime \in Nat
  BY <1>1, ElementOfSeq, IntervalTimes
<1> HIDE DEF pass
<1>4. 0 \in T
  BY <1>1, <1>2 DEF Filled
<1>5. ASSUME NEW n \in 1..Len(v), n - 1 \in T
      PROVE  n \in T
  <2>1. PICK m, l : m = pass[n - 1] /\ l = pass[n]
    OBVIOUS
  <2>2. /\ Filled(v, slot, m, n - 1) /\ l = Look(v, slot, m, n)
        /\ n - 1 \in 0..Len(v) /\ n \in 0..Len(v) /\ n \in DOMAIN v
    BY <1>1, <1>2, <1>5, <2>1
  <2>3. m.currentStart \in Nat
    BY <1>2, <2>1, <2>2
  <2>4. Filled(v, slot, l, n)
    <3>1. CASE ~Continues(v[n], slot.day, m.currentStart, slot.endTime)
      <4>1. l = m /\ 1..(n - 1) \subseteq 1..n
        BY <1>1, <2>2, <3>1 DEF Look
      <4> QED BY <2>2, <4>1 DEF Filled
    <3>2. CASE Continues(v[n], slot.day, m.currentStart, slot.endTime)
      <4>1. l.matched = m.matched \cup {n} /\ l.currentStart = v[n].endTime
        BY <2>2, <3>2 DEF Look
      <4>2. v[n].day = slot.day /\ v[n].startTime = m.currentStart /\ v[n].endTime <= slot.endTime
        BY <3>2 DEF Continues
      <4>3. v[n].endTime \in Nat /\ m.currentStart < v[n].endTime
        BY <1>3, <2>2, <4>2
      <4>4. m.matched \subseteq 1..(n - 1) /\ slot.startTime <= m.currentStart
        BY <2>2 DEF Filled
      <4>5. l.matched \subseteq 1..n /\ slot.startTime <= l.currentStart
        BY <1>1, <2>3, <4>1, <4>3, <4>4
      <4>6. ASSUME NEW i \in l.matched
            PROVE  /\ v[i].day = slot.day /\ slot.startTime <= v[i].startTime
                   /\ v[i].endTime <= l.currentStart /\ v[i].endTime <= slot.endTime
        <5>1. CASE i = n
          BY <4>1, <4>2, <4>3, <4>4, <5>1
        <5>2. CASE i \in m.matched
          <6>1. /\ v[i].day = slot.day /\ slot.startTime <= v[i].startTime
                /\ v[i].endTime <= m.currentStart /\ v[i].endTime <= slot.endTime
            BY <2>2, <5>2 DEF Filled
          <6>2. v[i].endTime \in Nat
            <7>1. i \in DOMAIN v
              BY <1>1, <4>4, <5>2
            <7> QED BY <1>3, <7>1
          <6> QED BY <2>3, <4>1, <4>3, <6>1, <6>2
        <5> QED BY <4>1, <5>1, <5>2
      <4>7. ASSUME NEW t \in Nat, slot.startTime <= t, t < l.currentStart
            PROVE  \E i \in l.matched : Covers(v[i], t)
        <5>1. CASE t < m.currentStart
          BY <2>2, <4>1, <4>7, <5>1 DEF Filled
        <5>2. CASE m.currentStart <= t
          BY <4>1, <4>2, <4>7, <5>2 DEF Covers
        <5> QED BY <2>3, <5>1, <5>2
      <4>8. \E i \in l.matched : v[i].endTime = l.currentStart
        BY <4>1
      <4>9. ASSUME NEW i \in l.matched, NEW j \in l.matched, i < j
            PROVE  v[i].endTime <= v[j].startTime
        <5>1. i \in m.matched
          <6>1. j \in 1..n
            BY <4>5
          <6>2. i # n
            BY <4>9, <6>1
          <6> QED BY <4>1, <6>2
        <5>2. CASE j = n
          BY <2>2, <4>2, <5>1, <5>2 DEF Filled
        <5>3. CASE j \in m.matched
          BY <2>2, <4>9, <5>1, <5>3 DEF Filled
        <5> QED BY <4>1, <5>2, <5>3
      <4> QED BY <4>5, <4>6, <4>7, <4>8, <4>9 DEF Filled
    <3> QED BY <3>1, <3>2
  <2> QED BY <2>1, <2>2, <2>4
<1>6. 0..Len(v) \subseteq T
  <2> HIDE DEF T
  <2> QED BY <1>1, <1>4, <1>5, CountUp
<1> QED BY <1>6 DEF pass

(* In a sorted vector the pass is never ahead of the other search: the     *)
(* time it has reached is one isAvailable reaches, and nothing it has left *)
(* behind would continue from there.                                       *)
LEMMA PassFollows ==
  ASSUME NEW v, Searchable(v), NEW slot \in Interval
  PROVE  \A n \in 0..Len(v) :
           /\ \A j \in 1..n : ~Continues(v[j], slot.day, Pass(v, slot)[n].currentStart, slot.endTime)
           /\ \E r \in 0..n : Reached(v, slot)[r] = Pass(v, slot)[n].currentStart
<1> DEFINE pass == Pass(v, slot)
           reached == Reached(v, slot)
           Behind(n) == \A j \in 1..n : ~Continues(v[j], slot.day, pass[n].currentStart, slot.endTime)
           T == { n \in 0..Len(v) : Behind(n) /\ \E r \in 0..n : reached[r] = pass[n].currentStart }
<1>1. /\ v \in Seq(Interval) /\ (\A i \in DOMAIN v : v[i].startTime < v[i].endTime) /\ Sorted(v)
      /\ Len(v) \in Nat /\ DOMAIN v = 1..Len(v) /\ slot.endTime \in Nat
  BY LenProperties, IntervalTimes DEF Searchable
<1>2. \A i \in DOMAIN v : v[i].startTime \in Nat /\ v[i].endTime \in Nat /\ v[i].day \in Int
  BY <1>1, ElementOfSeq, IntervalTimes
<1>3. /\ pass[0].currentStart = slot.startTime
      /\ \A n \in 1..Len(v) : pass[n] = Look(v, slot, pass[n - 1], n)
      /\ \A n \in 0..Len(v) : pass[n].currentStart \in Nat
  <2>1. /\ pass[0] = [matched |-> {}, currentStart |-> slot.startTime]
        /\ \A n \in 1..Len(v) : pass[n] = Look(v, slot, pass[n - 1], n)
        /\ \A n \in 0..Len(v) : pass[n] \in [matched : SUBSET DOMAIN v, currentStart : Nat]
    BY <1>1, PassSteps
  <2> HIDE DEF pass
  <2> QED BY <2>1
<1>4. /\ reached[0] = slot.startTime
      /\ \A r \in 1..Len(v) : reached[r] = Round(v, slot, reached[r - 1])
  BY <1>1, ReachedSteps
<1> HIDE DEF pass, reached
<1>5. 0 \in T
  BY <1>1, <1>3, <1>4
<1>6. ASSUME NEW n \in 1..Len(v), n - 1 \in T
      PROVE  n \in T
  <2>1. PICK now : now = pass[n - 1].currentStart
    OBVIOUS
  <2>2. PICK r \in 0..(n - 1) : reached[r] = now
    BY <1>6, <2>1
  <2>3. /\ \A j \in 1..(n - 1) : ~Continues(v[j], slot.day, now, slot.endTime)
        /\ pass[n] = Look(v, slot, pass[n - 1], n) /\ n \in DOMAIN v /\ now \in Nat
    BY <1>1, <1>3, <1>6, <2>1
  <2>4. CASE ~Continues(v[n], slot.day, now, slot.endTime)
    <3>1. pass[n].currentStart = now
      BY <2>1, <2>3, <2>4 DEF Look
    <3>2. Behind(n)
      <4>1. \A j \in 1..n : j = n \/ j \in 1..(n - 1)
        BY <1>1
      <4> QED BY <2>3, <2>4, <3>1, <4>1
    <3>3. r \in 0..n /\ n \in 0..Len(v)
      BY <1>1
    <3> HIDE DEF Behind
    <3> QED BY <2>2, <3>1, <3>2, <3>3
  <2>5. CASE Continues(v[n], slot.day, now, slot.endTime)
    <3>1. pass[n].currentStart = v[n].endTime
      BY <2>1, <2>3, <2>5 DEF Look
    <3>2. /\ v[n].day = slot.day /\ v[n].startTime = now /\ v[n].endTime <= slot.endTime
          /\ now < v[n].endTime /\ v[n].endTime \in Nat
      BY <1>1, <1>2, <2>3, <2>5 DEF Continues
    <3>3. Behind(n)
      <4>1. ASSUME NEW j \in 1..n, Continues(v[j], slot.day, v[n].endTime, slot.endTime)
            PROVE  FALSE
        <5>1. v[j].day = slot.day /\ v[j].startTime = v[n].endTime /\ j \in DOMAIN v /\ j # n
          BY <1>1, <3>2, <4>1 DEF Continues
        <5>2. Earlier(v[n], v[j])
          BY <3>2, <5>1 DEF Earlier
        <5>3. j < n
          BY <1>1, <5>1
        <5> QED BY <1>1, <2>3, <5>1, <5>2, <5>3 DEF Sorted
      <4> QED BY <3>1, <4>1
    <3>4. Min(Matching(v, slot, now)) = n
      <4>1. n \in Matching(v, slot, now)
        BY <2>3, <2>5 DEF Matching
      <4>2. Matching(v, slot, now) \subseteq Nat
        BY <1>1 DEF Matching
      <4>3. /\ Min(Matching(v, slot, now)) \in Matching(v, slot, now)
            /\ Min(Matching(v, slot, now)) <= n
        BY <4>1, <4>2, SmallestPlace
      <4>4. \A j \in Matching(v, slot, now) : j \in 1..Len(v) /\ j \notin 1..(n - 1)
        BY <1>1, <2>3 DEF Matching
      <4> QED BY <1>1, <4>3, <4>4
    <3>5. reached[r + 1] = v[n].endTime
      <4>1. r + 1 \in 1..Len(v) /\ (r + 1) - 1 = r
        BY <1>1
      <4>2. reached[r + 1] = Round(v, slot, now)
        BY <1>4, <2>2, <4>1
      <4>3. now < slot.endTime /\ Matching(v, slot, now) # {}
        <5>1. n \in Matching(v, slot, now)
          BY <2>3, <2>5 DEF Matching
        <5> QED BY <1>1, <2>3, <3>2, <5>1
      <4> QED BY <3>4, <4>2, <4>3 DEF Round
    <3>6. r + 1 \in 0..n /\ n \in 0..Len(v)
      BY <1>1
    <3> HIDE DEF Behind
    <3> QED BY <3>1, <3>3, <3>5, <3>6
  <2> QED BY <2>4, <2>5
<1>7. 0..Len(v) \subseteq T
  <2> HIDE DEF T
  <2> QED BY <1>1, <1>5, <1>6, CountUp
<1> QED BY <1>7 DEF pass, reached

(* A search that finds nothing more stays where it is.                     *)
LEMMA ReachedStays ==
  ASSUME NEW v \in Seq(Interval), NEW slot \in Interval, NEW r \in 0..Len(v),
         Matching(v, slot, Reached(v, slot)[r]) = {}
  PROVE  Reached(v, slot)[Len(v)] = Reached(v, slot)[r]
<1> DEFINE reached == Reached(v, slot)
           T == { n \in 0..Len(v) : n >= r => reached[n] = reached[r] }
<1>1. Len(v) \in Nat
  BY LenProperties
<1>2. \A n \in 1..Len(v) : reached[n] = Round(v, slot, reached[n - 1])
  BY ReachedSteps
<1> HIDE DEF reached
<1>3. 0 \in T
  BY <1>1
<1>4. ASSUME NEW n \in 1..Len(v), n - 1 \in T
      PROVE  n \in T
  <2>1. n \in 0..Len(v)
    BY <1>1
  <2>2. CASE n - 1 >= r
    <3>1. reached[n] = Round(v, slot, reached[r])
      BY <1>2, <1>4, <2>2
    <3>2. reached[n] = reached[r]
      BY <3>1 DEF Round, reached
    <3> QED BY <2>1, <3>2
  <2>3. CASE n = r
    BY <2>1, <2>3
  <2>4. n - 1 >= r \/ n = r \/ ~(n >= r)
    BY <1>1
  <2> QED BY <2>1, <2>2, <2>3, <2>4
<1>5. 0..Len(v) \subseteq T
  <2> HIDE DEF T
  <2> QED BY <1>1, <1>3, <1>4, CountUp
<1>6. Len(v) \in T /\ Len(v) >= r
  <2> HIDE DEF T
  <2> QED BY <1>1, <1>5
<1> QED BY <1>6 DEF reached

(* The two searches find the same.                                         *)
LEMMA SearchesMeet ==
  ASSUME NEW v, Searchable(v), NEW slot \in Interval
  PROVE  /\ Reached(v, slot)[Len(v)] = Search(v, slot).currentStart
         /\ slot.startTime < slot.endTime => (Found(v, slot) <=> IsAvailable(v, slot))
<1> DEFINE end == Search(v, slot).currentStart
<1>1. /\ v \in Seq(Interval) /\ (\A i \in DOMAIN v : v[i].startTime < v[i].endTime)
      /\ Len(v) \in Nat /\ DOMAIN v = 1..Len(v) /\ slot.startTime \in Nat /\ slot.endTime \in Nat
  BY LenProperties, IntervalTimes DEF Searchable
<1>2. /\ \A j \in DOMAIN v : ~Continues(v[j], slot.day, end, slot.endTime)
      /\ \E r \in 0..Len(v) : Reached(v, slot)[r] = end
  <2>1. Len(v) \in 0..Len(v)
    BY <1>1
  <2> QED BY <1>1, <2>1, PassFollows DEF Search
<1>3. PICK r \in 0..Len(v) : Reached(v, slot)[r] = end
  BY <1>2
<1>4. Matching(v, slot, end) = {}
  BY <1>2 DEF Matching
<1>5. Reached(v, slot)[Len(v)] = end
  BY <1>1, <1>3, <1>4, ReachedStays
<1>6. end \in Nat /\ (end = slot.startTime \/ end <= slot.endTime)
  <2>1. Len(v) \in 0..Len(v)
    BY <1>1
  <2>2. Filled(v, slot, Search(v, slot), Len(v))
    BY <1>1, <2>1, PassFills DEF Search
  <2>3. Search(v, slot) \in [matched : SUBSET DOMAIN v, currentStart : Nat]
    BY <1>1, <2>1, PassSteps DEF Search
  <2> QED BY <2>2, <2>3 DEF Filled
<1> HIDE DEF end
<1>7. ASSUME slot.startTime < slot.endTime
      PROVE  end = slot.endTime <=> end >= slot.endTime
  BY <1>1, <1>6, <1>7
<1> QED BY <1>5, <1>7 DEF end, Found, IsAvailable

-----------------------------------------------------------------------------
(* The parts of a slot.                                                    *)

(* The values of a function on a finite set: as many as its arguments when *)
(* they are all different.                                                 *)
LEMMA ValuesFinite ==
  ASSUME NEW K, IsFiniteSet(K), NEW f, DOMAIN f = K, f = [k \in K |-> f[k]],
         NEW T, T = { f[k] : k \in K }
  PROVE  /\ IsFiniteSet(T)
         /\ (\A k, l \in K : f[k] = f[l] => k = l) => Cardinality(T) = Cardinality(K)
<1>1. f \in Surjection(K, T)
  BY DEF Surjection
<1>2. (\A k, l \in K : f[k] = f[l] => k = l) => f \in Injection(K, T)
  BY DEF Injection, IsInjective
<1> QED BY <1>1, <1>2, FS_Surjection

(* A time is so many hundreds and a rest.                                  *)
LEMMA Hundreds ==
  ASSUME NEW t \in Nat
  PROVE  \E q \in Nat, r \in 0..99 : t = 100 * q + r
<1>1. t \div 100 \in Nat /\ t % 100 \in 0..99 /\ t = 100 * (t \div 100) + (t % 100)
  OBVIOUS
<1> QED BY <1>1

(* The loop makes parts that start later and later.                        *)
LEMMA PartsAdvance ==
  ASSUME NEW slot \in Interval, NEW k \in Nat
  PROVE  /\ PartStart(slot, k) \in Nat /\ PartStart(slot, k + 1) \in Nat
         /\ PartStart(slot, k) < PartStart(slot, k + 1)
<1> DEFINE s == slot.startTime
           m == ToMinutes(s)
<1>1. s \in Nat
  BY IntervalTimes
<1>2. PICK q \in Nat, r \in 0..99 : s = 100 * q + r
  BY <1>1, Hundreds
<1>3. m = 60 * q + r
  <2>1. s \div 100 = q
    BY <1>2
  <2> QED BY <1>1, <1>2, <2>1 DEF ToMinutes, Quot, Rem
<1>4. m \in Nat
  BY <1>2, <1>3
<1> HIDE DEF s, m
<1>5. PartStart(slot, 0) = s /\ \A j \in Nat \ {0} : PartStart(slot, j) = ToHHMM(m + 30 * j)
  BY DEF PartStart, s, m
<1>6. \A j \in Nat \ {0} : PartStart(slot, j) \in Nat
  BY <1>4, <1>5, HHMMLinear
<1>7. CASE k = 0
  <2>1. PartStart(slot, 1) = m + 30 + 40 * ((m + 30) \div 60)
    <3>1. m + 30 \in Nat /\ 1 \in Nat \ {0} /\ m + 30 * 1 = m + 30
      BY <1>4
    <3>2. PartStart(slot, 1) = ToHHMM(m + 30)
      BY <1>5, <3>1
    <3> QED BY <3>1, <3>2, HHMMLinear
  <2>2. (m + 30) \div 60 >= q
    BY <1>2, <1>3
  <2>3. PartStart(slot, 1) > s
    BY <1>2, <1>3, <1>4, <2>1, <2>2
  <2> QED BY <1>1, <1>5, <1>6, <1>7, <2>3
<1>8. CASE k # 0
  <2>1. m + 30 * k \in Nat /\ m + 30 * (k + 1) \in Nat /\ m + 30 * k < m + 30 * (k + 1)
        /\ k \in Nat \ {0} /\ k + 1 \in Nat \ {0}
    BY <1>4, <1>8
  <2>2. ToHHMM(m + 30 * (k + 1)) - ToHHMM(m + 30 * k) >= (m + 30 * (k + 1)) - (m + 30 * k)
    BY <2>1, HHMMMonotone
  <2>3. ToHHMM(m + 30 * k) \in Nat /\ ToHHMM(m + 30 * (k + 1)) \in Nat
    BY <2>1, HHMMLinear
  <2> QED BY <1>4, <1>5, <2>1, <2>2, <2>3
<1> QED BY <1>7, <1>8

(* There are finitely many, and each has some length.                      *)
LEMMA SplitProper ==
  ASSUME NEW slot \in Interval
  PROVE  /\ Cardinality(Parts(slot)) \in Nat
         /\ SplitIntoThirtyMinSlots(slot) \in Seq(Interval)
         /\ DOMAIN SplitIntoThirtyMinSlots(slot) = 1..Cardinality(Parts(slot))
         /\ Len(SplitIntoThirtyMinSlots(slot)) = Cardinality(Parts(slot))
         /\ \A k \in DOMAIN SplitIntoThirtyMinSlots(slot) :
              SplitIntoThirtyMinSlots(slot)[k].startTime < SplitIntoThirtyMinSlots(slot)[k].endTime
<1> DEFINE K == { j \in 0..((slot.endTime - slot.startTime) \div 30) : PartStart(slot, j) < slot.endTime }
           f == [k \in K |-> [day |-> slot.day, startTime |-> PartStart(slot, k),
                              endTime |-> PartStart(slot, k + 1)]]
           n == Cardinality(Parts(slot))
           parts == SplitIntoThirtyMinSlots(slot)
<1>1. n \in Nat
  <2>1. slot.startTime \in Nat /\ slot.endTime \in Nat
    BY IntervalTimes
  <2>2. (slot.endTime - slot.startTime) \div 30 \in Int
    BY <2>1
  <2>3. IsFiniteSet(K)
    <3>1. IsFiniteSet(0..((slot.endTime - slot.startTime) \div 30))
      BY <2>2, FS_Interval
    <3>2. K \subseteq 0..((slot.endTime - slot.startTime) \div 30)
      OBVIOUS
    <3> HIDE DEF K
    <3> QED BY <3>1, <3>2, FS_Subset
  <2>4. Parts(slot) = { f[k] : k \in K }
    BY DEF Parts
  <2>5. DOMAIN f = K /\ f = [k \in K |-> f[k]]
    OBVIOUS
  <2> HIDE DEF K, f
  <2>6. IsFiniteSet(Parts(slot))
    BY <2>3, <2>4, <2>5, ValuesFinite
  <2> QED BY <2>6, FS_CardinalityType
<1>2. parts = [k \in 1..n |-> [day |-> slot.day, startTime |-> PartStart(slot, k - 1),
                               endTime |-> PartStart(slot, k)]]
  BY DEF SplitIntoThirtyMinSlots
<1> HIDE DEF n, parts
<1>3. ASSUME NEW k \in 1..n
      PROVE  parts[k] \in Interval /\ parts[k].startTime < parts[k].endTime
  <2>1. k - 1 \in Nat /\ (k - 1) + 1 = k
    BY <1>1
  <2>2. /\ PartStart(slot, k - 1) \in Nat /\ PartStart(slot, k) \in Nat
        /\ PartStart(slot, k - 1) < PartStart(slot, k)
    BY <2>1, PartsAdvance
  <2> QED BY <1>2, <2>2, IntervalTimes DEF Interval
<1>4. parts \in [1..n -> Interval]
  BY <1>2, <1>3
<1>5. parts \in Seq(Interval) /\ Len(parts) = n /\ DOMAIN parts = 1..n
  BY <1>1, <1>4, IsASeq, LenProperties
<1> QED BY <1>1, <1>3, <1>5 DEF n, parts

(* Half hours one after the other have some length.                        *)
LEMMA AlignedInterval ==
  ASSUME NEW slot, Aligned(slot)
  PROVE  slot \in Interval /\ slot.startTime < slot.endTime
<1>1. slot \in TimeSlot
  BY DEF Aligned
<1>2. slot \in Interval
  <2>1. \A t \in UInt16 : t \in Nat
    BY DEF UInt16, MaxUInt16
  <2> QED BY <1>1, <2>1 DEF TimeSlot, Interval
<1>3. PICK a \in 0..19, b \in 1..20 :
         a < b /\ slot.startTime = Boundary(a) /\ slot.endTime = Boundary(b)
  BY DEF Aligned
<1> QED BY <1>2, <1>3, a \in Nat, b \in Nat, BoundaryOrder

(* Those of an aligned slot are half hours within it, one after the other, *)
(* and there is one for each of its half hours.                            *)
LEMMA SplitAligned ==
  ASSUME NEW slot, Aligned(slot)
  PROVE  /\ \A k \in DOMAIN SplitIntoThirtyMinSlots(slot) :
              LET part == SplitIntoThirtyMinSlots(slot)[k] IN
              /\ part \in HalfHours /\ part.day = slot.day
              /\ slot.startTime <= part.startTime /\ part.endTime <= slot.endTime
         /\ \A k, l \in DOMAIN SplitIntoThirtyMinSlots(slot) :
              k < l => SplitIntoThirtyMinSlots(slot)[k].endTime <= SplitIntoThirtyMinSlots(slot)[l].startTime
         /\ ToSet(SplitIntoThirtyMinSlots(slot)) = Parts(slot)
<1> DEFINE parts == SplitIntoThirtyMinSlots(slot)
<1>1. PICK a \in 0..19, b \in 1..20 :
         a < b /\ slot.startTime = Boundary(a) /\ slot.endTime = Boundary(b)
  BY DEF Aligned
<1>2. slot \in TimeSlot /\ slot \in Interval /\ slot.day \in Days /\ a \in Nat /\ b \in Nat
  BY AlignedInterval, SlotTimes DEF Aligned
<1> DEFINE f == [j \in a..(b - 1) |->
                  [day |-> slot.day, startTime |-> Boundary(j), endTime |-> Boundary(j + 1)]]
<1>3. Parts(slot) = { f[j] : j \in a..(b - 1) }
  BY <1>1, <1>2, PartsOfAligned
<1>4. Cardinality(Parts(slot)) = b - a
  <2>1. IsFiniteSet(a..(b - 1)) /\ Cardinality(a..(b - 1)) = b - a
    <3>1. a \in Int /\ b - 1 \in Int /\ ~(a > b - 1) /\ (b - 1) - a + 1 = b - a
      BY <1>1, <1>2
    <3> QED BY <3>1, FS_Interval
  <2>2. ASSUME NEW j \in a..(b - 1), NEW l \in a..(b - 1), f[j] = f[l]
        PROVE  j = l
    <3>1. Boundary(j) = Boundary(l)
      BY <2>2
    <3> QED BY <1>2, <3>1, j \in Nat, l \in Nat, BoundaryIndex
  <2>3. DOMAIN f = a..(b - 1) /\ f = [j \in a..(b - 1) |-> f[j]]
    OBVIOUS
  <2> HIDE DEF f
  <2>4. PICK K, T : K = a..(b - 1) /\ T = Parts(slot)
    OBVIOUS
  <2>5. IsFiniteSet(K) /\ DOMAIN f = K /\ f = [k \in K |-> f[k]] /\ T = { f[k] : k \in K }
    BY <1>3, <2>1, <2>3, <2>4
  <2>6. \A k, l \in K : f[k] = f[l] => k = l
    BY <2>2, <2>4
  <2>7. Cardinality(T) = Cardinality(K)
    BY <2>5, <2>6, ValuesFinite
  <2> QED BY <2>1, <2>4, <2>7
<1>5. /\ DOMAIN parts = 1..(b - a)
      /\ \A k \in 1..(b - a) :
           parts[k] = [day |-> slot.day, startTime |-> PartStart(slot, k - 1), endTime |-> PartStart(slot, k)]
  BY <1>4 DEF SplitIntoThirtyMinSlots
<1> HIDE DEF parts
<1>6. ASSUME NEW k \in 1..(b - a)
      PROVE  parts[k] = f[a + k - 1] /\ a + k - 1 \in a..(b - 1)
  <2>1. /\ k - 1 \in Nat /\ k \in Nat /\ a + (k - 1) = a + k - 1 /\ a + k = a + k - 1 + 1
        /\ a + k - 1 \in a..(b - 1)
    BY <1>2
  <2>2. PartStart(slot, k - 1) = Boundary(a + (k - 1)) /\ PartStart(slot, k) = Boundary(a + k)
    BY <1>1, <1>2, <2>1, PartStartAt
  <2> QED BY <1>5, <2>1, <2>2
<1>7. ASSUME NEW k \in 1..(b - a)
      PROVE  /\ parts[k] \in HalfHours /\ parts[k].day = slot.day
             /\ slot.startTime <= parts[k].startTime /\ parts[k].endTime <= slot.endTime
  <2>1. PICK j : j = a + k - 1
    OBVIOUS
  <2>2. j \in a..(b - 1) /\ j \in 0..19 /\ j \in Nat /\ j + 1 \in Nat /\ a <= j /\ j + 1 <= b
    BY <1>2, <1>6, <2>1
  <2>3. parts[k] = [day |-> slot.day, startTime |-> Boundary(j), endTime |-> Boundary(j + 1)]
    BY <1>6, <2>1, <2>2
  <2>4. Boundary(a) <= Boundary(j) /\ Boundary(j + 1) <= Boundary(b)
    BY <1>2, <2>2, BoundaryIndex
  <2>5. parts[k] \in HalfHours
    BY <1>2, <2>2, <2>3, HalfHourAt
  <2>6. parts[k].day = slot.day /\ parts[k].startTime = Boundary(j) /\ parts[k].endTime = Boundary(j + 1)
    BY <2>3
  <2> QED BY <1>1, <2>4, <2>5, <2>6
<1>8. ASSUME NEW k \in 1..(b - a), NEW l \in 1..(b - a), k < l
      PROVE  parts[k].endTime <= parts[l].startTime
  <2>1. PICK i, j : i = a + k - 1 /\ j = a + l - 1
    OBVIOUS
  <2>2. i \in a..(b - 1) /\ j \in a..(b - 1) /\ i + 1 \in Nat /\ j \in Nat /\ i + 1 <= j
    BY <1>2, <1>8, <2>1
  <2>3. parts[k].endTime = Boundary(i + 1) /\ parts[l].startTime = Boundary(j)
    <3>1. parts[k] = f[i] /\ parts[l] = f[j]
      BY <1>6, <2>1
    <3>2. f[i].endTime = Boundary(i + 1) /\ f[j].startTime = Boundary(j)
      BY <2>2
    <3> QED BY <3>1, <3>2
  <2> QED BY <2>2, <2>3, BoundaryIndex
<1>9. ToSet(parts) = Parts(slot)
  <2>1. ASSUME NEW j \in a..(b - 1)
        PROVE  \E k \in 1..(b - a) : parts[k] = f[j]
    <3>1. j - a + 1 \in 1..(b - a) /\ a + (j - a + 1) - 1 = j
      BY <1>2
    <3> QED BY <1>6, <3>1
  <2>2. ToSet(parts) = { parts[k] : k \in 1..(b - a) }
    BY <1>5 DEF ToSet
  <2> HIDE DEF f
  <2> QED BY <1>3, <1>6, <2>1, <2>2
<1> QED BY <1>5, <1>7, <1>8, <1>9 DEF parts

-----------------------------------------------------------------------------
(* What the operations do to a vector.                                     *)

(* Slots that have some length.                                            *)
Proper(v) == v \in Seq(Interval) /\ \A i \in DOMAIN v : v[i].startTime < v[i].endTime

(* No two places of the vector offer the same moment.                      *)
Apart(v) == \A i, j \in DOMAIN v : i # j => ~Overlap(v[i], v[j])

(* Slots overlap where both have a moment.                                 *)
LEMMA OverlapMoment ==
  ASSUME NEW a \in Interval, NEW b \in Interval
  PROVE  /\ Overlap(a, b) <=> a.day = b.day /\ \E t \in Nat : Covers(a, t) /\ Covers(b, t)
         /\ Overlap(a, b) <=> Overlap(b, a)
<1>1. a.startTime \in Nat /\ a.endTime \in Nat /\ b.startTime \in Nat /\ b.endTime \in Nat
  BY IntervalTimes
<1>2. ASSUME Overlap(a, b)
      PROVE  \E t \in Nat : Covers(a, t) /\ Covers(b, t)
  <2>1. CASE a.startTime <= b.startTime
    BY <1>1, <1>2, <2>1 DEF Overlap, Covers
  <2>2. CASE b.startTime <= a.startTime
    BY <1>1, <1>2, <2>2 DEF Overlap, Covers
  <2> QED BY <1>1, <2>1, <2>2
<1>3. ASSUME a.day = b.day, NEW t \in Nat, Covers(a, t), Covers(b, t)
      PROVE  Overlap(a, b)
  BY <1>1, <1>3 DEF Overlap, Covers
<1>4. Overlap(a, b) => a.day = b.day
  BY DEF Overlap
<1>5. Overlap(a, b) <=> Overlap(b, a)
  BY DEF Overlap
<1> QED BY <1>2, <1>3, <1>4, <1>5

(* Searchable vectors are the ordered ones of such slots.                  *)
LEMMA ProperSlots ==
  ASSUME NEW v
  PROVE  /\ Searchable(v) <=> Proper(v) /\ Sorted(v)
         /\ v \in Seq(Interval) =>
              (Proper(v) <=> \A s \in ToSet(v) : s \in Interval /\ s.startTime < s.endTime)
<1>1. v \in Seq(Interval) => \A i \in DOMAIN v : v[i] \in Interval
  BY ElementOfSeq, LenProperties
<1> QED BY <1>1 DEF Searchable, Proper, ToSet

(* Sorting makes a vector searchable, and changes nothing but places.      *)
LEMMA SortKeeps ==
  ASSUME NEW v, Proper(v)
  PROVE  /\ Searchable(SortAvailableSlots(v))
         /\ ToSet(SortAvailableSlots(v)) = ToSet(v)
         /\ Apart(v) => Apart(SortAvailableSlots(v))
<1>1. v \in Seq(Interval) /\ DOMAIN v = 1..Len(v) /\ \A i \in DOMAIN v : v[i].startTime < v[i].endTime
  BY LenProperties DEF Proper
<1>2. PICK w, p : /\ w = SortAvailableSlots(v) /\ w \in Seq(Interval) /\ Len(w) = Len(v)
                  /\ Moved(v, w, p) /\ Sorted(w)
  BY <1>1, SortMoves
<1>3. DOMAIN w = DOMAIN v
  BY <1>1, <1>2, LenProperties
<1>4. /\ \A k \in DOMAIN v : p[k] \in DOMAIN v /\ w[k] = v[p[k]]
      /\ \A k, l \in DOMAIN v : k # l => p[k] # p[l]
      /\ \A i \in DOMAIN v : \E k \in DOMAIN v : p[k] = i
  BY <1>2 DEF Moved
<1>5. Searchable(w)
  BY <1>1, <1>2, <1>3, <1>4 DEF Searchable
<1>6. ToSet(w) = ToSet(v)
  <2>1. ASSUME NEW s \in ToSet(w)
        PROVE  s \in ToSet(v)
    <3>1. PICK k \in DOMAIN v : s = w[k]
      BY <1>3, Zenon DEF ToSet
    <3>2. p[k] \in DOMAIN v /\ s = v[p[k]]
      BY <1>4, <3>1
    <3> QED BY <3>2, Zenon DEF ToSet
  <2>2. ASSUME NEW i \in DOMAIN v
        PROVE  \E k \in DOMAIN w : w[k] = v[i]
    <3>1. PICK k \in DOMAIN v : p[k] = i
      BY <1>4, Zenon
    <3>2. w[k] = v[i]
      BY <1>4, <3>1
    <3> QED BY <1>3, <3>1, <3>2, Zenon
  <2>3. \A s \in ToSet(v) : s \in ToSet(w)
    BY <2>2 DEF ToSet
  <2> QED BY <2>1, <2>3
<1>7. ASSUME Apart(v)
      PROVE  Apart(w)
  <2>1. ASSUME NEW k \in DOMAIN w, NEW l \in DOMAIN w, k # l
        PROVE  ~Overlap(w[k], w[l])
    <3>1. p[k] \in DOMAIN v /\ p[l] \in DOMAIN v /\ p[k] # p[l] /\ w[k] = v[p[k]] /\ w[l] = v[p[l]]
      BY <1>3, <1>4, <2>1
    <3> QED BY <1>7, <3>1 DEF Apart
  <2> QED BY <2>1 DEF Apart
<1> QED BY <1>2, <1>5, <1>6, <1>7

(* So does taking some of its slots in their order.                        *)
LEMMA TakenKeeps ==
  ASSUME NEW v, Proper(v), NEW I, I \subseteq DOMAIN v,
         NEW w \in Seq(Interval), \E p : Taken(v, I, w, p)
  PROVE  /\ Proper(w)
         /\ Sorted(v) => Sorted(w)
         /\ ToSet(w) = { v[i] : i \in I }
         /\ Apart(v) => Apart(w)
<1>1. PICK p : Taken(v, I, w, p)
  OBVIOUS
<1>2. /\ \A k \in DOMAIN w : p[k] \in DOMAIN v /\ p[k] \in I /\ w[k] = v[p[k]]
      /\ \A k, l \in DOMAIN w : k < l => p[k] < p[l]
      /\ \A i \in I : \E k \in DOMAIN w : p[k] = i
  BY <1>1 DEF Taken
<1>3. /\ DOMAIN w = 1..Len(w) /\ Len(w) \in Nat /\ DOMAIN v = 1..Len(v) /\ Len(v) \in Nat
      /\ \A i \in DOMAIN v : v[i].startTime < v[i].endTime
  BY LenProperties DEF Proper
<1>4. \A k, l \in DOMAIN w : k # l => p[k] # p[l]
  BY <1>2, <1>3
<1>5. Proper(w)
  BY <1>2, <1>3 DEF Proper
<1>6. Sorted(v) => Sorted(w)
  BY <1>2, Zenon DEF Sorted
<1>7. ToSet(w) = { v[i] : i \in I }
  BY <1>2 DEF ToSet
<1>8. ASSUME Apart(v)
      PROVE  Apart(w)
  <2>1. ASSUME NEW k \in DOMAIN w, NEW l \in DOMAIN w, k # l
        PROVE  ~Overlap(w[k], w[l])
    <3>1. p[k] \in DOMAIN v /\ p[l] \in DOMAIN v /\ p[k] # p[l] /\ w[k] = v[p[k]] /\ w[l] = v[p[l]]
      BY <1>2, <1>4, <2>1
    <3> QED BY <1>8, <3>1 DEF Apart
  <2> QED BY <2>1 DEF Apart
<1> QED BY <1>5, <1>6, <1>7, <1>8

(* One vector behind another.                                              *)
LEMMA JoinedSlots ==
  ASSUME NEW v, Proper(v), NEW u, Proper(u)
  PROVE  /\ Proper(v \o u)
         /\ ToSet(v \o u) = ToSet(v) \cup ToSet(u)
         /\ Apart(v) /\ Apart(u) /\ (\A s \in ToSet(v), t \in ToSet(u) : ~Overlap(s, t))
              => Apart(v \o u)
<1>1. /\ v \in Seq(Interval) /\ u \in Seq(Interval)
      /\ DOMAIN v = 1..Len(v) /\ Len(v) \in Nat /\ DOMAIN u = 1..Len(u) /\ Len(u) \in Nat
  BY LenProperties DEF Proper
<1>2. PICK w : w = v \o u
  OBVIOUS
<1>3. /\ w \in Seq(Interval) /\ Len(w) = Len(v) + Len(u)
      /\ \A i \in 1..(Len(v) + Len(u)) : w[i] = IF i <= Len(v) THEN v[i] ELSE u[i - Len(v)]
  BY <1>1, <1>2, ConcatProperties
<1>4. DOMAIN w = 1..(Len(v) + Len(u))
  BY <1>3, LenProperties
<1>5. \A i \in DOMAIN w : \/ i \in DOMAIN v /\ w[i] = v[i]
                          \/ i - Len(v) \in DOMAIN u /\ w[i] = u[i - Len(v)] /\ i > Len(v)
  BY <1>1, <1>3, <1>4
<1>6. \A i \in DOMAIN v : i \in DOMAIN w /\ w[i] = v[i]
  BY <1>1, <1>3, <1>4
<1>7. \A i \in DOMAIN u : i + Len(v) \in DOMAIN w /\ w[i + Len(v)] = u[i]
  BY <1>1, <1>3, <1>4
<1>8. Proper(w)
  BY <1>3, <1>5 DEF Proper
<1>9. ToSet(w) = ToSet(v) \cup ToSet(u)
  BY <1>5, <1>6, <1>7 DEF ToSet
<1>10. ASSUME Apart(v), Apart(u), \A s \in ToSet(v), t \in ToSet(u) : ~Overlap(s, t),
              NEW i \in DOMAIN w, NEW j \in DOMAIN w, i # j
       PROVE  ~Overlap(w[i], w[j])
  <2>1. w[i] \in Interval /\ w[j] \in Interval
    BY <1>3, <1>4, ElementOfSeq
  <2>2. CASE i \in DOMAIN v /\ w[i] = v[i] /\ j \in DOMAIN v /\ w[j] = v[j]
    BY <1>10, <2>2 DEF Apart
  <2>3. CASE /\ i - Len(v) \in DOMAIN u /\ w[i] = u[i - Len(v)]
             /\ j - Len(v) \in DOMAIN u /\ w[j] = u[j - Len(v)]
    <3>1. i - Len(v) # j - Len(v)
      BY <1>1, <1>4, <1>10
    <3> QED BY <1>10, <2>3, <3>1, Zenon DEF Apart
  <2>4. CASE i \in DOMAIN v /\ w[i] = v[i] /\ j - Len(v) \in DOMAIN u /\ w[j] = u[j - Len(v)]
    BY <1>10, <2>4 DEF ToSet
  <2>5. CASE j \in DOMAIN v /\ w[j] = v[j] /\ i - Len(v) \in DOMAIN u /\ w[i] = u[i - Len(v)]
    <3>1. ~Overlap(w[j], w[i])
      BY <1>10, <2>5 DEF ToSet
    <3> QED BY <2>1, <3>1, OverlapMoment
  <2> QED BY <1>5, <2>2, <2>3, <2>4, <2>5
<1>11. Apart(v) /\ Apart(u) /\ (\A s \in ToSet(v), t \in ToSet(u) : ~Overlap(s, t)) => Apart(w)
  BY <1>10, Zenon DEF Apart
<1> QED BY <1>2, <1>8, <1>9, <1>11

(* The parts of a slot pushed to the vector.                               *)
LEMMA PushKeeps ==
  ASSUME NEW v, Proper(v), NEW slot \in Interval
  PROVE  /\ Searchable(PushParts(v, slot))
         /\ ToSet(PushParts(v, slot)) = ToSet(v) \cup ToSet(SplitIntoThirtyMinSlots(slot))
         /\ Apart(v) /\ Apart(SplitIntoThirtyMinSlots(slot))
            /\ (\A s \in ToSet(v), t \in ToSet(SplitIntoThirtyMinSlots(slot)) : ~Overlap(s, t))
              => Apart(PushParts(v, slot))
<1>1. PICK u : u = SplitIntoThirtyMinSlots(slot)
  OBVIOUS
<1>2. Proper(u)
  BY <1>1, SplitProper DEF Proper
<1>3. PICK w : w = v \o u
  OBVIOUS
<1>4. /\ Proper(w)
      /\ ToSet(w) = ToSet(v) \cup ToSet(u)
      /\ Apart(v) /\ Apart(u) /\ (\A s \in ToSet(v), t \in ToSet(u) : ~Overlap(s, t)) => Apart(w)
  BY <1>2, <1>3, JoinedSlots, Zenon
<1>5. PushParts(v, slot) = SortAvailableSlots(w)
  BY <1>1, <1>3 DEF PushParts
<1> QED BY <1>1, <1>4, <1>5, SortKeeps, Zenon

(* The parts of a slot erased from it.                                     *)
LEMMA EraseKeeps ==
  ASSUME NEW v, Proper(v), NEW slot \in Interval
  PROVE  /\ Searchable(EraseParts(v, slot))
         /\ ToSet(EraseParts(v, slot)) = ToSet(v) \ ToSet(SplitIntoThirtyMinSlots(slot))
         /\ Apart(v) => Apart(EraseParts(v, slot))
<1>1. PICK parts : parts = ToSet(SplitIntoThirtyMinSlots(slot))
  OBVIOUS
<1>2. PICK w : w = Kept(v, parts)[Len(v)]
  OBVIOUS
<1>3. PICK I : I = { i \in DOMAIN v : v[i] \notin parts }
  OBVIOUS
<1>4. w \in Seq(Interval) /\ \E p : Taken(v, I, w, p)
  BY <1>2, <1>3, KeptTaken DEF Proper
<1>5. Proper(w) /\ ToSet(w) = { v[i] : i \in I } /\ (Apart(v) => Apart(w))
  <2>1. I \subseteq DOMAIN v
    BY <1>3
  <2> QED BY <1>4, <2>1, TakenKeeps, Zenon
<1>6. EraseParts(v, slot) = SortAvailableSlots(w)
  BY <1>1, <1>2 DEF EraseParts
<1>7. ToSet(w) = ToSet(v) \ parts
  BY <1>3, <1>5 DEF ToSet
<1> QED BY <1>1, <1>5, <1>6, <1>7, SortKeeps, Zenon

(* The matches of a search erased from it by index.                        *)
LEMMA EraseMatchedKeeps ==
  ASSUME NEW v, Searchable(v), NEW matched
  PROVE  /\ Searchable(EraseMatched(v, matched))
         /\ ToSet(EraseMatched(v, matched)) = { v[i] : i \in DOMAIN v \ matched }
         /\ Apart(v) => Apart(EraseMatched(v, matched))
<1>1. PICK w, I : w = EraseMatched(v, matched) /\ I = DOMAIN v \ matched
  OBVIOUS
<1>2. Proper(v) /\ Sorted(v) /\ I \subseteq DOMAIN v
  BY <1>1, ProperSlots
<1>3. w \in Seq(Interval) /\ \E p : Taken(v, I, w, p)
  BY <1>1, ErasedTaken DEF Searchable
<1>4. Proper(w) /\ (Sorted(v) => Sorted(w)) /\ ToSet(w) = { v[i] : i \in I } /\ (Apart(v) => Apart(w))
  BY <1>2, <1>3, TakenKeeps, Zenon
<1> QED BY <1>1, <1>2, <1>4, ProperSlots

-----------------------------------------------------------------------------
(* What is booked: nothing at all, or half hours.                          *)
Fits(slot) == slot \in Interval /\ (slot.startTime = slot.endTime \/ Aligned(slot))

(* A half hour is such a slot.                                             *)
LEMMA HalfHourAligned ==
  ASSUME NEW h \in HalfHours
  PROVE  Aligned(h)
<1>1. PICK j \in 0..19 : h = [day |-> h.day, startTime |-> Boundary(j), endTime |-> Boundary(j + 1)]
  BY HalfHourShape
<1>2. h.day \in Days
  BY DEF HalfHours
<1>3. Boundary(j) \in UInt16 /\ Boundary(j + 1) \in UInt16
  <2>1. j \in Nat /\ j + 1 \in Nat /\ j <= 20 /\ j + 1 <= 20
    OBVIOUS
  <2>2. Boundary(j) \in Nat /\ Boundary(j) <= 1800 /\ Boundary(j + 1) \in Nat /\ Boundary(j + 1) <= 1800
    BY <2>1, BoundaryTime
  <2> QED BY <2>2, FitsUInt16
<1>4. h \in TimeSlot
  BY <1>1, <1>2, <1>3 DEF TimeSlot
<1>5. j \in 0..19 /\ j + 1 \in 1..20 /\ j < j + 1 /\ h.startTime = Boundary(j) /\ h.endTime = Boundary(j + 1)
  BY <1>1
<1> QED BY <1>4, <1>5 DEF Aligned

(* A slot of no length has no parts.                                       *)
LEMMA SplitEmpty ==
  ASSUME NEW slot \in Interval, slot.startTime = slot.endTime
  PROVE  DOMAIN SplitIntoThirtyMinSlots(slot) = {}
<1>1. slot.startTime \in Nat /\ slot.endTime \in Nat
  BY IntervalTimes
<1>2. Parts(slot) = {}
  BY <1>1, NoParts
<1>3. Cardinality(Parts(slot)) = 0
  BY <1>2, FS_EmptySet
<1> QED BY <1>3, SplitProper

(* What is pushed for a booking lies within it, and its parts have no      *)
(* moment in common.                                                       *)
LEMMA PartsOfBooking ==
  ASSUME NEW slot, Fits(slot)
  PROVE  /\ \A t \in ToSet(SplitIntoThirtyMinSlots(slot)) :
              /\ t \in Interval /\ Aligned(t)
              /\ \A s \in Interval : Overlap(s, t) => Overlap(s, slot)
         /\ Apart(SplitIntoThirtyMinSlots(slot))
<1>1. PICK parts : parts = SplitIntoThirtyMinSlots(slot)
  OBVIOUS
<1>2. slot \in Interval /\ parts \in Seq(Interval) /\ DOMAIN parts \subseteq Nat
  <2>1. slot \in Interval /\ Cardinality(Parts(slot)) \in Nat
        /\ parts \in Seq(Interval) /\ DOMAIN parts = 1..Cardinality(Parts(slot))
    BY <1>1, SplitProper DEF Fits
  <2> QED BY <2>1
<1>3. CASE slot.startTime = slot.endTime
  BY <1>1, <1>2, <1>3, SplitEmpty, Zenon DEF ToSet, Apart
<1>4. CASE Aligned(slot)
  <2>1. /\ \A k \in DOMAIN parts :
             /\ parts[k] \in HalfHours /\ parts[k].day = slot.day
             /\ slot.startTime <= parts[k].startTime /\ parts[k].endTime <= slot.endTime
        /\ \A k, l \in DOMAIN parts : k < l => parts[k].endTime <= parts[l].startTime
    BY <1>1, <1>4, SplitAligned
  <2>2. ASSUME NEW k \in DOMAIN parts
        PROVE  parts[k] \in Interval /\ Aligned(parts[k])
    BY <2>1, HalfHourAligned, AlignedInterval
  <2>3. ASSUME NEW k \in DOMAIN parts, NEW s \in Interval, Overlap(s, parts[k])
        PROVE  Overlap(s, slot)
    <3>1. PICK t : t = parts[k]
      OBVIOUS
    <3>2. /\ t.day = slot.day /\ slot.startTime <= t.startTime /\ t.endTime <= slot.endTime
          /\ t.startTime \in Nat /\ t.endTime \in Nat
      BY <2>1, <2>2, <3>1, IntervalTimes
    <3>3. slot.startTime \in Nat /\ slot.endTime \in Nat /\ s.startTime \in Nat /\ s.endTime \in Nat
      BY <1>2, IntervalTimes
    <3> QED BY <2>3, <3>1, <3>2, <3>3 DEF Overlap
  <2>4. ASSUME NEW k \in DOMAIN parts, NEW l \in DOMAIN parts, k < l
        PROVE  ~Overlap(parts[k], parts[l]) /\ ~Overlap(parts[l], parts[k])
    <3>1. PICK s, t : s = parts[k] /\ t = parts[l]
      OBVIOUS
    <3>2. s.endTime <= t.startTime /\ s.endTime \in Nat /\ t.startTime \in Nat
      BY <2>1, <2>2, <2>4, <3>1, IntervalTimes
    <3> QED BY <3>1, <3>2 DEF Overlap
  <2>5. \A k, l \in DOMAIN parts : k # l => k < l \/ l < k
    BY <1>2
  <2>6. Apart(parts)
    BY <2>4, <2>5 DEF Apart
  <2>7. \A t \in ToSet(parts) : /\ t \in Interval /\ Aligned(t)
                                /\ \A s \in Interval : Overlap(s, t) => Overlap(s, slot)
    BY <2>2, <2>3, Zenon DEF ToSet
  <2> QED BY <1>1, <2>6, <2>7
<1> QED BY <1>3, <1>4 DEF Fits

(* What bookSlot finds is filled by its matches, and begins and ends where *)
(* the first and the last of them do.                                      *)
LEMMA FoundFills ==
  ASSUME NEW v, Searchable(v), \A i \in DOMAIN v : Aligned(v[i]),
         NEW slot \in Interval, slot \in TimeSlot, Found(v, slot)
  PROVE  /\ Fits(slot)
         /\ \A t \in Nat : Covers(slot, t) =>
              \E i \in Search(v, slot).matched :
                i \in DOMAIN v /\ v[i].day = slot.day /\ Covers(v[i], t)
<1>1. PICK m : m = Search(v, slot)
  OBVIOUS
<1>2. /\ v \in Seq(Interval) /\ (\A i \in DOMAIN v : v[i].startTime < v[i].endTime)
      /\ Len(v) \in Nat /\ DOMAIN v = 1..Len(v) /\ slot.startTime \in Nat /\ slot.endTime \in Nat
  BY LenProperties, IntervalTimes DEF Searchable
<1>3. Filled(v, slot, m, Len(v))
  <2>1. \A n \in 0..Len(v) : Filled(v, slot, Pass(v, slot)[n], n)
    BY <1>2, PassFills
  <2>2. Len(v) \in 0..Len(v)
    BY <1>2
  <2> QED BY <1>1, <2>1, <2>2 DEF Search
<1>4. m.currentStart = slot.endTime
  BY <1>1 DEF Found
<1>5. /\ m.matched \subseteq DOMAIN v
      /\ \A i \in m.matched : /\ v[i].day = slot.day
                              /\ slot.startTime <= v[i].startTime /\ v[i].endTime <= slot.endTime
      /\ \A t \in Nat : slot.startTime <= t /\ t < slot.endTime => \E i \in m.matched : Covers(v[i], t)
      /\ slot.startTime <= slot.endTime
      /\ slot.endTime = slot.startTime \/ \E i \in m.matched : v[i].endTime = slot.endTime
  BY <1>2, <1>3, <1>4 DEF Filled
<1>6. ASSUME slot.startTime # slot.endTime
      PROVE  Aligned(slot)
  <2>1. PICK i \in m.matched : Covers(v[i], slot.startTime)
    BY <1>2, <1>5, <1>6
  <2>2. PICK l \in m.matched : v[l].endTime = slot.endTime
    BY <1>5, <1>6
  <2>3. /\ v[i].startTime \in Nat /\ Aligned(v[i]) /\ Aligned(v[l])
    <3>1. i \in DOMAIN v /\ l \in DOMAIN v
      BY <1>5
    <3> QED BY <1>2, <3>1, ElementOfSeq, IntervalTimes
  <2>4. v[i].startTime = slot.startTime
    BY <1>2, <1>5, <2>1, <2>3 DEF Covers
  <2>5. PICK a \in 0..19 : slot.startTime = Boundary(a)
    BY <2>3, <2>4 DEF Aligned
  <2>6. PICK b \in 1..20 : slot.endTime = Boundary(b)
    BY <2>2, <2>3 DEF Aligned
  <2>7. a < b
    <3>1. a \in Nat /\ b \in Nat /\ Boundary(a) < Boundary(b)
      BY <1>2, <1>5, <1>6, <2>5, <2>6
    <3> QED BY <3>1, BoundaryIndex
  <2> QED BY <2>5, <2>6, <2>7 DEF Aligned
<1>7. Fits(slot)
  BY <1>6 DEF Fits
<1>8. ASSUME NEW t \in Nat, Covers(slot, t)
      PROVE  \E i \in m.matched : i \in DOMAIN v /\ v[i].day = slot.day /\ Covers(v[i], t)
  BY <1>5, <1>8 DEF Covers
<1> QED BY <1>1, <1>7, <1>8

-----------------------------------------------------------------------------
(* The inductive invariant.                                                *)

(* The vector stays in order, and every slot in it and every booking is an *)
(* interval of the clock.                                                  *)
InOrder ==
  /\ opened \in Openings
  /\ Searchable(availableSlots)
  /\ \A id \in DOMAIN bookings : bookings[id] \in Interval

(* Until a booking is moved or extended, what is offered and what is       *)
(* booked are half hours, one after the other, and no two of them share a  *)
(* moment.                                                                 *)
GivenOnce ==
  ~reshaped =>
    /\ \A s \in ToSet(availableSlots) : Aligned(s)
    /\ Apart(availableSlots)
    /\ \A id \in DOMAIN bookings : Fits(bookings[id])
    /\ \A id \in DOMAIN bookings :
         /\ \A s \in ToSet(availableSlots) : ~Overlap(bookings[id], s)
         /\ \A j \in DOMAIN bookings \ {id} : ~Overlap(bookings[id], bookings[j])

IInv == InOrder /\ GivenOnce

(* What a searchable vector is made of.                                    *)
LEMMA SearchableSlots ==
  ASSUME NEW v, Searchable(v)
  PROVE  Proper(v) /\ v \in Seq(Interval) /\ \A s \in ToSet(v) : s \in Interval
<1>1. v \in Seq(Interval) /\ Proper(v)
  BY ProperSlots DEF Searchable
<1> QED BY <1>1, ProperSlots

(* A request names an interval of the clock.                               *)
LEMMA RequestTimes ==
  ASSUME NEW slot \in Requests
  PROVE  slot \in Interval /\ slot \in TimeSlot
<1>1. BookTimes \subseteq UInt16
  BY VectorAssumption, Zenon
<1>2. \A t \in UInt16 : t \in Nat
  BY DEF UInt16, MaxUInt16
<1>3. \A t \in BookTimes : t \in UInt16 /\ t \in Nat
  BY <1>1, <1>2
<1> QED BY <1>3 DEF Requests, Interval, TimeSlot

(* So does an opening, slot by slot, and no moment twice.                  *)
LEMMA OpeningSlots ==
  ASSUME NEW o \in Openings
  PROVE  /\ o \in Seq(Interval) /\ DOMAIN o = 1..Len(o) /\ Len(o) \in Nat
         /\ \A i \in DOMAIN o : Aligned(o[i]) /\ o[i] \in Interval /\ o[i].startTime < o[i].endTime
         /\ \A i, j \in DOMAIN o : i # j => ~Overlap(o[i], o[j])
<1>1. /\ o \in Seq(TimeSlot)
      /\ \A i \in DOMAIN o : Aligned(o[i]) /\ \A j \in DOMAIN o \ {i} : ~Overlap(o[i], o[j])
  BY VectorAssumption
<1>2. DOMAIN o = 1..Len(o) /\ Len(o) \in Nat /\ o \in [1..Len(o) -> TimeSlot]
  BY <1>1, LenProperties
<1>3. \A i \in DOMAIN o : o[i] \in Interval /\ o[i].startTime < o[i].endTime
  BY <1>1, AlignedInterval
<1>4. o \in [1..Len(o) -> Interval]
  BY <1>2, <1>3
<1>5. o \in Seq(Interval)
  BY <1>2, <1>4, IsASeq
<1> QED BY <1>1, <1>2, <1>3, <1>5

(* The vector a facility is opened with.                                   *)
LEMMA OpenedVector ==
  ASSUME NEW o \in Openings
  PROVE  /\ Searchable(Opened(o)[Len(o)])
         /\ Apart(Opened(o)[Len(o)])
         /\ \A s \in ToSet(Opened(o)[Len(o)]) : Aligned(s)
         /\ ToSet(Opened(o)[Len(o)]) = ToSet(o)
<1> DEFINE Upto(v, n) == /\ Searchable(v) /\ Apart(v)
                         /\ ToSet(v) = { o[i] : i \in 1..n }
           T == { n \in 0..Len(o) : Upto(Opened(o)[n], n) }
<1>1. /\ o \in Seq(Interval) /\ DOMAIN o = 1..Len(o) /\ Len(o) \in Nat
      /\ \A i \in DOMAIN o : Aligned(o[i]) /\ o[i] \in Interval /\ o[i].startTime < o[i].endTime
      /\ \A i, j \in DOMAIN o : i # j => ~Overlap(o[i], o[j])
  BY OpeningSlots
<1>2. /\ Opened(o)[0] = << >>
      /\ \A n \in 1..Len(o) : Opened(o)[n] = AddAvailability(Opened(o)[n - 1], o[n])
  BY <1>1, OpenedSteps
<1>3. 0 \in T
  <2>1. DOMAIN << >> = {} /\ << >> \in Seq(Interval)
    OBVIOUS
  <2>2. PICK e : e = << >>
    OBVIOUS
  <2>3. Searchable(e) /\ Apart(e)
    BY <2>1, <2>2 DEF Searchable, Apart, Sorted
  <2>4. ToSet(e) = {}
    BY <2>1, <2>2, Zenon DEF ToSet
  <2>5. Upto(e, 0)
    BY <2>3, <2>4
  <2>6. Upto(Opened(o)[0], 0)
    <3> HIDE DEF Upto
    <3> QED BY <1>2, <2>2, <2>5
  <2>7. 0 \in 0..Len(o)
    BY <1>1
  <2> HIDE DEF Upto
  <2> QED BY <2>6, <2>7
<1>4. ASSUME NEW n \in 1..Len(o), n - 1 \in T
      PROVE  n \in T
  <2>1. PICK v : v = Opened(o)[n - 1]
    OBVIOUS
  <2>2. Searchable(v) /\ Apart(v) /\ ToSet(v) = { o[i] : i \in 1..(n - 1) }
    BY <1>4, <2>1
  <2>3. /\ n \in DOMAIN o /\ o[n] \in Interval /\ o[n].startTime < o[n].endTime
        /\ n \in 0..Len(o)
    BY <1>1
  <2>4. PICK u : u = << o[n] >>
    OBVIOUS
  <2>5. u \in Seq(Interval) /\ DOMAIN u = {1} /\ u[1] = o[n]
    BY <2>3, <2>4
  <2>6. Proper(u) /\ Apart(u) /\ ToSet(u) = {o[n]}
    <3>1. Proper(u)
      BY <2>3, <2>5 DEF Proper
    <3>2. Apart(u)
      BY <2>5 DEF Apart
    <3>3. ToSet(u) = {o[n]}
      BY <2>5 DEF ToSet
    <3> QED BY <3>1, <3>2, <3>3
  <2>7. \A s \in ToSet(v), t \in ToSet(u) : ~Overlap(s, t)
    <3>1. ASSUME NEW i \in 1..(n - 1)
          PROVE  ~Overlap(o[i], o[n])
      <4>1. i \in DOMAIN o /\ i # n
        BY <1>1
      <4> QED BY <1>1, <2>3, <4>1
    <3> QED BY <2>2, <2>6, <3>1
  <2>8. PICK w : w = v \o u
    OBVIOUS
  <2>9. Proper(v) /\ v \in Seq(Interval)
    BY <2>2, SearchableSlots
  <2>10. Proper(w) /\ Apart(w) /\ ToSet(w) = ToSet(v) \cup {o[n]}
    BY <2>2, <2>6, <2>7, <2>8, <2>9, JoinedSlots
  <2>11. Append(v, o[n]) = w
    BY <2>3, <2>4, <2>8, <2>9, AppendIsConcat
  <2>12. Opened(o)[n] = SortAvailableSlots(w)
    BY <1>2, <2>1, <2>11 DEF AddAvailability
  <2>13. 1..n = 1..(n - 1) \cup {n}
    BY <2>3
  <2>14. ToSet(w) = { o[i] : i \in 1..n }
    BY <2>2, <2>10, <2>13
  <2>15. PICK x : x = SortAvailableSlots(w)
    OBVIOUS
  <2>16. Searchable(x) /\ Apart(x) /\ ToSet(x) = { o[i] : i \in 1..n }
    BY <2>10, <2>14, <2>15, SortKeeps
  <2>17. Upto(x, n)
    BY <2>16
  <2> HIDE DEF Upto
  <2> QED BY <2>3, <2>12, <2>15, <2>17
<1>5. 0..Len(o) \subseteq T
  <2> HIDE DEF T
  <2> QED BY <1>1, <1>3, <1>4, CountUp
<1>6. Len(o) \in T
  <2> HIDE DEF T
  <2> QED BY <1>1, <1>5
<1>7. PICK v : v = Opened(o)[Len(o)]
  OBVIOUS
<1>8. Searchable(v) /\ Apart(v) /\ ToSet(v) = { o[i] : i \in 1..Len(o) }
  BY <1>6, <1>7
<1>9. \A s \in ToSet(v) : Aligned(s)
  BY <1>1, <1>8
<1>10. ToSet(o) = { o[i] : i \in 1..Len(o) }
  BY <1>1 DEF ToSet
<1> QED BY <1>7, <1>8, <1>9, <1>10

-----------------------------------------------------------------------------
(* The steps.                                                              *)

(* It holds when the facility has been opened.                             *)
LEMMA InvInit == Init => IInv
<1> SUFFICES ASSUME Init PROVE IInv
  OBVIOUS
<1>1. opened \in Openings /\ availableSlots = Opened(opened)[Len(opened)]
  BY DEF Init
<1>2. DOMAIN bookings = {}
  BY DEF Init
<1>3. /\ Searchable(availableSlots) /\ Apart(availableSlots)
      /\ \A s \in ToSet(availableSlots) : Aligned(s)
  BY <1>1, OpenedVector
<1> QED BY <1>1, <1>2, <1>3 DEF IInv, InOrder, GivenOnce

(* A booking takes what its matches offered: a moment that it shares with  *)
(* another booking, or with a slot still on offer, was offered by a match. *)
LEMMA InvBookSlot ==
  ASSUME IInv, NEW slot \in Requests, BookSlot(slot)
  PROVE  IInv'
<1>1. PICK v, w, b, c, m : /\ v = availableSlots /\ w = availableSlots' /\ b = bookings /\ c = bookings'
                           /\ m = Search(v, slot).matched
  OBVIOUS
<1>2. /\ Searchable(v) /\ opened \in Openings /\ opened' = opened /\ reshaped' = reshaped
      /\ \A id \in DOMAIN b : b[id] \in Interval
      /\ slot \in Interval /\ slot \in TimeSlot /\ Found(v, slot)
      /\ w = EraseMatched(v, m)
  BY <1>1, RequestTimes DEF IInv, InOrder, BookSlot
<1>3. \A id \in DOMAIN c : (id \in DOMAIN b /\ c[id] = b[id])
                           \/ (id = currentId /\ id \notin DOMAIN b /\ c[id] = slot)
  BY <1>1 DEF BookSlot
<1>4. Searchable(w) /\ ToSet(w) = { v[i] : i \in DOMAIN v \ m } /\ (Apart(v) => Apart(w))
  BY <1>2, EraseMatchedKeeps
<1>5. \A id \in DOMAIN c : c[id] \in Interval
  BY <1>2, <1>3
<1>6. InOrder'
  BY <1>1, <1>2, <1>4, <1>5 DEF InOrder
<1>7. ASSUME ~reshaped
      PROVE  /\ \A s \in ToSet(w) : Aligned(s)
             /\ Apart(w)
             /\ \A id \in DOMAIN c : Fits(c[id])
             /\ \A id \in DOMAIN c :
                  /\ \A s \in ToSet(w) : ~Overlap(c[id], s)
                  /\ \A j \in DOMAIN c \ {id} : ~Overlap(c[id], c[j])
  <2>1. /\ \A s \in ToSet(v) : Aligned(s)
        /\ Apart(v)
        /\ \A id \in DOMAIN b : Fits(b[id])
        /\ \A id \in DOMAIN b :
             /\ \A s \in ToSet(v) : ~Overlap(b[id], s)
             /\ \A j \in DOMAIN b \ {id} : ~Overlap(b[id], b[j])
    BY <1>1, <1>7 DEF IInv, GivenOnce
  <2>2. \A i \in DOMAIN v : v[i] \in ToSet(v) /\ Aligned(v[i]) /\ v[i] \in Interval
    <3>1. \A i \in DOMAIN v : v[i] \in ToSet(v)
      BY DEF ToSet
    <3> QED BY <2>1, <3>1, AlignedInterval
  <2>3. Fits(slot) /\ \A t \in Nat : Covers(slot, t) =>
                        \E i \in m : i \in DOMAIN v /\ v[i].day = slot.day /\ Covers(v[i], t)
    BY <1>1, <1>2, <2>2, FoundFills
  <2>4. ToSet(w) \subseteq ToSet(v)
    BY <1>4 DEF ToSet
  <2>5. ASSUME NEW s \in Interval, Overlap(s, slot)
        PROVE  \E i \in m : i \in DOMAIN v /\ Overlap(s, v[i])
    <3>1. PICK t \in Nat : s.day = slot.day /\ Covers(s, t) /\ Covers(slot, t)
      BY <1>2, <2>5, OverlapMoment
    <3>2. PICK i \in m : i \in DOMAIN v /\ v[i].day = slot.day /\ Covers(v[i], t)
      BY <2>3, <3>1
    <3>3. Overlap(s, v[i])
      BY <2>2, <3>1, <3>2, OverlapMoment
    <3> QED BY <3>2, <3>3
  <2>6. ASSUME NEW s \in ToSet(w)
        PROVE  ~Overlap(slot, s)
    <3>1. PICK l \in DOMAIN v \ m : s = v[l]
      BY <1>4
    <3>2. s \in Interval
      BY <2>2, <3>1
    <3>3. ASSUME Overlap(s, slot) PROVE FALSE
      <4>1. PICK i \in m : i \in DOMAIN v /\ Overlap(s, v[i])
        BY <2>5, <3>2, <3>3
      <4>2. i # l
        BY <3>1, <4>1
      <4> QED BY <2>1, <3>1, <4>1, <4>2 DEF Apart
    <3> QED BY <1>2, <3>2, <3>3, OverlapMoment
  <2>7. ASSUME NEW id \in DOMAIN b
        PROVE  ~Overlap(b[id], slot) /\ ~Overlap(slot, b[id])
    <3>1. b[id] \in Interval
      BY <1>2
    <3>2. \A i \in DOMAIN v : ~Overlap(b[id], v[i])
      BY <2>1, <2>2
    <3>3. ~Overlap(b[id], slot)
      BY <2>5, <3>1, <3>2
    <3> QED BY <1>2, <3>1, <3>3, OverlapMoment
  <2>8. ASSUME NEW id \in DOMAIN c, NEW s \in ToSet(w)
        PROVE  ~Overlap(c[id], s)
    BY <1>3, <2>1, <2>4, <2>6
  <2>9. ASSUME NEW id \in DOMAIN c, NEW j \in DOMAIN c \ {id}
        PROVE  ~Overlap(c[id], c[j])
    BY <1>3, <2>1, <2>7
  <2>10. \A s \in ToSet(w) : Aligned(s)
    BY <2>1, <2>4
  <2>11. \A id \in DOMAIN c : Fits(c[id])
    BY <1>3, <2>1, <2>3
  <2> QED BY <1>4, <2>1, <2>8, <2>9, <2>10, <2>11
<1>8. GivenOnce'
  BY <1>1, <1>2, <1>7 DEF GivenOnce
<1> QED BY <1>6, <1>8 DEF IInv

(* A cancel offers the parts of the booking, which lie within it.          *)
LEMMA InvCancelBooking ==
  ASSUME IInv, NEW id \in DOMAIN bookings, CancelBooking(id)
  PROVE  IInv'
<1>1. PICK v, w, b, c, old, parts :
         /\ v = availableSlots /\ w = availableSlots' /\ b = bookings /\ c = bookings'
         /\ old = b[id] /\ parts = SplitIntoThirtyMinSlots(old)
  OBVIOUS
<1>2. /\ Searchable(v) /\ opened \in Openings /\ opened' = opened /\ reshaped' = reshaped
      /\ \A i \in DOMAIN b : b[i] \in Interval
      /\ old \in Interval /\ w = PushParts(v, old) /\ id \in DOMAIN b
  BY <1>1 DEF IInv, InOrder, CancelBooking
<1>3. DOMAIN c = DOMAIN b \ {id} /\ \A i \in DOMAIN c : c[i] = b[i]
  BY <1>1 DEF CancelBooking
<1>4. /\ Searchable(w) /\ ToSet(w) = ToSet(v) \cup ToSet(parts)
      /\ Apart(v) /\ Apart(parts) /\ (\A s \in ToSet(v), t \in ToSet(parts) : ~Overlap(s, t)) => Apart(w)
  <2>1. Proper(v)
    BY <1>2, SearchableSlots
  <2> QED BY <1>1, <1>2, <2>1, PushKeeps
<1>5. InOrder'
  BY <1>1, <1>2, <1>3, <1>4 DEF InOrder
<1>6. ASSUME ~reshaped
      PROVE  /\ \A s \in ToSet(w) : Aligned(s)
             /\ Apart(w)
             /\ \A i \in DOMAIN c : Fits(c[i])
             /\ \A i \in DOMAIN c :
                  /\ \A s \in ToSet(w) : ~Overlap(c[i], s)
                  /\ \A j \in DOMAIN c \ {i} : ~Overlap(c[i], c[j])
  <2>1. /\ \A s \in ToSet(v) : Aligned(s)
        /\ Apart(v)
        /\ \A i \in DOMAIN b : Fits(b[i])
        /\ \A i \in DOMAIN b :
             /\ \A s \in ToSet(v) : ~Overlap(b[i], s)
             /\ \A j \in DOMAIN b \ {i} : ~Overlap(b[i], b[j])
    BY <1>1, <1>6 DEF IInv, GivenOnce
  <2>2. /\ \A t \in ToSet(parts) : /\ t \in Interval /\ Aligned(t)
                                   /\ \A s \in Interval : Overlap(s, t) => Overlap(s, old)
        /\ Apart(parts)
    BY <1>1, <1>2, <2>1, PartsOfBooking
  <2>3. \A s \in ToSet(v) : s \in Interval
    BY <1>2, SearchableSlots
  <2>4. ASSUME NEW s \in ToSet(v), NEW t \in ToSet(parts)
        PROVE  ~Overlap(s, t)
    <3>1. ~Overlap(old, s)
      BY <1>1, <1>2, <2>1
    <3>2. ~Overlap(s, old)
      BY <1>2, <2>3, <3>1, OverlapMoment
    <3> QED BY <2>2, <2>3, <3>2
  <2>5. Apart(w)
    BY <1>4, <2>1, <2>2, <2>4
  <2>6. \A s \in ToSet(w) : Aligned(s)
    BY <1>4, <2>1, <2>2
  <2>7. ASSUME NEW i \in DOMAIN c, NEW s \in ToSet(w)
        PROVE  ~Overlap(c[i], s)
    <3>1. /\ c[i] = b[i] /\ i \in DOMAIN b /\ i # id /\ c[i] \in Interval
          /\ ~Overlap(c[i], old)
      BY <1>1, <1>2, <1>3, <2>1
    <3>2. CASE s \in ToSet(v)
      BY <2>1, <3>1, <3>2
    <3>3. CASE s \in ToSet(parts)
      BY <2>2, <3>1, <3>3
    <3> QED BY <1>4, <3>2, <3>3
  <2>8. \A i \in DOMAIN c : \A j \in DOMAIN c \ {i} : ~Overlap(c[i], c[j])
    BY <1>3, <2>1
  <2>9. \A i \in DOMAIN c : Fits(c[i])
    BY <1>3, <2>1
  <2> QED BY <2>5, <2>6, <2>7, <2>8, <2>9
<1>7. GivenOnce'
  BY <1>1, <1>2, <1>6 DEF GivenOnce
<1> QED BY <1>5, <1>7 DEF IInv

(* A booking moved within the opening hours is an interval of the clock.   *)
LEMMA ShiftedInterval ==
  ASSUME NEW slot \in Interval, NEW m \in Offsets, InOpeningHours(Shifted(slot, m))
  PROVE  Shifted(slot, m) \in Interval
<1>1. m \in Int
  BY VectorAssumption
<1>2. slot.day \in Days /\ slot.startTime \in Nat /\ slot.endTime \in Nat
  BY IntervalTimes
<1>3. PICK s, e : s = ToHHMM(ToMinutes(slot.startTime) + m) /\ e = ToHHMM(ToMinutes(slot.endTime) + m)
  OBVIOUS
<1>4. s \in Int /\ e \in Int
  BY <1>1, <1>2, <1>3, ConversionsInt
<1>5. s >= 800 /\ s < e
  BY <1>3 DEF InOpeningHours, Shifted
<1>6. s \in Nat /\ e \in Nat
  BY <1>4, <1>5
<1> QED BY <1>2, <1>3, <1>6 DEF Shifted, Interval

(* So is what an extension adds.                                           *)
LEMMA ExtensionInterval ==
  ASSUME NEW slot \in Interval, NEW m \in Offsets, Extensible(slot, m)
  PROVE  /\ Extension(slot, m) \in Interval
         /\ [slot EXCEPT !.endTime = Extension(slot, m).endTime] \in Interval
<1>1. m \in Int
  BY VectorAssumption
<1>2. slot.day \in Days /\ slot.startTime \in Nat /\ slot.endTime \in Nat
  BY IntervalTimes
<1>3. PICK e : e = ToHHMM(ToMinutes(slot.endTime) + m)
  OBVIOUS
<1>4. e \in Int
  BY <1>1, <1>2, <1>3, ConversionsInt
<1>5. e > slot.endTime
  BY <1>3 DEF Extensible, Extension
<1>6. e \in Nat
  BY <1>2, <1>4, <1>5
<1>7. Extension(slot, m).endTime = e
  BY <1>3 DEF Extension
<1> QED BY <1>2, <1>3, <1>6, <1>7 DEF Extension, Interval

(* A move puts back the old parts and then erases the new ones, or the old *)
(* ones again, which leaves what was on offer before.                      *)
LEMMA InvModifyBooking ==
  ASSUME IInv, NEW id \in DOMAIN bookings, NEW m \in Offsets, ModifyBooking(id, m)
  PROVE  IInv'
<1>1. PICK v, w, b, old, new, pushed, parts :
         /\ v = availableSlots /\ w = availableSlots' /\ b = bookings
         /\ old = b[id] /\ new = Shifted(old, m) /\ pushed = PushParts(v, old)
         /\ parts = SplitIntoThirtyMinSlots(old)
  OBVIOUS
<1>2. /\ Searchable(v) /\ opened \in Openings /\ opened' = opened
      /\ \A i \in DOMAIN b : b[i] \in Interval
      /\ old \in Interval /\ id \in DOMAIN b /\ InOpeningHours(new)
  BY <1>1 DEF IInv, InOrder, ModifyBooking
<1>3. /\ Searchable(pushed) /\ ToSet(pushed) = ToSet(v) \cup ToSet(parts)
      /\ Apart(v) /\ Apart(parts) /\ (\A s \in ToSet(v), t \in ToSet(parts) : ~Overlap(s, t))
           => Apart(pushed)
  <2>1. Proper(v)
    BY <1>2, SearchableSlots
  <2> QED BY <1>1, <1>2, <2>1, PushKeeps
<1>4. Proper(pushed)
  BY <1>3, SearchableSlots
<1>5. CASE /\ w = EraseParts(pushed, new)
           /\ bookings' = [b EXCEPT ![id] = new]
           /\ reshaped' = TRUE
  <2>1. new \in Interval
    BY <1>1, <1>2, ShiftedInterval
  <2>2. Searchable(w)
    BY <1>4, <1>5, <2>1, EraseKeeps
  <2>3. \A i \in DOMAIN bookings' : bookings'[i] \in Interval
    BY <1>2, <1>5, <2>1
  <2>4. InOrder'
    BY <1>1, <1>2, <2>2, <2>3 DEF InOrder
  <2>5. GivenOnce'
    BY <1>5 DEF GivenOnce
  <2> QED BY <2>4, <2>5 DEF IInv
<1>6. CASE /\ w = EraseParts(pushed, old)
           /\ bookings' = b /\ reshaped' = reshaped
  <2>1. /\ Searchable(w) /\ ToSet(w) = ToSet(pushed) \ ToSet(parts)
        /\ Apart(pushed) => Apart(w)
    BY <1>1, <1>2, <1>4, <1>6, EraseKeeps
  <2>2. InOrder'
    BY <1>1, <1>2, <1>6, <2>1 DEF InOrder
  <2>3. ASSUME ~reshaped
        PROVE  /\ \A s \in ToSet(w) : Aligned(s)
               /\ Apart(w)
               /\ \A i \in DOMAIN b : Fits(b[i])
               /\ \A i \in DOMAIN b :
                    /\ \A s \in ToSet(w) : ~Overlap(b[i], s)
                    /\ \A j \in DOMAIN b \ {i} : ~Overlap(b[i], b[j])
    <3>1. /\ \A s \in ToSet(v) : Aligned(s)
          /\ Apart(v)
          /\ \A i \in DOMAIN b : Fits(b[i])
          /\ \A i \in DOMAIN b :
               /\ \A s \in ToSet(v) : ~Overlap(b[i], s)
               /\ \A j \in DOMAIN b \ {i} : ~Overlap(b[i], b[j])
      BY <1>1, <2>3 DEF IInv, GivenOnce
    <3>2. /\ \A t \in ToSet(parts) : /\ t \in Interval
                                     /\ \A s \in Interval : Overlap(s, t) => Overlap(s, old)
          /\ Apart(parts)
      BY <1>1, <1>2, <3>1, PartsOfBooking
    <3>3. \A s \in ToSet(v) : s \in Interval
      BY <1>2, SearchableSlots
    <3>4. ASSUME NEW s \in ToSet(v), NEW t \in ToSet(parts)
          PROVE  ~Overlap(s, t)
      <4>1. ~Overlap(old, s)
        BY <1>1, <1>2, <3>1
      <4>2. ~Overlap(s, old)
        BY <1>2, <3>3, <4>1, OverlapMoment
      <4> QED BY <3>2, <3>3, <4>2
    <3>5. Apart(w)
      BY <1>3, <2>1, <3>1, <3>2, <3>4
    <3>6. \A s \in ToSet(w) : s \in ToSet(v)
      BY <1>3, <2>1
    <3> QED BY <3>1, <3>5, <3>6
  <2>4. GivenOnce'
    BY <1>1, <1>6, <2>3 DEF GivenOnce
  <2> QED BY <2>2, <2>4 DEF IInv
<1> QED BY <1>1, <1>5, <1>6 DEF ModifyBooking

(* An extension erases the parts of what it adds.                          *)
LEMMA InvExtendBooking ==
  ASSUME IInv, NEW id \in DOMAIN bookings, NEW m \in Offsets, ExtendBooking(id, m)
  PROVE  IInv'
<1>1. PICK v, w, b, c, added, new :
         /\ v = availableSlots /\ w = availableSlots' /\ b = bookings /\ c = bookings'
         /\ added = Extension(b[id], m) /\ new = [b[id] EXCEPT !.endTime = added.endTime]
  OBVIOUS
<1>2. /\ Searchable(v) /\ opened \in Openings /\ opened' = opened /\ reshaped' = TRUE
      /\ \A i \in DOMAIN b : b[i] \in Interval
      /\ id \in DOMAIN b /\ Extensible(b[id], m) /\ w = EraseParts(v, added)
  BY <1>1 DEF IInv, InOrder, ExtendBooking
<1>3. c = [b EXCEPT ![id] = new]
  BY <1>1 DEF ExtendBooking
<1>4. added \in Interval /\ new \in Interval
  BY <1>1, <1>2, ExtensionInterval
<1>5. Searchable(w)
  BY <1>2, <1>4, SearchableSlots, EraseKeeps
<1>6. \A i \in DOMAIN c : c[i] \in Interval
  BY <1>2, <1>3, <1>4
<1>7. InOrder'
  BY <1>1, <1>2, <1>5, <1>6 DEF InOrder
<1>8. GivenOnce'
  BY <1>2 DEF GivenOnce
<1> QED BY <1>7, <1>8 DEF IInv

(* A refusal changes nothing.                                              *)
LEMMA InvStutter ==
  ASSUME IInv, UNCHANGED vars
  PROVE  IInv'
BY DEF IInv, InOrder, GivenOnce, vars

(* So every step keeps the invariant.                                      *)
LEMMA InvNext ==
  ASSUME IInv, [Next]_vars
  PROVE  IInv'
<1>1. ASSUME NEW slot \in Requests, BookSlot(slot)
      PROVE  IInv'
  BY <1>1, InvBookSlot
<1>2. ASSUME NEW slot \in Requests, BookRefused(slot)
      PROVE  IInv'
  BY <1>2, InvStutter DEF BookRefused
<1>3. ASSUME NEW id \in DOMAIN bookings, CancelBooking(id)
      PROVE  IInv'
  BY <1>3, InvCancelBooking
<1>4. ASSUME NEW id \in DOMAIN bookings, NEW m \in Offsets, ModifyBooking(id, m)
      PROVE  IInv'
  BY <1>4, InvModifyBooking
<1>5. ASSUME NEW id \in DOMAIN bookings, NEW m \in Offsets, ExtendBooking(id, m)
      PROVE  IInv'
  BY <1>5, InvExtendBooking
<1>6. ASSUME NEW id \in Ids, CancelRejected(id)
      PROVE  IInv'
  BY <1>6, InvStutter DEF CancelRejected
<1>7. ASSUME NEW id \in Ids, NEW m \in Offsets, ModifyRejected(id, m) \/ ExtendRejected(id, m)
      PROVE  IInv'
  BY <1>7, InvStutter DEF ModifyRejected, ExtendRejected
<1> QED BY <1>1, <1>2, <1>3, <1>4, <1>5, <1>6, <1>7, InvStutter DEF Next

(* The vector stays in order, and booking and cancelling give nothing away *)
(* twice: the inductive invariant holds for every opening, time and        *)
(* offset.                                                                 *)
THEOREM Invariant == Spec => []IInv
<1>1. IInv /\ [Next]_vars => IInv'
  BY InvNext
<1> QED BY <1>1, InvInit, PTL DEF Spec

(* bookSlot, which goes through the vector once, finds a slot exactly when *)
(* isAvailable, which starts again after every match, says it is there.    *)
THEOREM SearchesAgreeAlways == Spec => []SearchesAgree
<1>1. IInv => SearchesAgree
  <2> SUFFICES ASSUME IInv, NEW slot \in Requests, slot.startTime < slot.endTime
               PROVE  Found(availableSlots, slot) <=> IsAvailable(availableSlots, slot)
    BY DEF SearchesAgree
  <2>1. Searchable(availableSlots) /\ slot \in Interval
    BY RequestTimes DEF IInv, InOrder
  <2> QED BY <2>1, SearchesMeet
<1> QED BY <1>1, Invariant, PTL

(* As long as bookings are only made and cancelled, no two of them share a *)
(* moment, and none shares one with the slots on offer, even when bookSlot *)
(* erases whole hours and cancelBooking pushes half hours.                 *)
THEOREM NoneGivenTwiceAlways == Spec => []NoneGivenTwice
<1>1. IInv => NoneGivenTwice
  BY DEF IInv, GivenOnce, NoneGivenTwice
<1> QED BY <1>1, Invariant, PTL

-----------------------------------------------------------------------------
(* Counting what a vector holds.                                           *)

(* The places where it has a slot, and how many these are.                 *)
Places(v, h) == { i \in DOMAIN v : v[i] = h }

(* Those among given ones.                                                 *)
PlacesIn(v, I, h) == { i \in I : v[i] = h }

Copies(v) == [h \in HalfHours |-> Cardinality(Places(v, h))]

(* A number, and zero when it has no copy.                                 *)
LEMMA PlacesFinite ==
  ASSUME NEW R, NEW v \in Seq(R), NEW h
  PROVE  /\ IsFiniteSet(Places(v, h)) /\ Cardinality(Places(v, h)) \in Nat
         /\ Cardinality(Places(v, h)) > 0 <=> h \in ToSet(v)
<1>1. DOMAIN v = 1..Len(v) /\ Len(v) \in Nat
  BY LenProperties
<1>2. IsFiniteSet(DOMAIN v)
  BY <1>1, FS_Interval
<1>3. Places(v, h) \subseteq DOMAIN v
  BY DEF Places
<1>4. IsFiniteSet(Places(v, h))
  BY <1>2, <1>3, FS_Subset
<1>5. Cardinality(Places(v, h)) \in Nat
  BY <1>4, FS_CardinalityType
<1>6. Cardinality(Places(v, h)) = 0 <=> Places(v, h) = {}
  BY <1>4, FS_EmptySet
<1>7. Places(v, h) = {} <=> h \notin ToSet(v)
  BY DEF Places, ToSet
<1> QED BY <1>4, <1>5, <1>6, <1>7

(* Places that go one to one to others are as many.                        *)
LEMMA AsMany ==
  ASSUME NEW K, IsFiniteSet(K), NEW p, NEW T,
         \A k \in K : p[k] \in T,
         \A k, l \in K : k # l => p[k] # p[l],
         \A i \in T : \E k \in K : p[k] = i
  PROVE  Cardinality(T) = Cardinality(K)
<1>1. PICK f : f = [k \in K |-> p[k]]
  OBVIOUS
<1>2. DOMAIN f = K /\ f = [k \in K |-> f[k]] /\ \A k \in K : f[k] = p[k]
  BY <1>1
<1>3. T = { f[k] : k \in K }
  BY <1>2
<1>4. \A k, l \in K : f[k] = f[l] => k = l
  BY <1>2
<1> QED BY <1>2, <1>3, <1>4, ValuesFinite

(* The sort keeps the copies.                                              *)
LEMMA SortCopies ==
  ASSUME NEW v, Proper(v)
  PROVE  Copies(SortAvailableSlots(v)) = Copies(v)
<1>1. PICK w, p : w = SortAvailableSlots(v) /\ w \in Seq(Interval) /\ Len(w) = Len(v) /\ Moved(v, w, p)
  BY SortMoves DEF Proper
<1>2. DOMAIN w = DOMAIN v
  BY <1>1, LenProperties DEF Proper
<1>3. /\ \A k \in DOMAIN v : p[k] \in DOMAIN v /\ w[k] = v[p[k]]
      /\ \A k, l \in DOMAIN v : k # l => p[k] # p[l]
      /\ \A i \in DOMAIN v : \E k \in DOMAIN v : p[k] = i
  BY <1>1 DEF Moved
<1>4. ASSUME NEW h
      PROVE  Cardinality(Places(w, h)) = Cardinality(Places(v, h))
  <2>1. PICK K, T : K = Places(w, h) /\ T = Places(v, h)
    OBVIOUS
  <2>2. IsFiniteSet(K)
    BY <1>1, <2>1, PlacesFinite
  <2>3. K \subseteq DOMAIN v /\ \A k \in K : w[k] = h
    BY <1>2, <2>1 DEF Places
  <2>4. \A k \in K : p[k] \in T
    BY <1>3, <2>1, <2>3 DEF Places
  <2>5. \A k, l \in K : k # l => p[k] # p[l]
    BY <1>3, <2>3
  <2>6. ASSUME NEW i \in T
        PROVE  \E k \in K : p[k] = i
    <3>1. i \in DOMAIN v /\ v[i] = h
      BY <2>1 DEF Places
    <3>2. PICK k \in DOMAIN v : p[k] = i
      BY <1>3, <3>1
    <3>3. w[k] = h
      BY <1>3, <3>1, <3>2
    <3>4. k \in K
      BY <1>2, <2>1, <3>3 DEF Places
    <3> QED BY <3>2, <3>4
  <2>7. Cardinality(T) = Cardinality(K)
    BY <2>2, <2>4, <2>5, <2>6, AsMany
  <2> QED BY <2>1, <2>7
<1> QED BY <1>1, <1>4 DEF Copies

(* Of what is taken from a vector there are as many as at the places.      *)
LEMMA TakenCopies ==
  ASSUME NEW v, NEW I, I \subseteq Nat, NEW w \in Seq(Interval), NEW p, Taken(v, I, w, p), NEW h
  PROVE  Cardinality(Places(w, h)) = Cardinality(PlacesIn(v, I, h))
<1>1. PICK T : T = PlacesIn(v, I, h) /\ T = { i \in I : v[i] = h }
  BY DEF PlacesIn
<1>2. /\ \A k \in DOMAIN w : p[k] \in I /\ w[k] = v[p[k]]
      /\ \A k, l \in DOMAIN w : k < l => p[k] < p[l]
      /\ \A i \in I : \E k \in DOMAIN w : p[k] = i
  BY DEF Taken
<1>3. PICK K : K = Places(w, h)
  OBVIOUS
<1>4. IsFiniteSet(K) /\ K \subseteq DOMAIN w /\ \A k \in K : w[k] = h
  BY <1>3, PlacesFinite DEF Places
<1>5. \A k \in K : p[k] \in T
  BY <1>1, <1>2, <1>3, <1>4
<1>6. \A k, l \in K : k # l => p[k] # p[l]
  <2>1. DOMAIN w = 1..Len(w) /\ Len(w) \in Nat
    BY LenProperties
  <2>2. \A k, l \in DOMAIN w : k # l => k < l \/ l < k
    BY <2>1
  <2>3. ASSUME NEW k \in K, NEW l \in K, k # l, p[k] = p[l]
        PROVE  FALSE
    <3>1. p[k] < p[k] /\ p[k] \in Nat
      BY <1>2, <1>4, <2>2, <2>3
    <3> QED BY <3>1
  <2> QED BY <2>3
<1>7. ASSUME NEW i \in T
      PROVE  \E k \in K : p[k] = i
  <2>1. i \in I /\ v[i] = h
    BY <1>1
  <2>2. PICK k \in DOMAIN w : p[k] = i
    BY <1>2, <2>1
  <2>3. w[k] = h
    BY <1>2, <2>1, <2>2
  <2>4. k \in K
    BY <1>3, <2>3 DEF Places
  <2> QED BY <2>2, <2>4
<1>8. Cardinality(T) = Cardinality(K)
  BY <1>4, <1>5, <1>6, <1>7, AsMany
<1> QED BY <1>1, <1>3, <1>8

(* Vectors joined have the copies of both.                                 *)
LEMMA JoinedCopies ==
  ASSUME NEW v \in Seq(Interval), NEW u \in Seq(Interval), NEW h
  PROVE  Cardinality(Places(v \o u, h)) = Cardinality(Places(v, h)) + Cardinality(Places(u, h))
<1>1. /\ DOMAIN v = 1..Len(v) /\ Len(v) \in Nat /\ DOMAIN u = 1..Len(u) /\ Len(u) \in Nat
  BY LenProperties
<1>2. PICK w, n : w = v \o u /\ n = Len(v)
  OBVIOUS
<1>3. /\ w \in Seq(Interval) /\ Len(w) = n + Len(u)
      /\ \A i \in 1..(n + Len(u)) : w[i] = IF i <= n THEN v[i] ELSE u[i - n]
  BY <1>2, ConcatProperties
<1>4. DOMAIN w = 1..(n + Len(u)) /\ n \in Nat
  BY <1>1, <1>2, <1>3, LenProperties
<1>5. PICK T : T = { i \in DOMAIN w : i > n /\ w[i] = h }
  OBVIOUS
<1>6. Places(w, h) = Places(v, h) \cup T
  <2>1. \A i \in DOMAIN v : i \in DOMAIN w /\ w[i] = v[i]
    BY <1>1, <1>2, <1>3, <1>4
  <2>2. \A i \in DOMAIN w : i <= n => i \in DOMAIN v
    BY <1>1, <1>2, <1>4
  <2>3. \A i \in DOMAIN w : i <= n \/ i > n
    BY <1>4
  <2> QED BY <1>5, <2>1, <2>2, <2>3 DEF Places
<1>7. Places(v, h) \cap T = {}
  BY <1>1, <1>2, <1>5 DEF Places
<1>8. PICK p : p = [k \in DOMAIN u |-> k + n]
  OBVIOUS
<1>9. /\ \A k \in DOMAIN u : p[k] = k + n /\ p[k] \in DOMAIN w /\ p[k] > n /\ w[p[k]] = u[k]
      /\ \A k, l \in DOMAIN u : k # l => p[k] # p[l]
  BY <1>1, <1>3, <1>4, <1>8
<1>10. ASSUME NEW i \in DOMAIN w, i > n
       PROVE  i - n \in DOMAIN u /\ p[i - n] = i /\ w[i] = u[i - n]
  <2>1. i \in Int /\ i - n \in 1..Len(u) /\ ~(i <= n) /\ (i - n) + n = i
    BY <1>1, <1>4, <1>10
  <2>2. i - n \in DOMAIN u /\ p[i - n] = i
    BY <1>1, <1>9, <2>1
  <2>3. w[i] = u[i - n]
    BY <1>3, <1>4, <2>1
  <2> QED BY <2>2, <2>3
<1>11. Cardinality(T) = Cardinality(Places(u, h)) /\ IsFiniteSet(T)
  <2>1. PICK K : K = Places(u, h)
    OBVIOUS
  <2>2. IsFiniteSet(K) /\ K \subseteq DOMAIN u /\ \A k \in K : u[k] = h
    BY <2>1, PlacesFinite DEF Places
  <2>3. \A k \in K : p[k] \in T
    BY <1>5, <1>9, <2>2
  <2>4. \A k, l \in K : k # l => p[k] # p[l]
    BY <1>9, <2>2
  <2>5. ASSUME NEW i \in T
        PROVE  \E k \in K : p[k] = i
    <3>1. i \in DOMAIN w /\ i > n /\ w[i] = h
      BY <1>5
    <3>2. i - n \in DOMAIN u /\ p[i - n] = i /\ u[i - n] = h
      BY <1>10, <3>1
    <3>3. i - n \in K
      BY <2>1, <3>2 DEF Places
    <3> QED BY <3>2, <3>3
  <2>6. Cardinality(T) = Cardinality(K)
    BY <2>2, <2>3, <2>4, <2>5, AsMany
  <2>7. IsFiniteSet(T)
    <3>1. IsFiniteSet(Places(w, h))
      BY <1>3, PlacesFinite
    <3> QED BY <1>6, <3>1, FS_Subset
  <2> QED BY <2>1, <2>6, <2>7
<1>12. /\ IsFiniteSet(Places(v, h)) /\ Cardinality(Places(v, h)) \in Nat
       /\ Cardinality(Places(u, h)) \in Nat
  BY PlacesFinite
<1>13. Cardinality(Places(v, h) \cap T) = 0
  BY <1>7, FS_EmptySet
<1>14. PICK a, b, c : a = Places(v, h) /\ b = T /\ c = a \cap b
  OBVIOUS
<1>15. Cardinality(a \cup b) = Cardinality(a) + Cardinality(b) - Cardinality(c)
  BY <1>11, <1>12, <1>14, FS_Union
<1>16. /\ Cardinality(a \cup b) = Cardinality(Places(w, h)) /\ Cardinality(c) = 0
       /\ Cardinality(a) = Cardinality(Places(v, h)) /\ Cardinality(a) \in Nat
       /\ Cardinality(b) = Cardinality(Places(u, h)) /\ Cardinality(b) \in Nat
  BY <1>6, <1>11, <1>12, <1>13, <1>14
<1> QED BY <1>2, <1>15, <1>16

(* Where no two slots share a moment, each is there once.                  *)
LEMMA ApartCopies ==
  ASSUME NEW v, Proper(v), Apart(v), NEW h
  PROVE  Cardinality(Places(v, h)) = IF h \in ToSet(v) THEN 1 ELSE 0
<1>1. v \in Seq(Interval) /\ \A i \in DOMAIN v : v[i] \in Interval /\ v[i].startTime < v[i].endTime
  BY ElementOfSeq, LenProperties DEF Proper
<1>2. CASE h \notin ToSet(v)
  <2>1. Cardinality(Places(v, h)) \in Nat /\ ~(Cardinality(Places(v, h)) > 0)
    BY <1>1, <1>2, PlacesFinite
  <2> QED BY <1>2, <2>1
<1>3. CASE h \in ToSet(v)
  <2>1. PICK i \in DOMAIN v : v[i] = h
    BY <1>3 DEF ToSet
  <2>2. ASSUME NEW j \in DOMAIN v, v[j] = h
        PROVE  j = i
    <3>1. h.startTime \in Nat /\ h.endTime \in Nat /\ h.startTime < h.endTime
      BY <1>1, <2>1, IntervalTimes
    <3>2. Overlap(h, h)
      BY <3>1 DEF Overlap
    <3> QED BY <2>1, <2>2, <3>2 DEF Apart
  <2>3. Places(v, h) = {i}
    BY <2>1, <2>2 DEF Places
  <2> QED BY <1>3, <2>3, FS_Singleton
<1> QED BY <1>2, <1>3

(* The parts of a booking, as a sequence and as a set.                     *)
LEMMA SplitIsParts ==
  ASSUME NEW slot, Fits(slot)
  PROVE  /\ ToSet(SplitIntoThirtyMinSlots(slot)) = Parts(slot)
         /\ Parts(slot) \subseteq HalfHours
<1>1. CASE slot.startTime = slot.endTime
  <2>1. slot \in Interval
    BY DEF Fits
  <2>2. ToSet(SplitIntoThirtyMinSlots(slot)) = {}
    <3>1. PICK u : u = SplitIntoThirtyMinSlots(slot)
      OBVIOUS
    <3>2. DOMAIN u = {}
      BY <1>1, <2>1, <3>1, SplitEmpty
    <3> QED BY <3>1, <3>2, Zenon DEF ToSet
  <2>3. Parts(slot) = {}
    BY <1>1, <2>1, NoParts, IntervalTimes
  <2> QED BY <2>2, <2>3
<1>2. CASE Aligned(slot)
  BY <1>2, SplitAligned, PartsBetween DEF Between
<1> QED BY <1>1, <1>2 DEF Fits

(* Pushing the parts adds one copy of each.                                *)
LEMMA PushCopies ==
  ASSUME NEW v, Proper(v), NEW slot, Fits(slot)
  PROVE  Copies(PushParts(v, slot)) =
           [h \in HalfHours |-> IF h \in Parts(slot) THEN Copies(v)[h] + 1 ELSE Copies(v)[h]]
<1>1. PICK u, w : u = SplitIntoThirtyMinSlots(slot) /\ w = v \o u
  OBVIOUS
<1>2. slot \in Interval /\ Proper(u) /\ Apart(u) /\ ToSet(u) = Parts(slot)
  <2>1. slot \in Interval
    BY DEF Fits
  <2>2. Proper(u)
    BY <1>1, <2>1, SplitProper DEF Proper
  <2> QED BY <1>1, <2>1, <2>2, PartsOfBooking, SplitIsParts
<1>3. Proper(w)
  BY <1>1, <1>2, JoinedSlots
<1>4. Copies(PushParts(v, slot)) = Copies(w)
  BY <1>1, <1>3, SortCopies DEF PushParts
<1>5. ASSUME NEW h \in HalfHours
      PROVE  Cardinality(Places(w, h)) =
               IF h \in Parts(slot) THEN Cardinality(Places(v, h)) + 1 ELSE Cardinality(Places(v, h))
  <2>1. v \in Seq(Interval) /\ u \in Seq(Interval)
    BY <1>2 DEF Proper
  <2>2. Cardinality(Places(w, h)) = Cardinality(Places(v, h)) + Cardinality(Places(u, h))
    BY <1>1, <2>1, JoinedCopies
  <2>3. Cardinality(Places(u, h)) = IF h \in Parts(slot) THEN 1 ELSE 0
    BY <1>2, ApartCopies
  <2>4. Cardinality(Places(v, h)) \in Nat
    BY <2>1, PlacesFinite
  <2> QED BY <2>2, <2>3, <2>4
<1> QED BY <1>4, <1>5 DEF Copies

(* Erasing them leaves none.                                               *)
LEMMA EraseCopies ==
  ASSUME NEW v, Proper(v), NEW slot, Fits(slot)
  PROVE  Copies(EraseParts(v, slot)) =
           [h \in HalfHours |-> IF h \in Parts(slot) THEN 0 ELSE Copies(v)[h]]
<1>1. PICK parts, w, I : /\ parts = Parts(slot) /\ w = Kept(v, parts)[Len(v)]
                         /\ I = { i \in DOMAIN v : v[i] \notin parts }
  OBVIOUS
<1>2. w \in Seq(Interval) /\ \E p : Taken(v, I, w, p)
  BY <1>1, KeptTaken DEF Proper
<1>3. I \subseteq DOMAIN v /\ DOMAIN v \subseteq Nat
  BY <1>1, LenProperties DEF Proper
<1>4. Proper(w)
  BY <1>2, <1>3, TakenKeeps
<1>5. Copies(EraseParts(v, slot)) = Copies(w)
  <2>1. EraseParts(v, slot) = SortAvailableSlots(w)
    BY <1>1, SplitIsParts DEF EraseParts
  <2> QED BY <1>4, <2>1, SortCopies
<1>6. ASSUME NEW h \in HalfHours
      PROVE  Cardinality(Places(w, h)) = IF h \in parts THEN 0 ELSE Cardinality(Places(v, h))
  <2>1. PICK T : T = PlacesIn(v, I, h) /\ T = { i \in I : v[i] = h }
    BY DEF PlacesIn
  <2>2. Cardinality(Places(w, h)) = Cardinality(T)
    <3>1. I \subseteq Nat
      BY <1>3
    <3>2. PICK p : Taken(v, I, w, p)
      BY <1>2
    <3>3. w \in Seq(Interval)
      BY <1>2
    <3>4. Cardinality(Places(w, h)) = Cardinality(PlacesIn(v, I, h))
      BY <3>1, <3>2, <3>3, TakenCopies
    <3> QED BY <2>1, <3>4
  <2>3. CASE h \in parts
    <3>1. T = {}
      BY <1>1, <2>1, <2>3
    <3> QED BY <2>2, <2>3, <3>1, FS_EmptySet
  <2>4. CASE h \notin parts
    <3>1. T = Places(v, h)
      BY <1>1, <2>1, <2>4 DEF Places
    <3> QED BY <2>2, <2>4, <3>1
  <2> QED BY <2>3, <2>4
<1> QED BY <1>1, <1>5, <1>6 DEF Copies

-----------------------------------------------------------------------------
(* Searching among half hours.                                             *)

OffersHalfHours(v) == Searchable(v) /\ \A i \in DOMAIN v : v[i] \in HalfHours

(* Half hours that share a moment are the same.                            *)
LEMMA SameHalfHour ==
  ASSUME NEW g \in HalfHours, NEW h \in HalfHours, g.day = h.day,
         NEW t \in Nat, Covers(g, t), Covers(h, t)
  PROVE  g = h
<1>1. PICK j \in 0..19 : g = [day |-> g.day, startTime |-> Boundary(j), endTime |-> Boundary(j + 1)]
  BY HalfHourShape
<1>2. PICK k \in 0..19 : h = [day |-> h.day, startTime |-> Boundary(k), endTime |-> Boundary(k + 1)]
  BY HalfHourShape
<1>3. j \in Nat /\ k \in Nat /\ j + 1 \in Nat /\ k + 1 \in Nat
  OBVIOUS
<1>4. /\ Boundary(j) \in Nat /\ Boundary(k) \in Nat
      /\ Boundary(j + 1) \in Nat /\ Boundary(k + 1) \in Nat
  BY <1>3, BoundaryTime
<1>5. Boundary(j) < Boundary(k + 1) /\ Boundary(k) < Boundary(j + 1)
  <2>1. /\ g.startTime = Boundary(j) /\ g.endTime = Boundary(j + 1)
        /\ h.startTime = Boundary(k) /\ h.endTime = Boundary(k + 1)
    BY <1>1, <1>2
  <2> QED BY <1>4, <2>1 DEF Covers
<1>6. j < k + 1 /\ k < j + 1
  BY <1>3, <1>5, BoundaryIndex
<1>7. j = k
  BY <1>6
<1> QED BY <1>1, <1>2, <1>7

(* What the pass has matched lies in the slot, each match behind the one   *)
(* before.                                                                 *)
LEMMA MatchedSlots ==
  ASSUME NEW v, Searchable(v), NEW slot \in Interval, NEW M, M = Search(v, slot).matched
  PROVE  /\ M \subseteq DOMAIN v
         /\ \A i \in M : /\ v[i].day = slot.day
                         /\ slot.startTime <= v[i].startTime /\ v[i].endTime <= slot.endTime
         /\ \A i, j \in M : i < j => v[i].endTime <= v[j].startTime
         /\ Search(v, slot).currentStart \in Nat
         /\ slot.startTime <= Search(v, slot).currentStart
         /\ \/ Search(v, slot).currentStart = slot.startTime
            \/ \E i \in M : v[i].endTime = Search(v, slot).currentStart
<1>1. PICK m : m = Search(v, slot)
  OBVIOUS
<1>2. /\ v \in Seq(Interval) /\ (\A i \in DOMAIN v : v[i].startTime < v[i].endTime)
      /\ Len(v) \in Nat /\ DOMAIN v = 1..Len(v) /\ Len(v) \in 0..Len(v)
  BY LenProperties DEF Searchable
<1>3. Filled(v, slot, m, Len(v))
  BY <1>1, <1>2, PassFills DEF Search
<1>4. m \in [matched : SUBSET DOMAIN v, currentStart : Nat]
  BY <1>1, <1>2, PassSteps DEF Search
<1>5. M = m.matched /\ m.currentStart \in Nat
  BY <1>1, <1>4
<1> QED BY <1>1, <1>2, <1>3, <1>5 DEF Filled

(* The slots bookSlot erases are the half hours of the booking.            *)
LEMMA MatchesAreParts ==
  ASSUME NEW v, OffersHalfHours(v), NEW slot \in Interval, slot \in TimeSlot, Found(v, slot),
         NEW M, M = Search(v, slot).matched
  PROVE  /\ Fits(slot)
         /\ M \subseteq DOMAIN v
         /\ \A i \in M : v[i] \in Parts(slot)
         /\ \A i, j \in M : v[i] = v[j] => i = j
         /\ \A h \in Parts(slot) : \E i \in M : v[i] = h
<1>1. /\ Searchable(v) /\ v \in Seq(Interval) /\ DOMAIN v \subseteq Nat
      /\ \A i \in DOMAIN v : /\ v[i] \in HalfHours /\ Aligned(v[i]) /\ v[i].startTime < v[i].endTime
                             /\ v[i].startTime \in Nat /\ v[i].endTime \in Nat
  BY LenProperties, ElementOfSeq, IntervalTimes, HalfHourAligned DEF OffersHalfHours, Searchable
<1>2. /\ M \subseteq DOMAIN v
      /\ \A i \in M : /\ v[i].day = slot.day
                      /\ slot.startTime <= v[i].startTime /\ v[i].endTime <= slot.endTime
      /\ \A i, j \in M : i < j => v[i].endTime <= v[j].startTime
  BY <1>1, MatchedSlots
<1>3. /\ Fits(slot)
      /\ \A t \in Nat : Covers(slot, t) =>
           \E i \in M : i \in DOMAIN v /\ v[i].day = slot.day /\ Covers(v[i], t)
  BY <1>1, FoundFills
<1>4. slot.startTime \in Nat /\ slot.endTime \in Nat
  BY IntervalTimes
<1>5. ASSUME NEW i \in M, NEW j \in M, v[i] = v[j]
      PROVE  i = j
  <2>1. ~(i < j) /\ ~(j < i) /\ i \in Nat /\ j \in Nat
    BY <1>1, <1>2, <1>5
  <2> QED BY <2>1
<1>6. CASE slot.startTime = slot.endTime
  <2>1. Parts(slot) = {}
    BY <1>4, <1>6, NoParts
  <2>2. M = {}
    BY <1>1, <1>2, <1>4, <1>6
  <2> QED BY <1>3, <2>1, <2>2
<1>7. CASE Aligned(slot)
  <2>1. Parts(slot) = Between(slot)
    BY <1>7, PartsBetween
  <2>2. ASSUME NEW i \in M
        PROVE  v[i] \in Parts(slot)
    <3>1. /\ v[i] \in HalfHours /\ v[i].day = slot.day
          /\ slot.startTime <= v[i].startTime /\ v[i].startTime < slot.endTime
      BY <1>1, <1>2, <1>4
    <3> QED BY <2>1, <3>1 DEF Between
  <2>3. ASSUME NEW h \in Parts(slot)
        PROVE  \E i \in M : v[i] = h
    <3>1. /\ h \in HalfHours /\ h.day = slot.day
          /\ slot.startTime <= h.startTime /\ h.startTime < slot.endTime
      BY <2>1, <2>3 DEF Between
    <3>2. h.startTime \in Nat /\ Covers(h, h.startTime) /\ Covers(slot, h.startTime)
      <4>1. h \in Interval /\ h.startTime < h.endTime
        BY <3>1, HalfHourAligned, AlignedInterval
      <4>2. h.startTime \in Nat
        BY <4>1, IntervalTimes
      <4> QED BY <3>1, <4>1, <4>2 DEF Covers
    <3>3. PICK i \in M : i \in DOMAIN v /\ v[i].day = slot.day /\ Covers(v[i], h.startTime)
      BY <1>3, <3>2
    <3>4. v[i] = h
      BY <1>1, <3>1, <3>2, <3>3, SameHalfHour
    <3> QED BY <3>4
  <2> QED BY <1>2, <1>3, <1>5, <2>2, <2>3
<1> QED BY <1>3, <1>6, <1>7 DEF Fits

(* They are erased once each.                                              *)
LEMMA EraseMatchedCopies ==
  ASSUME NEW v, OffersHalfHours(v), NEW slot \in Interval, slot \in TimeSlot, Found(v, slot)
  PROVE  Copies(EraseMatched(v, Search(v, slot).matched)) =
           [h \in HalfHours |-> IF h \in Parts(slot) THEN Copies(v)[h] - 1 ELSE Copies(v)[h]]
<1>1. PICK M, w, I : M = Search(v, slot).matched /\ w = EraseMatched(v, M) /\ I = DOMAIN v \ M
  OBVIOUS
<1>2. /\ v \in Seq(Interval) /\ DOMAIN v \subseteq Nat /\ I \subseteq Nat
  BY <1>1, LenProperties DEF OffersHalfHours, Searchable
<1>3. w \in Seq(Interval) /\ \E p : Taken(v, I, w, p)
  BY <1>1, <1>2, ErasedTaken
<1>4. PICK p : Taken(v, I, w, p)
  BY <1>3
<1>5. /\ M \subseteq DOMAIN v
      /\ \A i \in M : v[i] \in Parts(slot)
      /\ \A i, j \in M : v[i] = v[j] => i = j
      /\ \A h \in Parts(slot) : \E i \in M : v[i] = h
  BY <1>1, MatchesAreParts
<1>6. ASSUME NEW h \in HalfHours
      PROVE  Cardinality(Places(w, h)) =
               IF h \in Parts(slot) THEN Cardinality(Places(v, h)) - 1 ELSE Cardinality(Places(v, h))
  <2>1. PICK S, T : /\ S = Places(v, h) /\ S = { i \in DOMAIN v : v[i] = h }
                    /\ T = PlacesIn(v, I, h) /\ T = { i \in I : v[i] = h }
    BY DEF Places, PlacesIn
  <2>2. w \in Seq(Interval)
    BY <1>3
  <2>3. I \subseteq Nat
    BY <1>2
  <2>4. Cardinality(Places(w, h)) = Cardinality(T)
    <3>1. Cardinality(Places(w, h)) = Cardinality(PlacesIn(v, I, h))
      BY <1>4, <2>2, <2>3, TakenCopies
    <3> QED BY <2>1, <3>1
  <2>5. IsFiniteSet(S)
    BY <1>2, <2>1, PlacesFinite
  <2>6. CASE h \in Parts(slot)
    <3>1. PICK i \in M : v[i] = h
      BY <1>5, <2>6
    <3>2. \A k \in M : v[k] = h => k = i
      BY <1>5, <3>1
    <3>3. T = S \ {i} /\ i \in S
      BY <1>1, <1>5, <2>1, <3>1, <3>2
    <3>4. Cardinality(T) = Cardinality(S) - 1
      BY <2>5, <3>3, FS_RemoveElement
    <3> QED BY <2>1, <2>4, <2>6, <3>4
  <2>7. CASE h \notin Parts(slot)
    <3>1. T = S
      BY <1>1, <1>5, <2>1, <2>7
    <3> QED BY <2>1, <2>4, <2>7, <3>1
  <2> QED BY <2>6, <2>7
<1> QED BY <1>1, <1>6 DEF Copies

(* Facility means by its words what they mean here.                        *)
LEMMA SameWords ==
  ASSUME NEW o
  PROVE  /\ F(o)!HalfHours = HalfHours
         /\ \A slot : F(o)!Parts(slot) = Parts(slot)
         /\ \A slot, m : /\ F(o)!Shifted(slot, m) = Shifted(slot, m)
                         /\ F(o)!Extension(slot, m) = Extension(slot, m)
         /\ \A slot : F(o)!InOpeningHours(slot) <=> InOpeningHours(slot)
         /\ F(o)!Requests = Requests /\ F(o)!Ids = Ids
<1>1. \A t : F(o)!ToMinutes(t) = ToMinutes(t) /\ F(o)!ToHHMM(t) = ToHHMM(t)
  BY DEF F!ToMinutes, F!ToHHMM, F!Quot, F!Rem, ToMinutes, ToHHMM, Quot, Rem
<1>2. \A t : F(o)!HalfHourAfter(t) = HalfHourAfter(t)
  BY <1>1 DEF F!HalfHourAfter, HalfHourAfter
<1>3. F(o)!HalfHourStarts = HalfHourStarts
  BY <1>1 DEF F!HalfHourStarts, HalfHourStarts, F!Boundary, Boundary
<1>4. F(o)!HalfHours = HalfHours
  BY <1>2, <1>3 DEF F!HalfHours, HalfHours
<1>5. \A slot, k : F(o)!PartStart(slot, k) = PartStart(slot, k)
  BY <1>1 DEF F!PartStart, PartStart
<1>6. ASSUME NEW slot
      PROVE  F(o)!Parts(slot) = Parts(slot)
  BY <1>5 DEF F!Parts, Parts
<1>7. \A slot, m : /\ F(o)!Shifted(slot, m) = Shifted(slot, m)
                  /\ F(o)!Extension(slot, m) = Extension(slot, m)
  BY <1>1 DEF F!Shifted, Shifted, F!Extension, Extension
<1>8. \A slot : F(o)!InOpeningHours(slot) <=> InOpeningHours(slot)
  BY DEF F!InOpeningHours, InOpeningHours
<1>9. F(o)!Requests = Requests /\ F(o)!Ids = Ids
  BY DEF F!Requests, Requests, F!Ids, Ids
<1> QED BY <1>4, <1>6, <1>7, <1>8, <1>9

(* A copy counted is a place found.                                        *)
LEMMA CountedCopies ==
  ASSUME NEW v \in Seq(Interval), NEW h \in HalfHours
  PROVE  Copies(v)[h] \in Nat /\ (Copies(v)[h] > 0 <=> \E i \in DOMAIN v : v[i] = h)
<1>1. Copies(v)[h] = Cardinality(Places(v, h))
  BY DEF Copies
<1>2. h \in ToSet(v) <=> \E i \in DOMAIN v : v[i] = h
  BY DEF ToSet
<1> QED BY <1>1, <1>2, PlacesFinite

(* The pass over the vector succeeds exactly when every part is there.     *)
LEMMA FoundIfCovered ==
  ASSUME NEW o, NEW v, OffersHalfHours(v), NEW slot \in Interval, slot \in TimeSlot,
         slot.startTime < slot.endTime
  PROVE  Found(v, slot) <=> F(o)!Covered(Copies(v), slot)
<1> DEFINE covered == \A p \in Parts(slot) : /\ p \in HalfHours /\ Copies(v)[p] > 0
                                             /\ p.endTime <= slot.endTime
<1>1. F(o)!Covered(Copies(v), slot) <=> covered
  BY SameWords DEF F!Covered
<1>2. /\ Searchable(v) /\ v \in Seq(Interval) /\ slot.startTime \in Nat /\ slot.endTime \in Nat
      /\ Len(v) \in 0..Len(v) /\ DOMAIN v = 1..Len(v)
  BY LenProperties, IntervalTimes DEF OffersHalfHours, Searchable
<1>3. PICK M : M = Search(v, slot).matched
  OBVIOUS
<1>4. ASSUME Found(v, slot)
      PROVE  covered
  <2>1. \A h \in Parts(slot) : \E i \in M : v[i] = h
    BY <1>3, <1>4, MatchesAreParts
  <2>2. M \subseteq DOMAIN v /\ \A i \in M : v[i].endTime <= slot.endTime
    BY <1>2, <1>3, MatchedSlots
  <2>3. ASSUME NEW h \in Parts(slot)
        PROVE  h \in HalfHours /\ Copies(v)[h] > 0 /\ h.endTime <= slot.endTime
    <3>1. PICK i \in M : v[i] = h
      BY <2>1
    <3>2. i \in DOMAIN v /\ h \in HalfHours /\ h.endTime <= slot.endTime
      BY <2>2, <3>1 DEF OffersHalfHours
    <3> QED BY <1>2, <3>1, <3>2, CountedCopies
  <2> QED BY <2>3
<1>5. ASSUME covered
      PROVE  Found(v, slot)
  <2>1. Aligned(slot)
    BY <1>5, AlignedIfCovered
  <2>2. PICK a \in 0..19, b \in 1..20 :
           a < b /\ slot.startTime = Boundary(a) /\ slot.endTime = Boundary(b)
    BY <2>1 DEF Aligned
  <2>3. PICK now : now = Search(v, slot).currentStart
    OBVIOUS
  <2>4. /\ M \subseteq DOMAIN v /\ \A i \in M : v[i].endTime <= slot.endTime
        /\ now \in Nat /\ slot.startTime <= now
        /\ now = slot.startTime \/ \E i \in M : v[i].endTime = now
    BY <1>2, <1>3, <2>3, MatchedSlots
  <2>5. \A i \in DOMAIN v : ~Continues(v[i], slot.day, now, slot.endTime)
    BY <1>2, <2>3, PassFollows DEF Search
  <2>6. ASSUME now # slot.endTime
        PROVE  FALSE
    <3>1. now < slot.endTime
      BY <1>2, <2>4, <2>6
    <3>2. PICK j \in 0..20 : now = Boundary(j)
      <4>1. CASE now = slot.startTime
        BY <2>2, <4>1
      <4>2. CASE \E i \in M : v[i].endTime = now
        <5>1. PICK i \in M : v[i].endTime = now
          BY <4>2
        <5>2. v[i] \in HalfHours
          BY <2>4, <5>1 DEF OffersHalfHours
        <5>3. PICK k \in 0..19 :
                 v[i] = [day |-> v[i].day, startTime |-> Boundary(k), endTime |-> Boundary(k + 1)]
          BY <5>2, HalfHourShape
        <5>4. now = Boundary(k + 1) /\ k + 1 \in 0..20
          BY <5>1, <5>3
        <5> QED BY <5>4
      <4> QED BY <2>4, <4>1, <4>2
    <3>3. j < b
      <4>1. j \in Nat /\ b \in Nat /\ Boundary(j) < Boundary(b)
        BY <2>2, <3>1, <3>2
      <4> QED BY <4>1, BoundaryIndex
    <3>4. j \in 0..19
      BY <3>3
    <3>5. PICK h : h = [day |-> slot.day, startTime |-> Boundary(j), endTime |-> Boundary(j + 1)]
      OBVIOUS
    <3>6. h \in HalfHours /\ h.day = slot.day /\ h.startTime = now /\ h.endTime = Boundary(j + 1)
      <4>1. slot.day \in Days
        BY IntervalTimes
      <4>2. h \in HalfHours
        BY <3>4, <3>5, <4>1, HalfHourAt
      <4> QED BY <3>2, <3>5, <4>2
    <3>7. h.endTime <= slot.endTime
      <4>1. j + 1 \in Nat /\ b \in Nat /\ j + 1 <= b
        BY <3>3, <3>4
      <4> QED BY <2>2, <3>6, <4>1, BoundaryIndex
    <3>8. h \in Parts(slot)
      <4>1. h \in Between(slot)
        BY <2>4, <3>1, <3>6 DEF Between
      <4> QED BY <2>1, <4>1, PartsBetween
    <3>9. PICK i \in DOMAIN v : v[i] = h
      BY <1>2, <1>5, <3>6, <3>8, CountedCopies
    <3> QED BY <2>5, <3>6, <3>7, <3>9 DEF Continues
  <2> QED BY <2>3, <2>6 DEF Found
<1> QED BY <1>1, <1>4, <1>5

(* bookSlot's search finds what Facility says matches...                   *)
LEMMA FoundIfMatches ==
  ASSUME NEW o, NEW v, OffersHalfHours(v), NEW slot \in Interval, slot \in TimeSlot
  PROVE  Found(v, slot) <=> F(o)!Matches(Copies(v), slot)
<1>1. F(o)!Matches(Copies(v), slot)
        <=> \/ slot.startTime = slot.endTime
            \/ slot.startTime < slot.endTime /\ F(o)!Covered(Copies(v), slot)
  BY DEF F!Matches
<1>2. slot.startTime \in Nat /\ slot.endTime \in Nat /\ Searchable(v)
  BY IntervalTimes DEF OffersHalfHours
<1>3. PICK M, now : M = Search(v, slot).matched /\ now = Search(v, slot).currentStart
  OBVIOUS
<1>4. /\ M \subseteq DOMAIN v
      /\ \A i \in M : slot.startTime <= v[i].startTime /\ v[i].endTime <= slot.endTime
      /\ now \in Nat /\ slot.startTime <= now
      /\ now = slot.startTime \/ \E i \in M : v[i].endTime = now
  BY <1>2, <1>3, MatchedSlots
<1>5. CASE slot.startTime < slot.endTime
  BY <1>1, <1>2, <1>5, FoundIfCovered
<1>6. CASE slot.endTime < slot.startTime
  BY <1>1, <1>2, <1>3, <1>4, <1>6 DEF Found
<1>7. CASE slot.endTime = slot.startTime
  <2>1. M = {}
    <3>1. ASSUME NEW i \in M
          PROVE  FALSE
      <4>1. v[i] \in Interval /\ v[i].startTime < v[i].endTime
        BY <1>2, <1>4, ElementOfSeq DEF Searchable
      <4>2. v[i].startTime \in Nat /\ v[i].endTime \in Nat
        BY <4>1, IntervalTimes
      <4> QED BY <1>2, <1>4, <1>7, <4>1, <4>2
    <3> QED BY <3>1
  <2>2. now = slot.endTime
    BY <1>4, <1>7, <2>1
  <2> QED BY <1>1, <1>3, <1>7, <2>2 DEF Found
<1> QED BY <1>2, <1>5, <1>6, <1>7

(* ...and isAvailable what it says is available.                           *)
LEMMA AvailableIfCovered ==
  ASSUME NEW o, NEW v, OffersHalfHours(v), NEW slot \in Interval, slot \in TimeSlot
  PROVE  IsAvailable(v, slot) <=> F(o)!IsAvailable(Copies(v), slot)
<1>1. F(o)!IsAvailable(Copies(v), slot)
        <=> (slot.startTime < slot.endTime => F(o)!Covered(Copies(v), slot))
  BY DEF F!IsAvailable
<1>2. slot.startTime \in Nat /\ slot.endTime \in Nat /\ Searchable(v)
  BY IntervalTimes DEF OffersHalfHours
<1>3. CASE slot.startTime < slot.endTime
  BY <1>1, <1>2, <1>3, FoundIfCovered, SearchesMeet
<1>4. CASE ~(slot.startTime < slot.endTime)
  <2>1. PICK now : now = Search(v, slot).currentStart
    OBVIOUS
  <2>2. now \in Nat /\ slot.startTime <= now /\ Reached(v, slot)[Len(v)] = now
    BY <1>2, <2>1, MatchedSlots, SearchesMeet
  <2>3. now >= slot.endTime
    BY <1>2, <1>4, <2>2
  <2> QED BY <1>1, <1>4, <2>2, <2>3 DEF IsAvailable
<1> QED BY <1>3, <1>4

-----------------------------------------------------------------------------
(* A facility that was opened with half hours goes on offering half hours, *)
(* and its bookings are empty or made of them.                             *)

InHalfHours ==
  /\ currentId \in Ids
  /\ DOMAIN bookings \subseteq Ids
  /\ OfHalfHours(opened) =>
       /\ OffersHalfHours(availableSlots)
       /\ \A id \in DOMAIN bookings : Fits(bookings[id])

(* Its slots as a set.                                                     *)
LEMMA OffersSet ==
  ASSUME NEW v, Searchable(v)
  PROVE  OffersHalfHours(v) <=> ToSet(v) \subseteq HalfHours
<1>1. ToSet(v) = { v[i] : i \in DOMAIN v }
  BY DEF ToSet
<1> QED BY <1>1 DEF OffersHalfHours

(* Half hours pushed onto half hours.                                      *)
LEMMA PushOffers ==
  ASSUME NEW v, OffersHalfHours(v), NEW slot, Fits(slot)
  PROVE  OffersHalfHours(PushParts(v, slot))
<1>1. Searchable(v) /\ Proper(v) /\ ToSet(v) \subseteq HalfHours /\ slot \in Interval
  BY OffersSet, SearchableSlots DEF OffersHalfHours, Fits
<1>2. /\ Searchable(PushParts(v, slot))
      /\ ToSet(PushParts(v, slot)) = ToSet(v) \cup ToSet(SplitIntoThirtyMinSlots(slot))
  BY <1>1, PushKeeps
<1>3. ToSet(SplitIntoThirtyMinSlots(slot)) \subseteq HalfHours
  BY SplitIsParts
<1> QED BY <1>1, <1>2, <1>3, OffersSet

(* Half hours erased from them.                                            *)
LEMMA EraseOffers ==
  ASSUME NEW v, OffersHalfHours(v), NEW slot \in Interval
  PROVE  OffersHalfHours(EraseParts(v, slot))
<1>1. Searchable(v) /\ Proper(v) /\ ToSet(v) \subseteq HalfHours
  BY OffersSet, SearchableSlots DEF OffersHalfHours
<1>2. /\ Searchable(EraseParts(v, slot))
      /\ ToSet(EraseParts(v, slot)) = ToSet(v) \ ToSet(SplitIntoThirtyMinSlots(slot))
  BY <1>1, EraseKeeps
<1> QED BY <1>1, <1>2, OffersSet

(* What isAvailable finds is made of half hours.                           *)
LEMMA AvailableFits ==
  ASSUME NEW v, OffersHalfHours(v), NEW slot \in Interval, slot \in TimeSlot,
         slot.startTime < slot.endTime, IsAvailable(v, slot)
  PROVE  Fits(slot) /\ Aligned(slot)
<1>1. Searchable(v) /\ slot.startTime \in Nat
  BY IntervalTimes DEF OffersHalfHours
<1>2. Found(v, slot)
  BY <1>1, SearchesMeet
<1>3. Fits(slot)
  BY <1>2, MatchesAreParts
<1> QED BY <1>1, <1>3 DEF Fits

(* A slot that modifyBooking looks for has 16-bit times.                   *)
LEMMA ShiftedSlot ==
  ASSUME NEW slot \in Interval, NEW m \in Offsets, InOpeningHours(Shifted(slot, m))
  PROVE  /\ Shifted(slot, m) \in Interval /\ Shifted(slot, m) \in TimeSlot
         /\ Shifted(slot, m).startTime < Shifted(slot, m).endTime
<1>1. PICK new : new = Shifted(slot, m)
  OBVIOUS
<1>2. new \in Interval
  BY <1>1, ShiftedInterval
<1>3. new.startTime \in Nat /\ new.endTime \in Nat /\ new.day \in Days
  BY <1>2, IntervalTimes
<1>4. new.endTime <= 1800 /\ new.startTime < new.endTime
  BY <1>1 DEF InOpeningHours
<1>5. new.startTime \in UInt16 /\ new.endTime \in UInt16
  BY <1>3, <1>4, FitsUInt16
<1>6. new \in TimeSlot
  BY <1>2, <1>3, <1>5 DEF Interval, TimeSlot
<1> QED BY <1>1, <1>2, <1>4, <1>6

(* So has one that extendBooking looks for.                                *)
LEMMA ExtensionSlot ==
  ASSUME NEW slot \in Interval, NEW m \in Offsets,
         Extension(slot, m).endTime <= 1800, Extension(slot, m).endTime > slot.endTime
  PROVE  /\ Extension(slot, m) \in Interval /\ Extension(slot, m) \in TimeSlot
         /\ Extension(slot, m).startTime < Extension(slot, m).endTime
<1>1. m \in Int
  BY VectorAssumption
<1>2. slot.day \in Days /\ slot.startTime \in Nat /\ slot.endTime \in Nat
  BY IntervalTimes
<1>3. PICK e : e = ToHHMM(ToMinutes(slot.endTime) + m)
  OBVIOUS
<1>4. e \in Int
  BY <1>1, <1>2, <1>3, ConversionsInt
<1>5. Extension(slot, m) = [day |-> slot.day, startTime |-> slot.endTime, endTime |-> e]
  BY <1>3 DEF Extension
<1>6. e <= 1800 /\ e > slot.endTime
  BY <1>5
<1>7. e \in Nat /\ e \in UInt16 /\ slot.endTime \in UInt16
  BY <1>2, <1>4, <1>6, FitsUInt16
<1> QED BY <1>2, <1>5, <1>6, <1>7 DEF Interval, TimeSlot

(* An extended booking is one run of half hours.                           *)
LEMMA ExtendedFits ==
  ASSUME NEW v, OffersHalfHours(v), NEW slot, Fits(slot), NEW m \in Offsets,
         Extension(slot, m).endTime <= 1800, Extension(slot, m).endTime > slot.endTime,
         IsAvailable(v, Extension(slot, m))
  PROVE  /\ Fits(Extension(slot, m))
         /\ Fits([slot EXCEPT !.endTime = Extension(slot, m).endTime])
<1>1. PICK added, longer : /\ added = Extension(slot, m)
                           /\ longer = [slot EXCEPT !.endTime = added.endTime]
  OBVIOUS
<1>2. slot \in Interval
  BY DEF Fits
<1>3. added \in Interval /\ added \in TimeSlot /\ added.startTime < added.endTime
  BY <1>1, <1>2, ExtensionSlot
<1>4. Fits(added) /\ Aligned(added)
  BY <1>1, <1>3, AvailableFits
<1>5. added.day = slot.day /\ added.startTime = slot.endTime
  BY <1>1 DEF Extension
<1>6. longer \in Interval
  BY <1>1, <1>2, <1>3, IntervalTimes DEF Interval
<1>7. CASE slot.startTime = slot.endTime
  <2>1. longer = added
    BY <1>1, <1>2, <1>3, <1>5, <1>7 DEF Interval
  <2> QED BY <1>1, <1>4, <2>1
<1>8. CASE Aligned(slot)
  <2>1. Aligned(longer)
    BY <1>1, <1>4, <1>5, <1>8, PartsJoin
  <2> QED BY <1>1, <1>4, <1>6, <2>1 DEF Fits
<1> QED BY <1>7, <1>8 DEF Fits

(* It holds when the facility has been opened.                             *)
LEMMA HalfHoursInit == Init => InHalfHours
<1> SUFFICES ASSUME Init PROVE InHalfHours
  OBVIOUS
<1>1. opened \in Openings /\ availableSlots = Opened(opened)[Len(opened)]
  BY DEF Init
<1>2. currentId \in Ids /\ DOMAIN bookings = {}
  BY VectorAssumption DEF Init, Ids
<1>3. /\ Searchable(availableSlots)
      /\ ToSet(availableSlots) = ToSet(opened)
  BY <1>1, OpenedVector
<1>4. OfHalfHours(opened) => OffersHalfHours(availableSlots)
  BY <1>3, OffersSet DEF OfHalfHours
<1> QED BY <1>2, <1>4 DEF InHalfHours

(* bookSlot makes bookings of half hours and erases half hours.            *)
LEMMA HalfHoursBookSlot ==
  ASSUME IInv, InHalfHours, NEW slot \in Requests, BookSlot(slot)
  PROVE  InHalfHours'
<1>1. PICK v, w, b, c, m : /\ v = availableSlots /\ w = availableSlots' /\ b = bookings /\ c = bookings'
                           /\ m = Search(v, slot).matched
  OBVIOUS
<1>2. /\ slot \in Interval /\ slot \in TimeSlot /\ Found(v, slot)
      /\ w = EraseMatched(v, m) /\ opened' = opened
      /\ c = [i \in DOMAIN b \cup {currentId} |-> IF i \in DOMAIN b THEN b[i] ELSE slot]
      /\ currentId' = (currentId + 1) % IdSpace
  BY <1>1, RequestTimes DEF BookSlot
<1>3. currentId' \in Ids
  <2>1. IdSpace \in Nat \ {0}
    BY VectorAssumption
  <2>2. currentId \in Nat
    BY <2>1 DEF InHalfHours, Ids
  <2> QED BY <1>2, <2>1, <2>2 DEF Ids
<1>4. DOMAIN c \subseteq Ids
  BY <1>1, <1>2 DEF InHalfHours
<1>5. ASSUME OfHalfHours(opened)
      PROVE  OffersHalfHours(w) /\ \A id \in DOMAIN c : Fits(c[id])
  <2>1. OffersHalfHours(v) /\ \A id \in DOMAIN b : Fits(b[id])
    BY <1>1, <1>5 DEF InHalfHours
  <2>2. Fits(slot)
    BY <1>2, <2>1, MatchesAreParts
  <2>3. Searchable(v) /\ ToSet(v) \subseteq HalfHours
    BY <2>1, OffersSet DEF OffersHalfHours
  <2>4. Searchable(w) /\ ToSet(w) = { v[i] : i \in DOMAIN v \ m }
    BY <1>2, <2>3, EraseMatchedKeeps
  <2>5. ToSet(w) \subseteq HalfHours
    BY <2>1, <2>4 DEF OffersHalfHours
  <2>6. OffersHalfHours(w)
    BY <2>4, <2>5, OffersSet
  <2> QED BY <1>2, <2>1, <2>2, <2>6
<1> QED BY <1>1, <1>2, <1>3, <1>4, <1>5 DEF InHalfHours

(* cancelBooking pushes the half hours of a booking.                       *)
LEMMA HalfHoursCancelBooking ==
  ASSUME IInv, InHalfHours, NEW id \in DOMAIN bookings, CancelBooking(id)
  PROVE  InHalfHours'
<1>1. PICK v, w, b, c : v = availableSlots /\ w = availableSlots' /\ b = bookings /\ c = bookings'
  OBVIOUS
<1>2. /\ w = PushParts(v, b[id]) /\ c = [i \in DOMAIN b \ {id} |-> b[i]]
      /\ opened' = opened /\ currentId' = currentId
  BY <1>1 DEF CancelBooking
<1>3. ASSUME OfHalfHours(opened)
      PROVE  OffersHalfHours(w) /\ \A i \in DOMAIN c : Fits(c[i])
  <2>1. OffersHalfHours(v) /\ \A i \in DOMAIN b : Fits(b[i])
    BY <1>1, <1>3 DEF InHalfHours
  <2>2. Fits(b[id])
    BY <1>1, <2>1
  <2>3. OffersHalfHours(w)
    BY <1>2, <2>1, <2>2, PushOffers
  <2> QED BY <1>2, <2>1, <2>3
<1>4. DOMAIN c \subseteq Ids /\ currentId \in Ids
  BY <1>1, <1>2 DEF InHalfHours
<1> QED BY <1>1, <1>2, <1>3, <1>4 DEF InHalfHours

(* modifyBooking pushes half hours and moves to others, or erases again.   *)
LEMMA HalfHoursModifyBooking ==
  ASSUME IInv, InHalfHours, NEW id \in DOMAIN bookings, NEW m \in Offsets, ModifyBooking(id, m)
  PROVE  InHalfHours'
<1>1. PICK v, w, b, c, old, new, pushed :
         /\ v = availableSlots /\ w = availableSlots' /\ b = bookings /\ c = bookings'
         /\ old = b[id] /\ new = Shifted(old, m) /\ pushed = PushParts(v, old)
  OBVIOUS
<1>2. /\ opened' = opened /\ currentId' = currentId /\ InOpeningHours(new)
      /\ \/ IsAvailable(pushed, new) /\ w = EraseParts(pushed, new) /\ c = [b EXCEPT ![id] = new]
         \/ w = EraseParts(pushed, old) /\ c = b
  BY <1>1 DEF ModifyBooking
<1>3. old \in Interval
  BY <1>1 DEF IInv, InOrder
<1>4. new \in Interval /\ new \in TimeSlot /\ new.startTime < new.endTime
  BY <1>1, <1>2, <1>3, ShiftedSlot
<1>5. ASSUME OfHalfHours(opened)
      PROVE  OffersHalfHours(w) /\ \A i \in DOMAIN c : Fits(c[i])
  <2>1. OffersHalfHours(v) /\ (\A i \in DOMAIN b : Fits(b[i])) /\ Fits(old)
    BY <1>1, <1>5 DEF InHalfHours
  <2>2. OffersHalfHours(pushed)
    BY <1>1, <2>1, PushOffers
  <2>3. CASE IsAvailable(pushed, new) /\ w = EraseParts(pushed, new) /\ c = [b EXCEPT ![id] = new]
    <3>1. Fits(new)
      BY <1>4, <2>2, <2>3, AvailableFits
    <3>2. OffersHalfHours(w)
      BY <1>4, <2>2, <2>3, EraseOffers
    <3> QED BY <2>1, <2>3, <3>1, <3>2
  <2>4. CASE w = EraseParts(pushed, old) /\ c = b
    <3>1. OffersHalfHours(w)
      BY <1>3, <2>2, <2>4, EraseOffers
    <3> QED BY <2>1, <2>4, <3>1
  <2> QED BY <1>2, <2>3, <2>4
<1>6. DOMAIN c \subseteq Ids /\ currentId \in Ids
  BY <1>1, <1>2 DEF InHalfHours
<1> QED BY <1>1, <1>2, <1>5, <1>6 DEF InHalfHours

(* extendBooking adds half hours to a booking and erases them.             *)
LEMMA HalfHoursExtendBooking ==
  ASSUME IInv, InHalfHours, NEW id \in DOMAIN bookings, NEW m \in Offsets, ExtendBooking(id, m)
  PROVE  InHalfHours'
<1>1. PICK v, w, b, c, old, added :
         /\ v = availableSlots /\ w = availableSlots' /\ b = bookings /\ c = bookings'
         /\ old = b[id] /\ added = Extension(old, m)
  OBVIOUS
<1>2. /\ opened' = opened /\ currentId' = currentId
      /\ added.endTime <= 1800 /\ added.endTime > old.endTime /\ IsAvailable(v, added)
      /\ w = EraseParts(v, added) /\ c = [b EXCEPT ![id] = [old EXCEPT !.endTime = added.endTime]]
  BY <1>1 DEF ExtendBooking, Extensible
<1>3. old \in Interval
  BY <1>1 DEF IInv, InOrder
<1>4. added \in Interval
  BY <1>1, <1>2, <1>3, ExtensionSlot
<1>5. ASSUME OfHalfHours(opened)
      PROVE  OffersHalfHours(w) /\ \A i \in DOMAIN c : Fits(c[i])
  <2>1. OffersHalfHours(v) /\ (\A i \in DOMAIN b : Fits(b[i])) /\ Fits(old)
    BY <1>1, <1>5 DEF InHalfHours
  <2>2. Fits([old EXCEPT !.endTime = added.endTime])
    BY <1>1, <1>2, <2>1, ExtendedFits
  <2>3. OffersHalfHours(w)
    BY <1>2, <1>4, <2>1, EraseOffers
  <2> QED BY <1>2, <2>1, <2>2, <2>3
<1>6. DOMAIN c \subseteq Ids /\ currentId \in Ids
  BY <1>1, <1>2 DEF InHalfHours
<1> QED BY <1>1, <1>2, <1>5, <1>6 DEF InHalfHours

(* No step disturbs it.                                                    *)
LEMMA HalfHoursNext ==
  ASSUME IInv, InHalfHours, [Next]_vars
  PROVE  InHalfHours'
<1>1. ASSUME UNCHANGED vars
      PROVE  InHalfHours'
  BY <1>1 DEF vars, InHalfHours
<1>2. ASSUME NEW slot \in Requests, BookSlot(slot) \/ BookRefused(slot)
      PROVE  InHalfHours'
  BY <1>1, <1>2, HalfHoursBookSlot DEF BookRefused
<1>3. ASSUME NEW id \in DOMAIN bookings, CancelBooking(id)
      PROVE  InHalfHours'
  BY <1>3, HalfHoursCancelBooking
<1>4. ASSUME NEW id \in DOMAIN bookings, NEW m \in Offsets, ModifyBooking(id, m) \/ ExtendBooking(id, m)
      PROVE  InHalfHours'
  BY <1>4, HalfHoursModifyBooking, HalfHoursExtendBooking
<1>5. ASSUME NEW id \in Ids, CancelRejected(id)
      PROVE  InHalfHours'
  BY <1>1, <1>5 DEF CancelRejected
<1>6. ASSUME NEW id \in Ids, NEW m \in Offsets, ModifyRejected(id, m) \/ ExtendRejected(id, m)
      PROVE  InHalfHours'
  BY <1>1, <1>6 DEF ModifyRejected, ExtendRejected
<1> QED BY <1>1, <1>2, <1>3, <1>4, <1>5, <1>6 DEF Next

-----------------------------------------------------------------------------
(* Each step is the one that Facility makes on the counts.                 *)

(* Counts is the copies in the vector.                                     *)
LEMMA CountsAreCopies ==
  /\ Counts = Copies(availableSlots)
  /\ Counts' = Copies(availableSlots')
BY DEF Counts, Copies, Places

(* The changes of the vector, in Facility's words.                         *)
LEMMA PushCounts ==
  ASSUME NEW o, NEW v, Proper(v), NEW slot, Fits(slot)
  PROVE  Copies(PushParts(v, slot)) = F(o)!PushBack(Copies(v), F(o)!Parts(slot))
BY PushCopies, SameWords DEF F!PushBack

(* erase(remove(...)).                                                     *)
LEMMA EraseCounts ==
  ASSUME NEW o, NEW v, Proper(v), NEW slot, Fits(slot)
  PROVE  Copies(EraseParts(v, slot)) = F(o)!EraseAll(Copies(v), F(o)!Parts(slot))
BY EraseCopies, SameWords DEF F!EraseAll

(* The erasure by index.                                                   *)
LEMMA EraseMatchedCounts ==
  ASSUME NEW o, NEW v, OffersHalfHours(v), NEW slot \in Interval, slot \in TimeSlot, Found(v, slot)
  PROVE  Copies(EraseMatched(v, Search(v, slot).matched)) =
           F(o)!EraseMatched(Copies(v), F(o)!Parts(slot))
BY EraseMatchedCopies, SameWords DEF F!EraseMatched

(* Facility's variables, which are functions of one facility here.         *)
LEMMA OneRoom ==
  ASSUME NEW a, NEW b
  PROVE  /\ [f \in {room} |-> a][room] = a
         /\ [[f \in {room} |-> a] EXCEPT ![room] = b] = [f \in {room} |-> b]
OBVIOUS

(* Every half hour the facility was opened with is there once.             *)
LEMMA CountsInit ==
  ASSUME Init, NEW o \in Openings, opened = o, OfHalfHours(o)
  PROVE  F(o)!Init
<1>1. PICK v : v = availableSlots /\ v = Opened(o)[Len(o)]
  BY DEF Init
<1>2. Proper(v) /\ Apart(v) /\ ToSet(v) = ToSet(o)
  BY <1>1, OpenedVector, SearchableSlots
<1>3. ASSUME NEW h \in HalfHours
      PROVE  Cardinality(Places(v, h)) = IF h \in ToSet(o) THEN 1 ELSE 0
  BY <1>2, ApartCopies
<1>4. Copies(v) = [h \in HalfHours |-> IF h \in ToSet(o) THEN 1 ELSE 0]
  BY <1>3 DEF Copies
<1>5. Counts = [h \in F(o)!HalfHours |-> IF h \in ToSet(o) THEN 1 ELSE 0]
  BY <1>1, <1>4, CountsAreCopies, SameWords
<1>6. bookings = << >> /\ currentId = FirstId
  BY DEF Init
<1> QED BY <1>5, <1>6 DEF F!Init

(* A booking.                                                              *)
LEMMA CountsBookSlot ==
  ASSUME IInv, InHalfHours, NEW o, opened = o, OfHalfHours(o), NEW slot \in Requests, BookSlot(slot)
  PROVE  F(o)!BookSlot(room, slot)
<1>1. PICK v, w, b, c, q, r : /\ v = availableSlots /\ w = availableSlots' /\ b = bookings /\ c = bookings'
                              /\ q = Counts /\ r = Counts'
  OBVIOUS
<1>2. /\ slot \in Interval /\ slot \in TimeSlot /\ Found(v, slot)
      /\ w = EraseMatched(v, Search(v, slot).matched)
      /\ c = [i \in DOMAIN b \cup {currentId} |-> IF i \in DOMAIN b THEN b[i] ELSE slot]
      /\ currentId' = (currentId + 1) % IdSpace /\ currentId < MaxId
  BY <1>1, RequestTimes DEF BookSlot
<1>3. q = Copies(v) /\ r = Copies(w)
  BY <1>1, CountsAreCopies
<1>4. OffersHalfHours(v)
  BY <1>1 DEF InHalfHours
<1>5. F(o)!Matches(q, slot)
  BY <1>2, <1>3, <1>4, FoundIfMatches
<1>6. r = F(o)!EraseMatched(q, F(o)!Parts(slot))
  BY <1>2, <1>3, <1>4, EraseMatchedCounts
<1>7. c = F(o)!Emplace(b, currentId, slot)
  BY <1>2 DEF F!Emplace
<1> QED BY <1>1, <1>2, <1>5, <1>6, <1>7, OneRoom DEF F!BookSlot

(* What leaves the vector alone leaves the counts alone.                   *)
LEMMA CountsUnchanged ==
  ASSUME NEW o, UNCHANGED vars
  PROVE  UNCHANGED F(o)!vars
BY DEF vars, F!vars, Counts

(* A refused booking.                                                      *)
LEMMA CountsBookRefused ==
  ASSUME IInv, InHalfHours, NEW o, opened = o, OfHalfHours(o), NEW slot \in Requests, BookRefused(slot)
  PROVE  F(o)!BookRefused(room, slot)
<1>1. PICK v, q : v = availableSlots /\ q = Counts /\ q = Copies(v)
  BY CountsAreCopies
<1>2. OffersHalfHours(v)
  BY <1>1 DEF InHalfHours
<1>3. ~Found(v, slot) /\ UNCHANGED vars /\ slot \in Interval /\ slot \in TimeSlot
  BY <1>1, RequestTimes DEF BookRefused
<1>4. ~F(o)!Matches(q, slot)
  BY <1>1, <1>2, <1>3, FoundIfMatches
<1>5. UNCHANGED F(o)!vars
  BY <1>3, CountsUnchanged
<1> QED BY <1>1, <1>4, <1>5, OneRoom DEF F!BookRefused

(* A cancelled booking.                                                    *)
LEMMA CountsCancelBooking ==
  ASSUME IInv, InHalfHours, NEW o, opened = o, OfHalfHours(o),
         NEW id \in DOMAIN bookings, CancelBooking(id)
  PROVE  F(o)!CancelBooking(room, id)
<1>1. PICK v, w, b, c, q, r : /\ v = availableSlots /\ w = availableSlots' /\ b = bookings /\ c = bookings'
                              /\ q = Counts /\ r = Counts'
  OBVIOUS
<1>2. /\ w = PushParts(v, b[id]) /\ c = [i \in DOMAIN b \ {id} |-> b[i]] /\ UNCHANGED currentId
  BY <1>1 DEF CancelBooking
<1>3. q = Copies(v) /\ r = Copies(w)
  BY <1>1, CountsAreCopies
<1>4. OffersHalfHours(v) /\ Proper(v) /\ Fits(b[id]) /\ id \in DOMAIN b
  BY <1>1, SearchableSlots DEF InHalfHours, OffersHalfHours
<1>5. r = F(o)!PushBack(q, F(o)!Parts(b[id]))
  BY <1>2, <1>3, <1>4, PushCounts
<1>6. c = F(o)!Erase(b, id)
  BY <1>2 DEF F!Erase
<1> QED BY <1>1, <1>2, <1>4, <1>5, <1>6, OneRoom DEF F!CancelBooking

(* A move, or its rollback.                                                *)
LEMMA CountsModifyBooking ==
  ASSUME IInv, InHalfHours, NEW o, opened = o, OfHalfHours(o),
         NEW id \in DOMAIN bookings, NEW m \in Offsets, ModifyBooking(id, m)
  PROVE  F(o)!ModifyBooking(room, id, m) \/ F(o)!ModifyRolledBack(room, id, m)
<1>1. PICK v, w, b, c, q, r, old, new, pushed :
         /\ v = availableSlots /\ w = availableSlots' /\ b = bookings /\ c = bookings'
         /\ q = Counts /\ r = Counts'
         /\ old = b[id] /\ new = Shifted(old, m) /\ pushed = PushParts(v, old)
  OBVIOUS
<1>2. /\ UNCHANGED currentId /\ InOpeningHours(new)
      /\ \/ IsAvailable(pushed, new) /\ w = EraseParts(pushed, new) /\ c = [b EXCEPT ![id] = new]
         \/ ~IsAvailable(pushed, new) /\ w = EraseParts(pushed, old) /\ c = b
  BY <1>1 DEF ModifyBooking
<1>3. q = Copies(v) /\ r = Copies(w)
  BY <1>1, CountsAreCopies
<1>4. OffersHalfHours(v) /\ Proper(v) /\ Fits(old) /\ old \in Interval /\ id \in DOMAIN b
  BY <1>1, SearchableSlots DEF InHalfHours, OffersHalfHours, Fits
<1>5. new \in Interval /\ new \in TimeSlot /\ new.startTime < new.endTime
  BY <1>1, <1>2, <1>4, ShiftedSlot
<1>6. OffersHalfHours(pushed) /\ Proper(pushed)
  <2>1. OffersHalfHours(pushed)
    BY <1>1, <1>4, PushOffers
  <2> QED BY <2>1, SearchableSlots DEF OffersHalfHours
<1>7. PICK t : t = F(o)!PushBack(q, F(o)!Parts(old)) /\ t = Copies(pushed)
  BY <1>1, <1>3, <1>4, PushCounts
<1>8. IsAvailable(pushed, new) <=> F(o)!IsAvailable(t, new)
  BY <1>5, <1>6, <1>7, AvailableIfCovered
<1>9. new = F(o)!Shifted(old, m) /\ F(o)!InOpeningHours(new)
  BY <1>1, <1>2, SameWords
<1>10. t = F(o)!Returned(room, id)
  BY <1>1, <1>7, OneRoom DEF F!Returned
<1>11. CASE IsAvailable(pushed, new) /\ w = EraseParts(pushed, new) /\ c = [b EXCEPT ![id] = new]
  <2>1. Fits(new)
    BY <1>5, <1>6, <1>11, AvailableFits
  <2>2. r = F(o)!EraseAll(t, F(o)!Parts(new))
    BY <1>3, <1>6, <1>7, <1>11, <2>1, EraseCounts
  <2>3. F(o)!ModifyBooking(room, id, m)
    BY <1>1, <1>2, <1>4, <1>8, <1>9, <1>10, <1>11, <2>2, OneRoom DEF F!ModifyBooking
  <2> QED BY <2>3
<1>12. CASE ~IsAvailable(pushed, new) /\ w = EraseParts(pushed, old) /\ c = b
  <2>1. r = F(o)!EraseAll(t, F(o)!Parts(old))
    BY <1>3, <1>4, <1>6, <1>7, <1>12, EraseCounts
  <2>2. F(o)!ModifyRolledBack(room, id, m)
    BY <1>1, <1>2, <1>4, <1>8, <1>9, <1>10, <1>12, <2>1, OneRoom DEF F!ModifyRolledBack
  <2> QED BY <2>2
<1> QED BY <1>2, <1>11, <1>12

(* Whether a booking can be extended is the same question to both.         *)
LEMMA SameExtensible ==
  ASSUME NEW o, OffersHalfHours(availableSlots), NEW slot \in Interval, NEW m \in Offsets
  PROVE  Extensible(slot, m) <=> F(o)!Extensible(room, slot, m)
<1>1. PICK v, q, added : v = availableSlots /\ q = Counts /\ q = Copies(v) /\ added = Extension(slot, m)
  BY CountsAreCopies
<1>2. Extensible(slot, m) <=> /\ added.endTime <= 1800 /\ added.endTime > slot.endTime
                              /\ IsAvailable(v, added)
  BY <1>1 DEF Extensible
<1>3. F(o)!Extensible(room, slot, m) <=> /\ added.endTime <= 1800 /\ added.endTime > slot.endTime
                                         /\ F(o)!IsAvailable(q, added)
  BY <1>1, SameWords, OneRoom DEF F!Extensible
<1>4. ASSUME added.endTime <= 1800, added.endTime > slot.endTime
      PROVE  IsAvailable(v, added) <=> F(o)!IsAvailable(q, added)
  <2>1. added \in Interval /\ added \in TimeSlot
    BY <1>1, <1>4, ExtensionSlot
  <2> QED BY <1>1, <2>1, AvailableIfCovered
<1> QED BY <1>2, <1>3, <1>4

(* An extension.                                                           *)
LEMMA CountsExtendBooking ==
  ASSUME IInv, InHalfHours, NEW o, opened = o, OfHalfHours(o),
         NEW id \in DOMAIN bookings, NEW m \in Offsets, ExtendBooking(id, m)
  PROVE  F(o)!ExtendBooking(room, id, m)
<1>1. PICK v, w, b, c, q, r, old, added :
         /\ v = availableSlots /\ w = availableSlots' /\ b = bookings /\ c = bookings'
         /\ q = Counts /\ r = Counts'
         /\ old = b[id] /\ added = Extension(old, m)
  OBVIOUS
<1>2. /\ UNCHANGED currentId /\ Extensible(old, m)
      /\ added.endTime <= 1800 /\ added.endTime > old.endTime /\ IsAvailable(v, added)
      /\ w = EraseParts(v, added) /\ c = [b EXCEPT ![id].endTime = added.endTime]
  BY <1>1 DEF ExtendBooking, Extensible
<1>3. q = Copies(v) /\ r = Copies(w)
  BY <1>1, CountsAreCopies
<1>4. OffersHalfHours(v) /\ Proper(v) /\ Fits(old) /\ old \in Interval /\ id \in DOMAIN b
  BY <1>1, SearchableSlots DEF InHalfHours, OffersHalfHours, Fits
<1>5. Fits(added)
  BY <1>1, <1>2, <1>4, ExtendedFits
<1>6. r = F(o)!EraseAll(q, F(o)!Parts(added))
  BY <1>2, <1>3, <1>4, <1>5, EraseCounts
<1>7. F(o)!Extensible(room, old, m)
  BY <1>1, <1>2, <1>4, SameExtensible
<1>8. added = F(o)!Extension(old, m)
  BY <1>1, SameWords
<1> QED BY <1>1, <1>2, <1>4, <1>6, <1>7, <1>8, OneRoom DEF F!ExtendBooking

(* What is rejected.                                                       *)
LEMMA CountsRejected ==
  ASSUME IInv, InHalfHours, NEW o, opened = o, OfHalfHours(o), NEW id \in Ids
  PROVE  /\ CancelRejected(id) => F(o)!CancelRejected(room, id)
         /\ \A m \in Offsets : ModifyRejected(id, m) => F(o)!ModifyRejected(room, id, m)
         /\ \A m \in Offsets : ExtendRejected(id, m) => F(o)!ExtendRejected(room, id, m)
<1>1. UNCHANGED vars => UNCHANGED F(o)!vars
  BY CountsUnchanged
<1>2. OffersHalfHours(availableSlots) /\ \A i \in DOMAIN bookings : bookings[i] \in Interval
  BY DEF InHalfHours, IInv, InOrder
<1>3. CancelRejected(id) => F(o)!CancelRejected(room, id)
  BY <1>1, OneRoom DEF CancelRejected, F!CancelRejected
<1>4. ASSUME NEW m \in Offsets, ModifyRejected(id, m)
      PROVE  F(o)!ModifyRejected(room, id, m)
  BY <1>1, <1>4, SameWords, OneRoom DEF ModifyRejected, F!ModifyRejected
<1>5. ASSUME NEW m \in Offsets, ExtendRejected(id, m)
      PROVE  F(o)!ExtendRejected(room, id, m)
  BY <1>1, <1>2, <1>5, SameExtensible, OneRoom DEF ExtendRejected, F!ExtendRejected
<1> QED BY <1>3, <1>4, <1>5

(* Any step.                                                               *)
LEMMA CountsNext ==
  ASSUME IInv, InHalfHours, NEW o, opened = o, OfHalfHours(o), Next
  PROVE  F(o)!Next
<1>1. Ids = F(o)!Ids /\ Requests = F(o)!Requests /\ DOMAIN bookings \subseteq Ids
  BY SameWords DEF InHalfHours
<1>2. room \in {room}
  OBVIOUS
<1>3. ASSUME NEW slot \in Requests, BookSlot(slot) \/ BookRefused(slot)
      PROVE  F(o)!Next
  <2>1. F(o)!BookSlot(room, slot) \/ F(o)!BookRefused(room, slot)
    BY <1>3, CountsBookSlot, CountsBookRefused
  <2> QED BY <1>1, <1>2, <2>1 DEF F!Next
<1>4. ASSUME NEW id \in DOMAIN bookings, CancelBooking(id)
      PROVE  F(o)!Next
  <2>1. F(o)!CancelBooking(room, id) /\ id \in F(o)!Ids
    BY <1>1, <1>4, CountsCancelBooking
  <2> QED BY <1>2, <2>1 DEF F!Next
<1>5. ASSUME NEW id \in DOMAIN bookings, NEW m \in Offsets, ModifyBooking(id, m) \/ ExtendBooking(id, m)
      PROVE  F(o)!Next
  <2>1. /\ id \in F(o)!Ids
        /\ \/ F(o)!ModifyBooking(room, id, m) \/ F(o)!ModifyRolledBack(room, id, m)
           \/ F(o)!ExtendBooking(room, id, m)
    BY <1>1, <1>5, CountsModifyBooking, CountsExtendBooking
  <2> QED BY <1>2, <2>1 DEF F!Next
<1>6. ASSUME NEW id \in Ids, CancelRejected(id)
      PROVE  F(o)!Next
  <2>1. F(o)!CancelRejected(room, id) /\ id \in F(o)!Ids
    BY <1>1, <1>6, CountsRejected
  <2> QED BY <1>2, <2>1 DEF F!Next
<1>7. ASSUME NEW id \in Ids, NEW m \in Offsets, ModifyRejected(id, m) \/ ExtendRejected(id, m)
      PROVE  F(o)!Next
  <2>1. /\ F(o)!ModifyRejected(room, id, m) \/ F(o)!ExtendRejected(room, id, m)
        /\ id \in F(o)!Ids
    BY <1>1, <1>7, CountsRejected
  <2> QED BY <1>2, <2>1 DEF F!Next
<1> QED BY <1>3, <1>4, <1>5, <1>6, <1>7 DEF Next

(* Sorting, searching and erasing the vector amount to counting its half   *)
(* hours: a facility opened with half hours does what Facility says.       *)
THEOREM CountsAreEnough == Spec => ImplementsFacility
<1> DEFINE Start == \A o \in Openings : opened = o /\ OfHalfHours(o) => F(o)!Init
           Step == \A o \in Openings : opened = o /\ OfHalfHours(o) => F(o)!Next
<1>1. Init => Start
  BY CountsInit
<1>2. IInv /\ InHalfHours /\ [Next]_vars => [Step]_vars
  BY CountsNext
<1>3. Spec => []InHalfHours
  <2>1. Spec => []IInv
    BY Invariant
  <2> QED BY <2>1, HalfHoursInit, HalfHoursNext, PTL DEF Spec
<1>4. Spec => Start /\ [][Step]_vars
  <2>1. Spec => []IInv
    BY Invariant
  <2> HIDE DEF Start, Step
  <2> QED BY <1>1, <1>2, <1>3, <2>1, PTL DEF Spec
<1> QED BY <1>4 DEF ImplementsFacility
=============================================================================
