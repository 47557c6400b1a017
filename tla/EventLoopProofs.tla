--------------------------- MODULE EventLoopProofs ---------------------------
(***************************************************************************)
(* Proofs about EventLoop and Codec, for any clients, requests and names,  *)
(* any Base and BufferSize that CodecAssumption allows, and any answers    *)
(* that LoopAssumption does: a number read back is the number cut to its   *)
(* width, the fields of a datagram are where the other side looks for      *)
(* them, and so the server acts on what was asked and a client shows what  *)
(* was answered.                                                           *)
(***************************************************************************)
EXTENDS EventLoop, TLAPS, SequenceTheorems

-----------------------------------------------------------------------------
(* Numbers: what is packed and read back.                                  *)

(* Quotient and remainder of a number that may be negative.                *)
LEMMA Division ==
  ASSUME NEW v \in Int, NEW m \in Nat, m > 0
  PROVE  /\ v \div m \in Int /\ v % m \in 0..(m - 1)
         /\ v = m * (v \div m) + (v % m)
OBVIOUS

(* Only one quotient and remainder fit.                                    *)
LEMMA DivisionUnique ==
  ASSUME NEW v \in Int, NEW m \in Nat, m > 0, NEW q \in Int, NEW r \in 0..(m - 1),
         v = m * q + r
  PROVE  v \div m = q /\ v % m = r
OBVIOUS

(* Power satisfies the equation that defines it.                           *)
LEMMA PowerUnfold == Power = [size \in 0..4 |-> IF size = 0 THEN 1 ELSE Base * Power[size - 1]]
<1> DEFINE G(f) == [size \in 0..4 |-> IF size = 0 THEN 1 ELSE Base * f[size - 1]]
<1> DEFINE w == [size \in 0..4 |-> IF size = 0 THEN 1 ELSE IF size = 1 THEN Base * 1
                   ELSE IF size = 2 THEN Base * (Base * 1)
                   ELSE IF size = 3 THEN Base * (Base * (Base * 1))
                   ELSE Base * (Base * (Base * (Base * 1)))]
<1>1. w = G(w)
  <2>1. ASSUME NEW size \in 0..4 PROVE w[size] = G(w)[size]
    <3>1. size = 0 \/ size = 1 \/ size = 2 \/ size = 3 \/ size = 4 OBVIOUS
    <3>2. CASE size = 0 BY <3>2
    <3>3. CASE size = 1 BY <3>3
    <3>4. CASE size = 2 BY <3>4
    <3>5. CASE size = 3 BY <3>5
    <3>6. CASE size = 4 BY <3>6
    <3> QED BY <3>1, <3>2, <3>3, <3>4, <3>5, <3>6
  <2> QED BY <2>1
<1>2. Power = CHOOSE f : f = G(f)
  BY DEF Power
<1>3. \E f : f = G(f)
  BY <1>1
<1> HIDE DEF G
<1>4. Power = G(Power)
  BY <1>2, <1>3, Zenon
<1> QED BY <1>4 DEF G

(* The powers that the widths of the fields need.                          *)
LEMMA Powers ==
  /\ Power[0] = 1 /\ Power[1] = Base /\ Power[2] = Base * Base
  /\ Power[3] = Base * (Base * Base) /\ Power[4] = Base * (Base * (Base * Base))
<1>1. Power[0] = 1 BY PowerUnfold
<1>2. Power[1] = Base * 1 BY PowerUnfold, <1>1
<1>3. Power[2] = Base * Power[1] BY PowerUnfold
<1>4. Power[3] = Base * Power[2] BY PowerUnfold
<1>5. Power[4] = Base * Power[3] BY PowerUnfold
<1>6. Base * 1 = Base BY CodecAssumption
<1> QED BY <1>1, <1>2, <1>3, <1>4, <1>5, <1>6

(* Division by a product is two divisions, and the remainders add up: what *)
(* Put takes off the end of a number digit by digit.                       *)
LEMMA DivisionTwice ==
  ASSUME NEW v \in Int, NEW m \in Nat, NEW n \in Nat, m > 0, n > 0
  PROVE  /\ v \div (m * n) = (v \div m) \div n
         /\ v % (m * n) = m * ((v \div m) % n) + (v % m)
<1> DEFINE q == v \div m
           s == q \div n
           t == q % n
           r == v % m
<1>1. q \in Int /\ r \in 0..(m - 1) /\ v = m * q + r
  BY Division
<1>2. s \in Int /\ t \in 0..(n - 1) /\ q = n * s + t
  BY <1>1, Division
<1> HIDE DEF q, s, t, r
<1>3. m * n \in Nat /\ m * n > 0
  OBVIOUS
<1>4. v = (m * n) * s + (m * t + r)
  <2>1. m * (n * s + t) = (m * n) * s + m * t
    BY <1>2
  <2>2. m * t \in Int /\ (m * n) * s \in Int
    BY <1>2
  <2> QED BY <1>1, <1>2, <2>1, <2>2
<1>5. m * t + r \in 0..(m * n - 1)
  <2>1. m * t >= 0 /\ m * t \in Int
    BY <1>2
  <2>2. m * t <= m * (n - 1)
    BY <1>2
  <2>3. m * (n - 1) = m * n - m
    OBVIOUS
  <2> QED BY <1>1, <2>1, <2>2, <2>3
<1>6. v \div (m * n) = s /\ v % (m * n) = m * t + r
  <2> DEFINE k == m * n
             x == m * t + r
  <2>1. k \in Nat /\ k > 0 /\ x \in 0..(k - 1) /\ v = k * s + x /\ s \in Int
    BY <1>2, <1>3, <1>4, <1>5
  <2> HIDE DEF k, x
  <2>2. v \div k = s /\ v % k = x
    BY <2>1, DivisionUnique
  <2> QED BY <2>2 DEF k, x
<1> QED BY <1>6 DEF q, s, t, r

(* Unsigned reads one, two or four bytes as a polynomial in Base.          *)
LEMMA UnsignedUnfold ==
  ASSUME NEW n \in {1, 2, 4}, NEW bytes \in [1..n -> Int]
  PROVE  /\ n = 1 => Unsigned(bytes) = bytes[1]
         /\ n = 2 => Unsigned(bytes) = bytes[1] * Base + bytes[2]
         /\ n = 4 => Unsigned(bytes) =
                       ((bytes[1] * Base + bytes[2]) * Base + bytes[3]) * Base + bytes[4]
<1> DEFINE G(f) == [i \in 0..Len(bytes) |-> IF i = 0 THEN 0 ELSE f[i - 1] * Base + bytes[i]]
           value == CHOOSE f : f = G(f)
           w == [i \in 0..Len(bytes) |->
                   IF i = 0 THEN 0
                   ELSE IF i = 1 THEN 0 * Base + bytes[1]
                   ELSE IF i = 2 THEN (0 * Base + bytes[1]) * Base + bytes[2]
                   ELSE IF i = 3 THEN ((0 * Base + bytes[1]) * Base + bytes[2]) * Base + bytes[3]
                   ELSE (((0 * Base + bytes[1]) * Base + bytes[2]) * Base + bytes[3]) * Base
                          + bytes[4]]
<1>1. Len(bytes) = n
  OBVIOUS
<1>2. w = G(w)
  <2>1. ASSUME NEW i \in 0..Len(bytes) PROVE w[i] = G(w)[i]
    <3>1. i = 0 \/ i = 1 \/ i = 2 \/ i = 3 \/ i = 4
      BY <1>1
    <3>2. CASE i = 0 BY <3>2
    <3>3. CASE i = 1 BY <3>3
    <3>4. CASE i = 2 BY <3>4
    <3>5. CASE i = 3 BY <3>5
    <3>6. CASE i = 4 BY <3>6
    <3> QED BY <3>1, <3>2, <3>3, <3>4, <3>5, <3>6
  <2> QED BY <2>1
<1>3. Unsigned(bytes) = value[Len(bytes)]
  BY DEF Unsigned
<1>4. \E f : f = G(f)
  BY <1>2
<1> HIDE DEF G, w
<1>5. value = G(value)
  BY <1>4, Zenon
<1> HIDE DEF value
<1>6. value[0] = 0 /\ \A i \in 1..n : value[i] = value[i - 1] * Base + bytes[i]
  <2>1. value = [i \in 0..n |-> IF i = 0 THEN 0 ELSE value[i - 1] * Base + bytes[i]]
    BY <1>1, <1>5 DEF G
  <2>2. \A i \in 0..n : value[i] = IF i = 0 THEN 0 ELSE value[i - 1] * Base + bytes[i]
    BY <2>1
  <2> QED BY <2>2
<1>7. value[1] = bytes[1]
  <2>1. value[1] = value[0] * Base + bytes[1]
    BY <1>6
  <2>2. bytes[1] \in Int /\ Base \in Int
    BY CodecAssumption
  <2> QED BY <1>6, <2>1, <2>2
<1>8. n > 1 => value[2] = bytes[1] * Base + bytes[2]
  BY <1>6, <1>7
<1>9. n = 4 => value[3] = (bytes[1] * Base + bytes[2]) * Base + bytes[3]
  BY <1>6, <1>8
<1>10. n = 4 => value[4] =
         ((bytes[1] * Base + bytes[2]) * Base + bytes[3]) * Base + bytes[4]
  BY <1>6, <1>9
<1> QED BY <1>1, <1>3, <1>7, <1>8, <1>10

(* How large the powers are.                                               *)
LEMMA Bases ==
  /\ Base \in Nat /\ Base >= 8
  /\ Power[2] \in Nat /\ Power[2] = Base * Base /\ Power[2] >= 8 * Base
  /\ Power[3] \in Nat /\ Power[3] = Base * Power[2]
  /\ Power[4] \in Nat /\ Power[4] = Base * Power[3] /\ Power[4] > Power[2]
<1>1. Base \in Nat /\ Base >= 8
  BY CodecAssumption
<1>2. Base * Base \in Nat /\ Base * Base >= 8 * Base
  BY <1>1
<1>3. Base * (Base * Base) \in Nat /\ Base * (Base * Base) >= Base * Base
  BY <1>1, <1>2
<1>4. Base * (Base * (Base * Base)) \in Nat /\ Base * (Base * (Base * Base)) > Base * Base
  <2> DEFINE x == Base * Base
             y == Base * x
  <2>1. x \in Nat /\ x > 0 /\ y \in Nat /\ y >= x
    BY <1>1, <1>2, <1>3
  <2> HIDE DEF y
  <2>2. Base * y \in Nat /\ Base * y >= 8 * y
    BY <1>1, <2>1
  <2> HIDE DEF x
  <2>3. Base * y > x
    BY <2>1, <2>2
  <2> QED BY <2>2, <2>3 DEF x, y
<1> QED BY <1>1, <1>2, <1>3, <1>4, Powers

(* The bytes of a number, written out.                                     *)
LEMMA Digits ==
  ASSUME NEW v \in Int
  PROVE  /\ Put(1, v) = <<v % Base>>
         /\ Put(2, v) = <<(v \div Base) % Base, v % Base>>
         /\ Put(4, v) = <<(((v \div Base) \div Base) \div Base) % Base,
                          ((v \div Base) \div Base) % Base, (v \div Base) % Base, v % Base>>
<1> DEFINE q1 == v \div Base
           q2 == q1 \div Base
           q3 == q2 \div Base
<1>1. Base \in Nat /\ Base > 0 /\ Base * Base \in Nat /\ Base * Base > 0
  BY Bases
<1>2. q1 \in Int /\ q2 \in Int /\ q3 \in Int
  <2>1. q1 \in Int BY <1>1, Division
  <2>2. q2 \in Int BY <1>1, <2>1, Division
  <2>3. q3 \in Int BY <1>1, <2>2, Division
  <2> QED BY <2>1, <2>2, <2>3
<1>3. v \div Power[0] = v
  BY Powers
<1>4. v \div Power[1] = q1
  BY Powers
<1>5. v \div Power[2] = q2
  BY <1>1, DivisionTwice, Powers
<1>6. v \div Power[3] = q3
  <2>1. v \div (Base * (Base * Base)) = q1 \div (Base * Base)
    BY <1>1, DivisionTwice
  <2>2. q1 \div (Base * Base) = q3
    BY <1>1, <1>2, DivisionTwice
  <2> QED BY <2>1, <2>2, Powers
<1> HIDE DEF q1, q2, q3
<1>7. Put(1, v) = <<v % Base>>
  <2>1. Put(1, v) = [i \in 1..1 |-> (v \div Power[1 - i]) % Base]
    BY DEF Put
  <2> QED BY <1>3, <2>1
<1>8. Put(2, v) = <<q1 % Base, v % Base>>
  <2>1. Put(2, v) = [i \in 1..2 |-> (v \div Power[2 - i]) % Base]
    BY DEF Put
  <2> QED BY <1>3, <1>4, <2>1
<1>9. Put(4, v) = <<q3 % Base, q2 % Base, q1 % Base, v % Base>>
  <2>1. Put(4, v) = [i \in 1..4 |-> (v \div Power[4 - i]) % Base]
    BY DEF Put
  <2>2. Put(4, v)[1] = q3 % Base /\ Put(4, v)[2] = q2 % Base
        /\ Put(4, v)[3] = q1 % Base /\ Put(4, v)[4] = v % Base
    BY <1>3, <1>4, <1>5, <1>6, <2>1
  <2> QED BY <2>1, <2>2
<1> QED BY <1>7, <1>8, <1>9 DEF q1, q2, q3

(* Put gives as many bytes as it is asked for.                             *)
LEMMA PutInBytes ==
  ASSUME NEW size \in {1, 2, 4}, NEW v \in Int
  PROVE  Put(size, v) \in Seq(Byte) /\ Len(Put(size, v)) = size
<1> DEFINE q1 == v \div Base
           q2 == q1 \div Base
           q3 == q2 \div Base
<1>1. Base \in Nat /\ Base > 0
  BY Bases
<1>2. q1 \in Int /\ v % Base \in Byte
  BY <1>1, Division DEF Byte
<1>3. q2 \in Int /\ q1 % Base \in Byte
  BY <1>1, <1>2, Division DEF Byte
<1>4. q3 \in Int /\ q2 % Base \in Byte
  BY <1>1, <1>3, Division DEF Byte
<1>5. q3 % Base \in Byte
  BY <1>1, <1>4, Division DEF Byte
<1>6. Put(1, v) = <<v % Base>> /\ Put(2, v) = <<q1 % Base, v % Base>>
      /\ Put(4, v) = <<q3 % Base, q2 % Base, q1 % Base, v % Base>>
  BY Digits
<1> HIDE DEF q1, q2, q3
<1>7. ASSUME NEW a \in Byte, NEW b \in Byte, NEW c \in Byte, NEW d \in Byte
      PROVE  /\ <<a>> \in Seq(Byte) /\ Len(<<a>>) = 1
             /\ <<a, b>> \in Seq(Byte) /\ Len(<<a, b>>) = 2
             /\ <<a, b, c, d>> \in Seq(Byte) /\ Len(<<a, b, c, d>>) = 4
  OBVIOUS
<1> DEFINE a == q3 % Base
           b == q2 % Base
           c == q1 % Base
           d == v % Base
<1>8. a \in Byte /\ b \in Byte /\ c \in Byte /\ d \in Byte
  BY <1>2, <1>3, <1>4, <1>5
<1>9. Put(1, v) = <<d>> /\ Put(2, v) = <<c, d>> /\ Put(4, v) = <<a, b, c, d>>
  BY <1>6
<1> HIDE DEF Byte, a, b, c, d
<1>10. /\ <<d>> \in Seq(Byte) /\ Len(<<d>>) = 1
       /\ <<c, d>> \in Seq(Byte) /\ Len(<<c, d>>) = 2
       /\ <<a, b, c, d>> \in Seq(Byte) /\ Len(<<a, b, c, d>>) = 4
  BY <1>7, <1>8
<1> QED BY <1>9, <1>10

(* A number that is packed and read back is the number cut to its width.   *)
LEMMA RoundTrip ==
  ASSUME NEW v \in Int
  PROVE  /\ Unsigned(Put(1, v)) = v % Base
         /\ Unsigned(Put(2, v)) = v % Power[2]
         /\ Unsigned(Put(4, v)) = v % Power[4]
<1> DEFINE q1 == v \div Base
           q2 == q1 \div Base
           q3 == q2 \div Base
           b1 == q3 % Base
           b2 == q2 % Base
           b3 == q1 % Base
           b4 == v % Base
<1>1. Base \in Nat /\ Base > 0 /\ Power[2] \in Nat /\ Power[2] > 0
      /\ Power[3] \in Nat /\ Power[3] > 0
  BY Bases
<1>2. q1 \in Int /\ b4 \in Nat
  BY <1>1, Division
<1>3. q2 \in Int /\ b3 \in Nat
  BY <1>1, <1>2, Division
<1>4. q3 \in Int /\ b2 \in Nat
  BY <1>1, <1>3, Division
<1>5. b1 \in Nat
  BY <1>1, <1>4, Division
<1>6. /\ Put(1, v) = <<b4>> /\ Put(2, v) = <<b3, b4>>
      /\ Put(4, v) = <<b1, b2, b3, b4>>
  BY Digits
<1>7. v % Power[2] = Base * b3 + b4
  BY <1>1, DivisionTwice, Bases
<1>8. v % Power[4] = Base * (q1 % Power[3]) + b4
  BY <1>1, DivisionTwice, Bases
<1>9. q1 % Power[3] = Base * (q2 % Power[2]) + b3
  BY <1>1, <1>2, DivisionTwice, Bases
<1>10. q2 % Power[2] = Base * b1 + b2
  BY <1>1, <1>3, DivisionTwice, Bases
<1> HIDE DEF q1, q2, q3, b1, b2, b3, b4
<1>11. Unsigned(<<b4>>) = b4
  <2>1. <<b4>> \in [1..1 -> Int]
    BY <1>2
  <2> QED BY <2>1, UnsignedUnfold
<1>12. Unsigned(<<b3, b4>>) = b3 * Base + b4
  <2>1. <<b3, b4>> \in [1..2 -> Int]
    BY <1>2, <1>3
  <2> QED BY <2>1, UnsignedUnfold
<1>13. Unsigned(<<b1, b2, b3, b4>>) = ((b1 * Base + b2) * Base + b3) * Base + b4
  <2>1. <<b1, b2, b3, b4>> \in [1..4 -> Int]
    BY <1>2, <1>3, <1>4, <1>5
  <2> QED BY <2>1, UnsignedUnfold
<1>14. ((b1 * Base + b2) * Base + b3) * Base + b4
         = Base * (Base * (Base * b1 + b2) + b3) + b4
  BY <1>1, <1>2, <1>3, <1>4, <1>5
<1>15. b3 * Base + b4 = Base * b3 + b4
  BY <1>1, <1>2, <1>3
<1> QED BY <1>6, <1>7, <1>8, <1>9, <1>10, <1>11, <1>12, <1>13, <1>14, <1>15 DEF b4

(* A byte has an even number of values, so that half a width is whole.     *)
LEMMA Halves ==
  \E h \in Nat : /\ h > 0 /\ Base = 2 * h /\ Base \div 2 = h
                 /\ Power[2] = 2 * (h * Base) /\ Power[2] \div 2 = h * Base
                 /\ Power[4] = 2 * (h * Power[3]) /\ Power[4] \div 2 = h * Power[3]
<1>1. \E h \in Nat : Base = 2 * h /\ h > 0 /\ Base \div 2 = h
  <2> DEFINE h == Base \div 2
  <2>1. Base \in Nat /\ Base % 2 = 0 /\ Base > 6
    BY CodecAssumption
  <2>2. h \in Nat /\ Base = 2 * h /\ h > 0
    BY <2>1
  <2>3. Base \div 2 = h
    OBVIOUS
  <2> HIDE DEF h
  <2> QED BY <2>2, <2>3
<1>2. PICK h \in Nat : Base = 2 * h /\ h > 0 /\ Base \div 2 = h
  BY <1>1
<1>3. ASSUME NEW p \in Nat
      PROVE  Base * p = 2 * (h * p) /\ (Base * p) \div 2 = h * p
  <2>1. Base * p = 2 * (h * p)
    BY <1>2
  <2>2. h * p \in Nat
    OBVIOUS
  <2> DEFINE x == h * p
  <2> HIDE DEF x
  <2>3. (2 * x) \div 2 = x
    BY <2>2 DEF x
  <2> QED BY <2>1, <2>3 DEF x
<1> QED BY <1>2, <1>3, Bases

(* A signed number that its width holds comes back as it is.               *)
LEMMA SignedRoundTrip ==
  /\ \A v \in -(Power[4] \div 2)..(Power[4] \div 2 - 1) : Signed(Put(4, v)) = v
  /\ \A v \in 0..(Power[2] \div 2 - 1) : Signed(Put(2, v)) = v
<1>1. PICK h \in Nat : /\ h > 0 /\ Base = 2 * h /\ Base \div 2 = h
                      /\ Power[2] = 2 * (h * Base) /\ Power[2] \div 2 = h * Base
                      /\ Power[4] = 2 * (h * Power[3]) /\ Power[4] \div 2 = h * Power[3]
  BY Halves
<1>2. ASSUME NEW p \in Nat, p > 0, NEW b \in Nat, NEW r \in 0..(p - 1)
      PROVE  (b < h) <=> (p * b + r < h * p)
  <2>1. CASE b < h
    <3>1. p * b <= p * (h - 1)
      BY <1>2, <2>1
    <3>2. p * (h - 1) = h * p - p
      OBVIOUS
    <3> QED BY <2>1, <3>1, <3>2
  <2>2. CASE b >= h
    <3>1. p * b >= p * h /\ p * h = h * p
      BY <1>2, <2>2
    <3> QED BY <2>2, <3>1
  <2> QED BY <2>1, <2>2
<1>3. Base \in Nat /\ Base > 0 /\ Power[3] \in Nat /\ Power[3] > 0 /\ h * Power[3] \in Nat
      /\ Power[2] \in Nat /\ h * Base \in Nat
  BY Bases
<1>4. ASSUME NEW v \in -(Power[4] \div 2)..(Power[4] \div 2 - 1)
      PROVE  Signed(Put(4, v)) = v
  <2> DEFINE q1 == v \div Base
             q2 == q1 \div Base
             q3 == q2 \div Base
             u == v % Power[4]
             x == h * Power[3]
  <2>1. v \in Int
    BY <1>1, <1>3
  <2>2. q1 \in Int /\ q2 \in Int /\ q3 \in Int /\ v % Base \in 0..(Base - 1)
        /\ q1 % Base \in 0..(Base - 1) /\ q2 % Base \in 0..(Base - 1)
        /\ q3 % Base \in 0..(Base - 1)
    <3>1. q1 \in Int BY <1>3, <2>1, Division
    <3>2. q2 \in Int BY <1>3, <3>1, Division
    <3>3. q3 \in Int BY <1>3, <3>2, Division
    <3> QED BY <1>3, <2>1, <3>1, <3>2, <3>3, Division
  <2>3. Len(Put(4, v)) = 4 /\ Put(4, v)[1] = q3 % Base
    BY <2>1, Digits, PutInBytes
  <2>4. Unsigned(Put(4, v)) = u
    BY <2>1, RoundTrip
  <2>5. u = Power[3] * (q3 % Base) + (v % Power[3]) /\ v % Power[3] \in 0..(Power[3] - 1)
    <3>1. Power[4] = Power[3] * Base
      BY Bases
    <3>2. u = Power[3] * ((v \div Power[3]) % Base) + (v % Power[3])
      BY <1>3, <2>1, <3>1, DivisionTwice
    <3>3. v \div Power[3] = q3
      <4>1. v \div (Base * Power[2]) = q1 \div Power[2]
        BY <1>3, <2>1, Bases, DivisionTwice
      <4>2. q1 \div (Base * Base) = q3
        BY <1>3, <2>2, DivisionTwice
      <4> QED BY <4>1, <4>2, Bases
    <3> QED BY <1>3, <2>1, <3>2, <3>3, Division
  <2> HIDE DEF q1, q2, q3
  <2>6. (q3 % Base < h) <=> (u < x)
    BY <1>2, <1>3, <2>2, <2>5
  <2>7. v \in (-x)..(x - 1) /\ x \in Nat /\ x > 0 /\ Power[4] = 2 * x
    BY <1>1, <1>3
  <2> HIDE DEF x
  <2>8. CASE v >= 0
    <3>1. u = v
      <4>1. v \in 0..(Power[4] - 1) /\ v = Power[4] * 0 + v /\ Power[4] \in Nat
        BY <2>7, <2>8
      <4> QED BY <4>1, <2>7, <2>1, DivisionUnique
    <3> QED BY <1>1, <2>3, <2>4, <2>6, <2>7, <3>1 DEF Signed
  <2>9. CASE v < 0
    <3>1. u = v + Power[4]
      <4>1. v + Power[4] \in 0..(Power[4] - 1) /\ v = Power[4] * (-1) + (v + Power[4])
            /\ Power[4] \in Nat /\ Power[4] > 0
        BY <2>7, <2>9
      <4> QED BY <4>1, <2>1, DivisionUnique
    <3>2. ~(u < x)
      BY <2>7, <3>1
    <3>3. Signed(Put(4, v)) = u - Power[4]
      BY <1>1, <2>3, <2>4, <2>6, <3>2 DEF Signed
    <3> HIDE DEF u
    <3> QED BY <2>7, <3>1, <3>3
  <2> QED BY <2>1, <2>8, <2>9
<1>5. ASSUME NEW v \in 0..(Power[2] \div 2 - 1)
      PROVE  Signed(Put(2, v)) = v
  <2> DEFINE q1 == v \div Base
  <2>1. v \in Int /\ v \in Nat /\ v < h * Base
    BY <1>1, <1>3
  <2>2. q1 \in Int /\ q1 % Base \in 0..(Base - 1) /\ v % Base \in 0..(Base - 1)
    <3>1. q1 \in Int BY <1>3, <2>1, Division
    <3> QED BY <1>3, <2>1, <3>1, Division
  <2>3. Len(Put(2, v)) = 2 /\ Put(2, v)[1] = q1 % Base
    BY <2>1, Digits, PutInBytes
  <2>4. v % Power[2] = v
    <3> DEFINE p == Power[2]
    <3>1. p \in Nat /\ v \in 0..(p - 1) /\ p > 0
      BY <1>1, <1>3, <2>1
    <3> HIDE DEF p
    <3>2. v = p * 0 + v
      BY <2>1, <3>1
    <3>3. v % p = v
      BY <2>1, <3>1, <3>2, DivisionUnique
    <3> QED BY <3>3 DEF p
  <2>5. Unsigned(Put(2, v)) = v
    BY <2>1, <2>4, RoundTrip
  <2>6. v = Base * (q1 % Base) + (v % Base)
    BY <1>3, <2>1, <2>4, DivisionTwice, Bases
  <2> HIDE DEF q1
  <2>7. q1 % Base < h
    BY <1>2, <1>3, <2>1, <2>2, <2>6
  <2> QED BY <1>1, <2>3, <2>5, <2>7 DEF Signed
<1> QED BY <1>4, <1>5

(* PutInBytes, for each width.                                             *)
LEMMA PutParts ==
  ASSUME NEW v \in Int
  PROVE  /\ Put(1, v) \in Seq(Byte) /\ Len(Put(1, v)) = 1
         /\ Put(2, v) \in Seq(Byte) /\ Len(Put(2, v)) = 2
         /\ Put(4, v) \in Seq(Byte) /\ Len(Put(4, v)) = 4
BY PutInBytes

-----------------------------------------------------------------------------
(* Layout: what is joined, and where its parts are read.                   *)

(* So many bytes, and two of these end to end.                             *)
Sized(bytes, size) == bytes \in Seq(Byte) /\ Len(bytes) = size /\ size \in Nat

(* These bytes are those two, end to end.                                  *)
Joined(bytes, first, rest) == bytes = first \o rest

(* What is joined has the size and the bytes of both parts.                *)
LEMMA JoinedSize ==
  ASSUME NEW a, NEW A, Sized(a, A), NEW t, NEW T, Sized(t, T), NEW w, Joined(w, a, t)
  PROVE  /\ Sized(w, A + T)
         /\ \A i \in 1..(A + T) : w[i] = IF i <= A THEN a[i] ELSE t[i - A]
<1>1. a \in Seq(Byte) /\ t \in Seq(Byte) /\ Len(a) = A /\ Len(t) = T /\ A \in Nat /\ T \in Nat
      /\ w = a \o t
  BY DEF Sized, Joined
<1>2. /\ a \o t \in Seq(Byte)
      /\ Len(a \o t) = Len(a) + Len(t)
      /\ \A i \in 1..(Len(a) + Len(t)) : (a \o t)[i] = IF i <= Len(a) THEN a[i] ELSE t[i - Len(a)]
  BY <1>1, ConcatProperties, Zenon
<1>3. Sized(w, A + T)
  BY <1>1, <1>2 DEF Sized
<1>4. \A i \in 1..(A + T) : w[i] = IF i <= A THEN a[i] ELSE t[i - A]
  BY <1>1, <1>2, Zenon
<1> QED BY <1>3, <1>4

(* What lies behind the first part is read at its offset in the second.    *)
LEMMA Behind ==
  ASSUME NEW a, NEW A, Sized(a, A), NEW t, NEW T, Sized(t, T), NEW w, Joined(w, a, t),
         NEW k \in Nat, NEW n \in Nat, k + n <= T
  PROVE  Bytes(w, A + k, n) = Bytes(t, k, n)
<1>1. A \in Nat /\ T \in Nat /\ a \in Seq(Byte) /\ t \in Seq(Byte) /\ Len(a) = A /\ Len(t) = T
      /\ w = a \o t
  BY DEF Sized, Joined
<1>2. CASE n = 0
  <2>1. Bytes(w, A + k, n) = << >> /\ Bytes(t, k, n) = << >>
    BY <1>1, <1>2, SubSeqEmpty DEF Bytes
  <2> QED BY <2>1
<1>3. CASE n > 0
  <2> DEFINE x == A + k + 1
             y == A + k + n
  <2>1. x \in (A + 1)..(A + T) /\ y \in (A + 1)..(A + T)
    BY <1>1, <1>3
  <2>2. SubSeq(a \o t, x, y) = SubSeq(t, x - A, y - A)
    <3> HIDE DEF x, y
    <3> QED BY <1>1, <2>1, SubSeqOfConcat2
  <2>3. x - A = k + 1 /\ y - A = k + n
    BY <1>1
  <2> QED BY <1>1, <2>2, <2>3 DEF Bytes
<1> QED BY <1>2, <1>3

(* What starts a datagram, and a part of it that others precede.           *)
LEMMA InFront ==
  ASSUME NEW f, NEW F, Sized(f, F), NEW t, NEW T, Sized(t, T), NEW w, Joined(w, f, t)
  PROVE  Bytes(w, 0, F) = f
<1>1. F \in Nat /\ T \in Nat /\ f \in Seq(Byte) /\ t \in Seq(Byte) /\ Len(f) = F /\ Len(t) = T
      /\ w = f \o t
  BY DEF Sized, Joined
<1>2. CASE F = 0
  <2>1. Bytes(w, 0, F) = << >> /\ f = << >>
    BY <1>1, <1>2, SubSeqEmpty, EmptySeq DEF Bytes
  <2> QED BY <2>1
<1>3. CASE F > 0
  <2>1. SubSeq(f \o t, 1, F) = SubSeq(f, 1, F)
    BY <1>1, <1>3, SubSeqOfConcat1
  <2> QED BY <1>1, <1>3, <2>1, SubSeqFull DEF Bytes
<1> QED BY <1>1, <1>2, <1>3

(* A part that another precedes and a third follows.                       *)
LEMMA Part ==
  ASSUME NEW p, NEW P, Sized(p, P), NEW f, NEW F, Sized(f, F), NEW t, NEW T, Sized(t, T),
         NEW q, Joined(q, p, f), NEW w, Joined(w, q, t)
  PROVE  /\ Bytes(w, P, F) = f
         /\ F > 0 => w[P + 1] = f[1]
         /\ \E u : Joined(w, p, u) /\ Sized(u, F + T)
<1>1. PICK u : Joined(u, f, t)
  BY DEF Joined
<1>2. Sized(u, F + T) /\ Bytes(u, 0, F) = f
      /\ \A i \in 1..(F + T) : u[i] = IF i <= F THEN f[i] ELSE t[i - F]
  BY <1>1, JoinedSize, InFront
<1>3. P \in Nat /\ F \in Nat /\ T \in Nat
  BY DEF Sized
<1>4. Joined(w, p, u)
  BY <1>1, ConcatAssociative DEF Joined, Sized
<1>5. Bytes(w, P, F) = f
  <2>1. 0 + F <= F + T /\ 0 \in Nat /\ P + 0 = P
    BY <1>3
  <2>2. Bytes(w, P + 0, F) = Bytes(u, 0, F)
    BY <1>2, <1>3, <1>4, <2>1, Behind
  <2> QED BY <1>2, <2>1, <2>2
<1>6. F > 0 => w[P + 1] = f[1]
  <2>1. \A i \in 1..(P + (F + T)) : w[i] = IF i <= P THEN p[i] ELSE u[i - P]
    BY <1>2, <1>4, JoinedSize
  <2> QED BY <1>2, <1>3, <2>1
<1> QED BY <1>2, <1>4, <1>5, <1>6

(* A request's parts, put together in the order in which marshal does.     *)
Laid(w, id, op, size, name, L, day, start, end, x, X) ==
  /\ Sized(id, 4) /\ Sized(op, 1) /\ Sized(size, 2) /\ Sized(name, L)
  /\ Sized(day, 1) /\ Sized(start, 2) /\ Sized(end, 2) /\ Sized(x, X)
  /\ w = ((((((id \o op) \o size) \o name) \o day) \o start) \o end) \o x

(* The parts of a request's datagram, read where unmarshal looks for them. *)
LEMMA Parts ==
  ASSUME NEW id, NEW op, NEW size, NEW name, NEW L, NEW day, NEW start, NEW end,
         NEW x, NEW X, NEW w, Laid(w, id, op, size, name, L, day, start, end, x, X)
  PROVE  /\ Sized(w, 12 + L + X)
         /\ Bytes(w, 0, 4) = id /\ w[5] = op[1] /\ Bytes(w, 5, 2) = size
         /\ Bytes(w, 7, L) = name
         /\ Bytes(w, 7 + L, 1) = day
         /\ Bytes(w, 8 + L, 2) = start
         /\ Bytes(w, 10 + L, 2) = end
         /\ \A k, n \in Nat : k + n <= X => Bytes(w, 12 + L + k, n) = Bytes(x, k, n)
<1>1. /\ Sized(id, 4) /\ Sized(op, 1) /\ Sized(size, 2) /\ Sized(name, L)
      /\ Sized(day, 1) /\ Sized(start, 2) /\ Sized(end, 2) /\ Sized(x, X)
  BY DEF Laid
<1>2. PICK p2, p3, p4, p5, p6, p7 :
         /\ Joined(p2, id, op) /\ Joined(p3, p2, size) /\ Joined(p4, p3, name)
         /\ Joined(p5, p4, day) /\ Joined(p6, p5, start) /\ Joined(p7, p6, end)
         /\ Joined(w, p7, x)
  BY DEF Laid, Joined
<1>3. L \in Nat /\ X \in Nat
  BY <1>1 DEF Sized
<1>4. Sized(p2, 5)
  <2>1. 4 + 1 = 5
    OBVIOUS
  <2> QED BY <1>1, <1>2, <2>1, JoinedSize
<1>5. Sized(p3, 7)
  <2>1. 5 + 2 = 7
    OBVIOUS
  <2> QED BY <1>1, <1>2, <1>4, <2>1, JoinedSize
<1>6. Sized(p4, 7 + L)
  BY <1>1, <1>2, <1>5, JoinedSize
<1>7. Sized(p5, 8 + L)
  <2>1. 7 + L + 1 = 8 + L
    BY <1>3
  <2> QED BY <1>1, <1>2, <1>6, <2>1, JoinedSize
<1>8. Sized(p6, 10 + L)
  <2>1. 8 + L + 2 = 10 + L
    BY <1>3
  <2> QED BY <1>1, <1>2, <1>7, <2>1, JoinedSize
<1>9. Sized(p7, 12 + L)
  <2>1. 10 + L + 2 = 12 + L
    BY <1>3
  <2> QED BY <1>1, <1>2, <1>8, <2>1, JoinedSize
<1>10. Sized(w, 12 + L + X)
  BY <1>1, <1>2, <1>9, JoinedSize
<1>11. ASSUME NEW k \in Nat, NEW n \in Nat, k + n <= X
      PROVE  Bytes(w, 12 + L + k, n) = Bytes(x, k, n)
  BY <1>1, <1>2, <1>9, <1>11, Behind
<1>12. Bytes(w, 10 + L, 2) = end /\ \E u, U : Joined(w, p6, u) /\ Sized(u, U)
  BY <1>1, <1>2, <1>8, Part
<1>13. Bytes(w, 8 + L, 2) = start /\ \E u, U : Joined(w, p5, u) /\ Sized(u, U)
  BY <1>1, <1>2, <1>7, <1>12, Part
<1>14. Bytes(w, 7 + L, 1) = day /\ \E u, U : Joined(w, p4, u) /\ Sized(u, U)
  BY <1>1, <1>2, <1>6, <1>13, Part
<1>15. Bytes(w, 7, L) = name /\ \E u, U : Joined(w, p3, u) /\ Sized(u, U)
  BY <1>1, <1>2, <1>5, <1>14, Part
<1>16. Bytes(w, 5, 2) = size /\ \E u, U : Joined(w, p2, u) /\ Sized(u, U)
  BY <1>1, <1>2, <1>4, <1>15, Part
<1>17. w[5] = op[1] /\ \E u, U : Joined(w, id, u) /\ Sized(u, U)
  <2>1. 4 + 1 = 5 /\ 1 > 0
    OBVIOUS
  <2> QED BY <1>1, <1>2, <1>16, <2>1, Part
<1>18. Bytes(w, 0, 4) = id
  BY <1>1, <1>2, <1>17, InFront
<1> QED BY <1>10, <1>11, <1>12, <1>13, <1>14, <1>15, <1>16, <1>17, <1>18

(* PutParts, as a size.                                                    *)
LEMMA PutSized ==
  ASSUME NEW v \in Int
  PROVE  Sized(Put(1, v), 1) /\ Sized(Put(2, v), 2) /\ Sized(Put(4, v), 4)
BY PutParts DEF Sized

-----------------------------------------------------------------------------
(* Requests: what unmarshal makes of what was packed.                      *)

(* What a request's fields can be.                                         *)
LEMMA RequestTypes ==
  ASSUME NEW r \in Request
  PROVE  /\ r.requestId \in Nat /\ r.operation \in 1..6 /\ r.operation \in Int
         /\ r.facilityName \in Seq(Byte)
         /\ r.day \in Int /\ r.startTime \in Int /\ r.endTime \in Int
         /\ r.bookingId \in Seq(Int) /\ Len(r.bookingId) <= 1
         /\ r.offsetMinutes \in Seq(-(Power[4] \div 2)..(Power[4] \div 2 - 1))
         /\ Len(r.offsetMinutes) <= 1
         /\ r.monitorInterval \in Seq(Int) /\ Len(r.monitorInterval) <= 1
         /\ r.operation \notin {CHANGE, EXTEND, CANCEL} => r.bookingId = << >>
         /\ r.operation \notin {CHANGE, EXTEND} => r.offsetMinutes = << >>
         /\ r.operation # MONITOR => r.monitorInterval = << >>
BY DEF Request, Optional, QUERY, CANCEL

(* What unmarshal finds where it looks, in a datagram with x behind it.    *)
FieldsRead(w, r, L, x, X) ==
  /\ Sized(w, 12 + L + X)
  /\ Bytes(w, 0, 4) = Put(4, r.requestId) /\ w[5] = Put(1, r.operation)[1]
  /\ Bytes(w, 5, 2) = Put(2, L)
  /\ Bytes(w, 7, L) = r.facilityName
  /\ Bytes(w, 7 + L, 1) = Put(1, r.day)
  /\ Bytes(w, 8 + L, 2) = Put(2, r.startTime)
  /\ Bytes(w, 10 + L, 2) = Put(2, r.endTime)
  /\ \A k, n \in Nat : k + n <= X => Bytes(w, 12 + L + k, n) = Bytes(x, k, n)

(* The fields of a request are where unmarshal looks for them.             *)
LEMMA FieldParts ==
  ASSUME NEW r \in Request, NEW x, NEW X, Sized(x, X), NEW w, Joined(w, Fields(r), x),
         NEW L, Sized(r.facilityName, L)
  PROVE  FieldsRead(w, r, L, x, X)
<1> DEFINE id == Put(4, r.requestId)
           op == Put(1, r.operation)
           size == Put(2, L)
           name == r.facilityName
           day == Put(1, r.day)
           start == Put(2, r.startTime)
           end == Put(2, r.endTime)
<1>1. Sized(name, L)
  OBVIOUS
<1>2. L \in Int
  BY <1>1 DEF Sized
<1>3. /\ Sized(id, 4) /\ Sized(op, 1) /\ Sized(size, 2)
      /\ Sized(day, 1) /\ Sized(start, 2) /\ Sized(end, 2)
  BY <1>2, RequestTypes, PutSized
<1>4. w = ((((((id \o op) \o size) \o name) \o day) \o start) \o end) \o x
  <2>1. L = Len(r.facilityName)
    BY DEF Sized
  <2> QED BY <2>1, Zenon DEF Fields, Joined
<1> HIDE DEF id, op, size, name, day, start, end
<1>5. Laid(w, id, op, size, name, L, day, start, end, x, X)
  BY <1>1, <1>3, <1>4 DEF Laid
<1>6. /\ Sized(w, 12 + L + X)
      /\ Bytes(w, 0, 4) = id /\ w[5] = op[1] /\ Bytes(w, 5, 2) = size
      /\ Bytes(w, 7, L) = name
      /\ Bytes(w, 7 + L, 1) = day
      /\ Bytes(w, 8 + L, 2) = start
      /\ Bytes(w, 10 + L, 2) = end
      /\ \A k, n \in Nat : k + n <= X => Bytes(w, 12 + L + k, n) = Bytes(x, k, n)
  BY <1>5, Parts
<1> QED BY <1>6 DEF FieldsRead, id, op, size, name, day, start, end

(* A number that its width holds is not cut.                               *)
LEMMA SmallRemainder ==
  ASSUME NEW m \in Nat, NEW v \in Nat, v < m
  PROVE  v % m = v
<1>1. v = m * 0 + v /\ v \in 0..(m - 1) /\ m > 0 /\ 0 \in Int
  OBVIOUS
<1> QED BY <1>1, DivisionUnique

(* A number is only ever cut to a smaller one.                             *)
LEMMA RemainderAtMost ==
  ASSUME NEW m \in Nat, NEW v \in Nat, m > 0
  PROVE  v % m \in Nat /\ v % m <= v
<1>1. v \div m \in Int /\ v % m \in 0..(m - 1) /\ v = m * (v \div m) + (v % m)
  BY Division
<1>2. CASE v < m
  BY <1>1, <1>2, SmallRemainder
<1>3. CASE v >= m
  BY <1>1, <1>3
<1> QED BY <1>2, <1>3

(* An answer that a facility is not found is as long as its name and a     *)
(* constant.                                                               *)
LEMMA NotFoundSize ==
  ASSUME NEW name \in Seq(Byte)
  PROVE  /\ NotFound(name) \in Seq(Byte)
         /\ Len(NotFound(name)) = Len(NotFound(<< >>)) + Len(name)
         /\ Len(NotFound(<< >>)) \in Nat
<1>1. NotFoundText.before \in Seq(Byte) /\ NotFoundText.behind \in Seq(Byte)
  BY LoopAssumption
<1> DEFINE a == NotFoundText.before
           b == NotFoundText.behind
<1>2. ASSUME NEW n \in Seq(Byte)
      PROVE  /\ (a \o n) \o b \in Seq(Byte) /\ Len((a \o n) \o b) = Len(a) + Len(n) + Len(b)
             /\ Len(a) \in Nat /\ Len(b) \in Nat
  <2>1. a \o n \in Seq(Byte) /\ Len(a \o n) = Len(a) + Len(n)
    BY <1>1
  <2>2. (a \o n) \o b \in Seq(Byte) /\ Len((a \o n) \o b) = Len(a \o n) + Len(b)
    BY <1>1, <2>1
  <2> QED BY <1>1, <2>1, <2>2
<1>3. << >> \in Seq(Byte) /\ Len(<< >>) = 0 /\ Len(name) \in Nat
  OBVIOUS
<1>4. NotFound(name) = (a \o name) \o b /\ NotFound(<< >>) = (a \o << >>) \o b
  BY DEF NotFound
<1>5. /\ NotFound(name) \in Seq(Byte) /\ Len(NotFound(name)) = Len(a) + Len(name) + Len(b)
      /\ Len(a) \in Nat /\ Len(b) \in Nat
  BY <1>2, <1>4, Zenon
<1>6. Len(NotFound(<< >>)) = Len(a) + 0 + Len(b)
  BY <1>2, <1>3, <1>4, Zenon
<1> HIDE DEF a, b
<1> QED BY <1>3, <1>5, <1>6

(* The sizes that the assumptions leave room for.                          *)
LEMMA Room ==
  /\ BufferSize \in Nat /\ BufferSize >= 15
  /\ Power[2] \in Nat /\ Power[2] \div 2 \in Nat /\ Power[2] \div 2 < Power[2]
  /\ Len(NotFound(<< >>)) \in Nat
  /\ Len(NotFound(<< >>)) + BufferSize <= Power[2] \div 2
<1>1. << >> \in Seq(Byte)
  OBVIOUS
<1>2. Power[2] \in Nat /\ Power[2] > 0
  BY Bases
<1>3. Power[2] \div 2 \in Nat /\ Power[2] \div 2 < Power[2]
  BY <1>2
<1> QED BY <1>1, <1>2, <1>3, NotFoundSize, CodecAssumption, LoopAssumption

(* The fields that only some operations have, and their size.              *)
Extra(r) ==
  IF r.operation \in {CHANGE, EXTEND} /\ r.bookingId # << >> /\ r.offsetMinutes # << >>
  THEN Put(4, r.bookingId[1]) \o Put(4, r.offsetMinutes[1])
  ELSE IF r.operation = CANCEL /\ r.bookingId # << >> THEN Put(4, r.bookingId[1])
  ELSE IF r.operation = MONITOR /\ r.monitorInterval # << >> THEN Put(4, r.monitorInterval[1])
  ELSE << >>

ExtraSize(r) ==
  IF r.operation \in {CHANGE, EXTEND} /\ r.bookingId # << >> /\ r.offsetMinutes # << >> THEN 8
  ELSE IF r.operation = CANCEL /\ r.bookingId # << >> THEN 4
  ELSE IF r.operation = MONITOR /\ r.monitorInterval # << >> THEN 4
  ELSE 0

(* An optional field is empty or has one number in it.                     *)
LEMMA OptionalFields ==
  ASSUME NEW r \in Request
  PROVE  /\ r.bookingId = << >> \/ (r.bookingId[1] \in Int /\ r.bookingId = <<r.bookingId[1]>>)
         /\ r.offsetMinutes = << >>
              \/ /\ r.offsetMinutes[1] \in -(Power[4] \div 2)..(Power[4] \div 2 - 1)
                 /\ r.offsetMinutes[1] \in Int
                 /\ r.offsetMinutes = <<r.offsetMinutes[1]>>
         /\ r.monitorInterval = << >>
              \/ (r.monitorInterval[1] \in Int /\ r.monitorInterval = <<r.monitorInterval[1]>>)
<1>1. ASSUME NEW S, NEW q \in Seq(S), Len(q) <= 1
      PROVE  q = << >> \/ (q[1] \in S /\ q = <<q[1]>>)
  <2>1. Len(q) = 0 \/ Len(q) = 1
    <3>1. Len(q) \in Nat
      BY LenProperties, Zenon
    <3> DEFINE n == Len(q)
    <3>2. n \in Nat /\ n <= 1
      BY <1>1, <3>1
    <3> HIDE DEF n
    <3>3. n = 0 \/ n = 1
      BY <3>2
    <3> QED BY <3>3 DEF n
  <2>2. CASE Len(q) = 0
    BY <2>2, EmptySeq
  <2>3. CASE Len(q) = 1
    <3>1. q[1] \in S
      BY <2>3
    <3>2. q = <<q[1]>>
      BY <2>3
    <3> QED BY <3>1, <3>2
  <2> QED BY <2>1, <2>2, <2>3
<1> DEFINE M == -(Power[4] \div 2)..(Power[4] \div 2 - 1)
<1>2. M \subseteq Int
  BY Bases
<1>3. /\ r.bookingId \in Seq(Int) /\ Len(r.bookingId) <= 1
      /\ r.offsetMinutes \in Seq(M) /\ Len(r.offsetMinutes) <= 1
      /\ r.monitorInterval \in Seq(Int) /\ Len(r.monitorInterval) <= 1
  BY RequestTypes
<1> HIDE DEF M
<1>4. /\ r.bookingId = << >> \/ (r.bookingId[1] \in Int /\ r.bookingId = <<r.bookingId[1]>>)
      /\ r.monitorInterval = << >>
              \/ (r.monitorInterval[1] \in Int /\ r.monitorInterval = <<r.monitorInterval[1]>>)
  BY <1>1, <1>3
<1>5. r.offsetMinutes = << >>
        \/ (r.offsetMinutes[1] \in M /\ r.offsetMinutes = <<r.offsetMinutes[1]>>)
  BY <1>1, <1>3
<1> QED BY <1>2, <1>4, <1>5 DEF M

(* The extra fields take the size they are said to.                        *)
LEMMA ExtraSized == ASSUME NEW r \in Request PROVE Sized(Extra(r), ExtraSize(r))
<1>1. /\ r.bookingId # << >> => Sized(Put(4, r.bookingId[1]), 4)
      /\ r.offsetMinutes # << >> => Sized(Put(4, r.offsetMinutes[1]), 4)
      /\ r.monitorInterval # << >> => Sized(Put(4, r.monitorInterval[1]), 4)
  BY OptionalFields, PutSized
<1>2. ASSUME NEW a, NEW b, Sized(a, 4), Sized(b, 4)
      PROVE  Sized(a \o b, 8)
  <2>1. Sized(a \o b, 4 + 4)
    BY <1>2, JoinedSize DEF Joined
  <2> QED BY <2>1
<1>3. Sized(<< >>, 0)
  BY DEF Sized
<1> QED BY <1>1, <1>2, <1>3 DEF Extra, ExtraSize

(* Both clients pack a request that way.                                   *)
LEMMA PackedJoined ==
  ASSUME NEW c, NEW r \in Request, c \notin Testers => Complete(r)
  PROVE  Joined(Packed(c, r), Fields(r), Extra(r))
<1>1. r.operation \in {QUERY, BOOK, CHANGE, MONITOR, EXTEND, CANCEL}
  BY RequestTypes DEF QUERY, BOOK, CHANGE, MONITOR, EXTEND, CANCEL
<1> DEFINE a == Put(4, r.bookingId[1])
           b == Put(4, r.offsetMinutes[1])
           d == Put(4, r.monitorInterval[1])
           ab == a \o b
           E == CASE r.operation = CANCEL /\ r.bookingId # << >> -> a
                  [] r.operation \in {CHANGE, EXTEND} /\ r.bookingId # << >>
                       /\ r.offsetMinutes # << >> -> ab
                  [] r.operation = MONITOR /\ r.monitorInterval # << >> -> d
                  [] OTHER -> << >>
           F == CASE r.operation \in {CHANGE, EXTEND} -> a \o Put(4, ExtraField(r))
                  [] r.operation \in {MONITOR, CANCEL} -> Put(4, ExtraField(r))
                  [] OTHER -> << >>
<1>2. Marshal(r) = Fields(r) \o E /\ ClientMarshal(r) = Fields(r) \o F
  BY Zenon DEF Marshal, ClientMarshal
<1>3. /\ r.operation \in {CHANGE, EXTEND} => ExtraField(r) = r.offsetMinutes[1]
      /\ r.operation = MONITOR => ExtraField(r) = r.monitorInterval[1]
      /\ r.operation = CANCEL => ExtraField(r) = r.bookingId[1]
  BY DEF ExtraField, CHANGE, EXTEND, MONITOR, CANCEL
<1>4. Extra(r) = IF r.operation \in {CHANGE, EXTEND} /\ r.bookingId # << >>
                        /\ r.offsetMinutes # << >> THEN ab
                 ELSE IF r.operation = CANCEL /\ r.bookingId # << >> THEN a
                 ELSE IF r.operation = MONITOR /\ r.monitorInterval # << >> THEN d
                 ELSE << >>
  BY Zenon DEF Extra
<1>5. F = CASE r.operation \in {CHANGE, EXTEND} -> ab
            [] r.operation = MONITOR -> d
            [] r.operation = CANCEL -> a
            [] OTHER -> << >>
  <2>1. CASE r.operation \in {QUERY, BOOK}
    BY <2>1 DEF QUERY, BOOK, CHANGE, MONITOR, EXTEND, CANCEL
  <2>2. CASE r.operation \in {CHANGE, EXTEND}
    BY <1>3, <2>2
  <2>3. CASE r.operation = MONITOR
    BY <1>3, <2>3 DEF CHANGE, MONITOR, EXTEND, CANCEL
  <2>4. CASE r.operation = CANCEL
    BY <1>3, <2>4 DEF CHANGE, MONITOR, EXTEND, CANCEL
  <2> QED BY <1>1, <2>1, <2>2, <2>3, <2>4
<1> HIDE DEF a, b, d, ab
<1>6. E = Extra(r)
  <2> USE DEF CHANGE, MONITOR, EXTEND, CANCEL
  <2> QED BY <1>4
<1>7. c \notin Testers => F = Extra(r)
  <2> USE DEF CHANGE, MONITOR, EXTEND, CANCEL
  <2> HIDE DEF F
  <2> QED BY <1>4, <1>5 DEF Complete
<1> HIDE DEF E, F
<1> QED BY <1>2, <1>6, <1>7 DEF Packed, Joined

(* The operation survives its byte.                                        *)
LEMMA Operations ==
  ASSUME NEW r \in Request
  PROVE  Put(1, r.operation)[1] = r.operation
         /\ r.operation \in {QUERY, BOOK, CHANGE, MONITOR, EXTEND, CANCEL}
<1>1. r.operation \in Nat /\ r.operation < Base /\ Base \in Nat
  <2>1. r.operation \in 1..6
    BY RequestTypes
  <2>2. Base \in Nat /\ Base >= 8
    BY Bases
  <2> QED BY <2>1, <2>2
<1>2. r.operation % Base = r.operation
  BY <1>1, SmallRemainder
<1>3. Put(1, r.operation) = <<r.operation % Base>>
  <2>1. r.operation \in Int
    BY <1>1
  <2> QED BY <2>1, Digits
<1>4. r.operation \in {QUERY, BOOK, CHANGE, MONITOR, EXTEND, CANCEL}
  BY RequestTypes DEF QUERY, BOOK, CHANGE, MONITOR, EXTEND, CANCEL
<1> QED BY <1>2, <1>3, <1>4

(* Which extra fields were sent can be told from their size alone.         *)
LEMMA ExtraRead ==
  ASSUME NEW r \in Request
  PROVE  /\ ExtraSize(r) = 8 =>
              /\ r.operation \in {CHANGE, EXTEND}
              /\ r.bookingId # << >> /\ r.offsetMinutes # << >>
              /\ Unsigned(Bytes(Extra(r), 0, 4)) = r.bookingId[1] % Power[4]
              /\ Signed(Bytes(Extra(r), 4, 4)) = r.offsetMinutes[1]
         /\ ExtraSize(r) = 4 =>
              \/ /\ r.operation = CANCEL /\ r.bookingId # << >>
                 /\ Unsigned(Bytes(Extra(r), 0, 4)) = r.bookingId[1] % Power[4]
              \/ /\ r.operation = MONITOR /\ r.monitorInterval # << >>
                 /\ Unsigned(Bytes(Extra(r), 0, 4)) = r.monitorInterval[1] % Power[4]
         /\ ExtraSize(r) = 0 =>
              /\ r.operation \in {CHANGE, EXTEND} => r.bookingId = << >> \/ r.offsetMinutes = << >>
              /\ r.operation = CANCEL => r.bookingId = << >>
              /\ r.operation = MONITOR => r.monitorInterval = << >>
         /\ ExtraSize(r) \in {0, 4, 8}
<1> USE DEF CHANGE, EXTEND, CANCEL, MONITOR
<1>1. ASSUME NEW v \in Int
      PROVE  /\ Bytes(Put(4, v), 0, 4) = Put(4, v)
             /\ Unsigned(Put(4, v)) = v % Power[4]
             /\ Sized(Put(4, v), 4)
  <2>1. Put(4, v) \in Seq(Byte) /\ Len(Put(4, v)) = 4
    BY PutParts
  <2>2. Bytes(Put(4, v), 0, 4) = Put(4, v)
    <3>1. SubSeq(Put(4, v), 1, Len(Put(4, v))) = Put(4, v)
      BY <2>1, SubSeqFull
    <3>2. 0 + 1 = 1 /\ 0 + 4 = 4
      OBVIOUS
    <3> QED BY <2>1, <3>1, <3>2 DEF Bytes
  <2> QED BY <2>2, PutSized, RoundTrip
<1>2. ASSUME NEW a, NEW b, Sized(a, 4), Sized(b, 4)
      PROVE  Bytes(a \o b, 0, 4) = a /\ Bytes(a \o b, 4, 4) = b
  <2>1. Bytes(a \o b, 0, 4) = a
    BY <1>2, InFront DEF Joined
  <2>2. PICK w : Joined(w, a, b)
    BY DEF Joined
  <2>3. PICK z : Joined(z, w, << >>)
    BY DEF Joined
  <2>4. Bytes(z, 4, 4) = b
    <3>1. Sized(<< >>, 0)
      BY DEF Sized
    <3> QED BY <1>2, <2>2, <2>3, <3>1, Part
  <2>5. z = a \o b
    <3>1. w \in Seq(Byte)
      BY <1>2, <2>2, JoinedSize DEF Sized
    <3>2. w \o << >> = w
      BY <3>1, ConcatEmptySeq
    <3> QED BY <2>2, <2>3, <3>2, Zenon DEF Joined
  <2> QED BY <2>1, <2>4, <2>5
<1>3. ExtraSize(r) \in {0, 4, 8}
  BY DEF ExtraSize
<1>4. CASE ExtraSize(r) = 8
  <2>1. /\ r.operation \in {CHANGE, EXTEND} /\ r.bookingId # << >> /\ r.offsetMinutes # << >>
        /\ Extra(r) = Put(4, r.bookingId[1]) \o Put(4, r.offsetMinutes[1])
    BY <1>4 DEF ExtraSize, Extra
  <2>2. r.bookingId[1] \in Int /\ r.offsetMinutes[1] \in Int
        /\ r.offsetMinutes[1] \in -(Power[4] \div 2)..(Power[4] \div 2 - 1)
    BY <2>1, OptionalFields
  <2>3. Sized(Put(4, r.bookingId[1]), 4) /\ Sized(Put(4, r.offsetMinutes[1]), 4)
    BY <1>1, <2>2
  <2>4. Bytes(Extra(r), 0, 4) = Put(4, r.bookingId[1])
        /\ Bytes(Extra(r), 4, 4) = Put(4, r.offsetMinutes[1])
    BY <1>2, <2>1, <2>3
  <2>5. Signed(Put(4, r.offsetMinutes[1])) = r.offsetMinutes[1]
    BY <2>2, SignedRoundTrip
  <2> QED BY <1>1, <1>4, <2>1, <2>2, <2>4, <2>5
<1>5. CASE ExtraSize(r) = 4
  <2>1. \/ /\ r.operation = CANCEL /\ r.bookingId # << >> /\ Extra(r) = Put(4, r.bookingId[1])
        \/ /\ r.operation = MONITOR /\ r.monitorInterval # << >>
           /\ Extra(r) = Put(4, r.monitorInterval[1])
    BY <1>5 DEF ExtraSize, Extra
  <2> QED BY <1>1, <1>5, <2>1, OptionalFields
<1>6. CASE ExtraSize(r) = 0
  BY <1>6 DEF ExtraSize
<1> QED BY <1>3, <1>4, <1>5, <1>6

(* Joining is associative.                                                 *)
LEMMA Regroup ==
  ASSUME NEW p \in Seq(Byte), NEW f \in Seq(Byte), NEW t \in Seq(Byte),
         NEW w, Joined(w, p, f), NEW v, Joined(v, w, t), NEW u, Joined(u, f, t)
  PROVE  Joined(v, p, u)
BY ConcatAssociative DEF Joined

(* The request that is meant, field by field.                              *)
LEMMA MeantFields ==
  ASSUME NEW r \in Request
  PROVE  LET both == r.bookingId # << >> /\ r.offsetMinutes # << >>
             b == IF r.bookingId = << >> \/ (r.operation # CANCEL /\ ~both) THEN << >>
                  ELSE <<r.bookingId[1] % Power[4]>>
             o == IF both THEN r.offsetMinutes ELSE << >>
             m == IF r.monitorInterval = << >> THEN r.monitorInterval
                  ELSE <<r.monitorInterval[1] % Power[4]>>
         IN  /\ Meant(r).bookingId = b /\ Meant(r).offsetMinutes = o
             /\ Meant(r).monitorInterval = m
             /\ Meant(r) =
                  [requestId |-> r.requestId, operation |-> r.operation,
                   facilityName |-> r.facilityName, day |-> r.day % Base,
                   startTime |-> r.startTime % Power[2], endTime |-> r.endTime % Power[2],
                   bookingId |-> Meant(r).bookingId, offsetMinutes |-> Meant(r).offsetMinutes,
                   monitorInterval |-> Meant(r).monitorInterval]
<1> DEFINE both == r.bookingId # << >> /\ r.offsetMinutes # << >>
           b == IF r.bookingId = << >> \/ (r.operation # CANCEL /\ ~both) THEN << >>
                ELSE <<r.bookingId[1] % Power[4]>>
           o == IF both THEN r.offsetMinutes ELSE << >>
           m == IF r.monitorInterval = << >> THEN r.monitorInterval
                ELSE <<r.monitorInterval[1] % Power[4]>>
           d == r.day % Base
           s == r.startTime % Power[2]
           e == r.endTime % Power[2]
<1>1. Meant(r) = [r EXCEPT !.day = d, !.startTime = s, !.endTime = e, !.bookingId = b,
                           !.offsetMinutes = o, !.monitorInterval = m]
  BY DEF Meant
<1>2. r = [requestId |-> r.requestId, operation |-> r.operation,
           facilityName |-> r.facilityName, day |-> r.day, startTime |-> r.startTime,
           endTime |-> r.endTime, bookingId |-> r.bookingId,
           offsetMinutes |-> r.offsetMinutes, monitorInterval |-> r.monitorInterval]
  BY DEF Request
<1> HIDE DEF b, o, m, d, s, e
<1>3. Meant(r) = [requestId |-> r.requestId, operation |-> r.operation,
                  facilityName |-> r.facilityName, day |-> d, startTime |-> s, endTime |-> e,
                  bookingId |-> b, offsetMinutes |-> o, monitorInterval |-> m]
  BY <1>1, <1>2
<1>4. Meant(r).bookingId = b /\ Meant(r).offsetMinutes = o /\ Meant(r).monitorInterval = m
  BY <1>3
<1> QED BY <1>3, <1>4 DEF b, o, m, d, s, e

(* What marshal, or a Java client, packs into a datagram that fits in the  *)
(* buffer unmarshal reads back as it was meant, whatever lies in the       *)
(* memory behind it.                                                       *)
THEOREM Unmarshals ==
  ASSUME NEW r \in Request, r.requestId < Power[4], NEW w, Joined(w, Fields(r), Extra(r)),
         Len(w) <= BufferSize, NEW junk \in Junk
  PROVE  Unmarshal(w, junk) = Meant(r)
<1> DEFINE L == Len(r.facilityName)
           X == ExtraSize(r)
<1>1. Sized(r.facilityName, L) /\ L \in Nat
  BY RequestTypes, LenProperties DEF Sized
<1>2. Sized(Extra(r), X) /\ X \in {0, 4, 8}
  BY ExtraSized, ExtraRead
<1> HIDE DEF L, X
<1>3. /\ Sized(w, 12 + L + X)
      /\ Bytes(w, 0, 4) = Put(4, r.requestId) /\ w[5] = Put(1, r.operation)[1]
      /\ Bytes(w, 5, 2) = Put(2, L)
      /\ Bytes(w, 7, L) = r.facilityName
      /\ \A k, n \in Nat : k + n <= X => Bytes(w, 12 + L + k, n) = Bytes(Extra(r), k, n)
  <2>1. FieldsRead(w, r, L, Extra(r), X)
    BY <1>1, <1>2, FieldParts
  <2> QED BY <2>1 DEF FieldsRead
<1>4. Len(w) = 12 + L + X
  BY <1>3 DEF Sized
<1>5. NameLength(w) = L
  <2>1. L \in Nat /\ L < Power[2] /\ Power[2] \in Nat /\ L \in Int
    BY <1>1, <1>2, <1>4, Room
  <2>2. L % Power[2] = L
    BY <2>1, SmallRemainder
  <2> QED BY <1>3, <2>1, <2>2, RoundTrip DEF NameLength
<1>6. PICK y : Joined(y, Extra(r), junk)
  BY DEF Joined
<1>7. Sized(junk, 5)
  BY LoopAssumption DEF Sized
<1>8. Sized(y, X + 5)
  BY <1>2, <1>6, <1>7, JoinedSize
<1>9. Joined(w \o junk, Fields(r), y)
  <2>1. Fields(r) \in Seq(Byte)
    <3>1. /\ Sized(Put(4, r.requestId), 4) /\ Sized(Put(1, r.operation), 1)
          /\ Sized(Put(1, r.day), 1) /\ Sized(Put(2, r.startTime), 2)
          /\ Sized(Put(2, r.endTime), 2) /\ Sized(Put(2, L), 2)
      BY <1>1, RequestTypes, PutSized
    <3>2. ASSUME NEW a \in Seq(Byte), NEW b \in Seq(Byte) PROVE a \o b \in Seq(Byte)
      OBVIOUS
    <3>3. Put(2, Len(r.facilityName)) \in Seq(Byte) /\ r.facilityName \in Seq(Byte)
      BY <1>1, <3>1 DEF Sized, L
    <3>4. Put(4, r.requestId) \o Put(1, r.operation) \in Seq(Byte)
      BY <3>1 DEF Sized
    <3>5. Put(1, r.day) \in Seq(Byte) /\ Put(2, r.startTime) \in Seq(Byte)
          /\ Put(2, r.endTime) \in Seq(Byte)
      BY <3>1 DEF Sized
    <3> QED BY <3>2, <3>3, <3>4, <3>5, Zenon DEF Fields
  <2>2. Extra(r) \in Seq(Byte) /\ junk \in Seq(Byte)
    BY <1>2, <1>7 DEF Sized
  <2>3. Joined(w \o junk, w, junk)
    BY DEF Joined
  <2> QED BY <1>6, <2>1, <2>2, <2>3, Regroup
<1>10. /\ Bytes(w \o junk, 7 + L, 1) = Put(1, r.day)
       /\ Bytes(w \o junk, 8 + L, 2) = Put(2, r.startTime)
       /\ Bytes(w \o junk, 10 + L, 2) = Put(2, r.endTime)
  <2>1. FieldsRead(w \o junk, r, L, y, X + 5)
    BY <1>1, <1>8, <1>9, FieldParts
  <2> QED BY <2>1 DEF FieldsRead
<1>11. /\ Unsigned(Bytes(w, 0, 4)) = r.requestId
       /\ w[5] = r.operation
       /\ Unsigned(Bytes(w \o junk, 7 + L, 1)) = r.day % Base
       /\ Unsigned(Bytes(w \o junk, 7 + L + 1, 2)) = r.startTime % Power[2]
       /\ Unsigned(Bytes(w \o junk, 7 + L + 3, 2)) = r.endTime % Power[2]
  <2>1. 7 + L + 1 = 8 + L /\ 7 + L + 3 = 10 + L
    BY <1>1
  <2>2. r.requestId % Power[4] = r.requestId
    BY RequestTypes, SmallRemainder, Bases
  <2> QED BY <1>3, <1>10, <2>1, <2>2, Operations, RequestTypes, RoundTrip
<1>12. /\ X >= 4 => Bytes(w, 7 + L + 5, 4) = Bytes(Extra(r), 0, 4)
       /\ X >= 8 => Bytes(w, 7 + L + 9, 4) = Bytes(Extra(r), 4, 4)
  <2>1. 7 + L + 5 = 12 + L + 0 /\ 7 + L + 9 = 12 + L + 4
    BY <1>1
  <2>2. 0 \in Nat /\ 4 \in Nat /\ (X >= 4 => 0 + 4 <= X) /\ (X >= 8 => 4 + 4 <= X)
    BY <1>2
  <2> QED BY <1>3, <2>1, <2>2
<1>13. ASSUME NEW size \in Nat
       PROVE  (7 + L + 5 + size <= Len(w)) <=> (size <= X)
  BY <1>1, <1>2, <1>4
<1> DEFINE two == r.operation \in {CHANGE, EXTEND} /\ 8 <= X
           one == r.operation \in {CANCEL, MONITOR} /\ 4 <= X
           U == Unsigned(Bytes(w, 7 + L + 5, 4))
           V == Signed(Bytes(w, 7 + L + 9, 4))
           d == Unsigned(Bytes(w \o junk, 7 + L, 1))
           s == Unsigned(Bytes(w \o junk, 7 + L + 1, 2))
           e == Unsigned(Bytes(w \o junk, 7 + L + 3, 2))
           i == Unsigned(Bytes(w, 0, 4))
           n == Bytes(w, 7, L)
<1>14. Unmarshal(w, junk) =
         [requestId |-> i, operation |-> w[5], facilityName |-> n,
          day |-> d, startTime |-> s, endTime |-> e,
          bookingId       |-> IF two \/ (one /\ r.operation = CANCEL) THEN <<U>> ELSE << >>,
          offsetMinutes   |-> IF two THEN <<V>> ELSE << >>,
          monitorInterval |-> IF one /\ r.operation = MONITOR THEN <<U>> ELSE << >>]
  <2>1. /\ (7 + L + 5 + 8 <= Len(w)) <=> (8 <= X)
        /\ (7 + L + 5 + 4 <= Len(w)) <=> (4 <= X)
    BY <1>13
  <2> QED BY <1>5, <1>11, <2>1 DEF Unmarshal
<1>15. Meant(r) =
         [requestId |-> r.requestId, operation |-> r.operation, facilityName |-> r.facilityName,
          day |-> r.day % Base, startTime |-> r.startTime % Power[2],
          endTime |-> r.endTime % Power[2],
          bookingId |-> Meant(r).bookingId, offsetMinutes |-> Meant(r).offsetMinutes,
          monitorInterval |-> Meant(r).monitorInterval]
  BY MeantFields
<1>16. /\ Meant(r).bookingId = IF two \/ (one /\ r.operation = CANCEL) THEN <<U>> ELSE << >>
       /\ Meant(r).offsetMinutes = IF two THEN <<V>> ELSE << >>
       /\ Meant(r).monitorInterval = IF one /\ r.operation = MONITOR THEN <<U>> ELSE << >>
  <2>1. /\ X >= 4 => U = Unsigned(Bytes(Extra(r), 0, 4))
        /\ X >= 8 => V = Signed(Bytes(Extra(r), 4, 4))
    BY <1>12
  <2> HIDE DEF U, V
  <2> USE DEF CHANGE, EXTEND, CANCEL, MONITOR
  <2>2. CASE X = 8
    <3>1. /\ r.operation \in {CHANGE, EXTEND} /\ r.bookingId # << >> /\ r.offsetMinutes # << >>
          /\ U = r.bookingId[1] % Power[4] /\ V = r.offsetMinutes[1]
      BY <2>1, <2>2, ExtraRead DEF X
    <3>2. two /\ ~one
      BY <2>2, <3>1
    <3>3. r.monitorInterval = << >> /\ r.offsetMinutes = <<V>>
      BY <3>1, RequestTypes, OptionalFields
    <3> HIDE DEF two, one
    <3> QED BY <3>1, <3>2, <3>3, MeantFields
  <2>3. CASE X = 4
    <3>1. \/ /\ r.operation = CANCEL /\ r.bookingId # << >> /\ U = r.bookingId[1] % Power[4]
          \/ /\ r.operation = MONITOR /\ r.monitorInterval # << >>
             /\ U = r.monitorInterval[1] % Power[4]
      BY <2>1, <2>3, ExtraRead DEF X
    <3>2. one /\ ~two
      BY <2>3, <3>1
    <3>3. CASE r.operation = CANCEL
      <4>1. r.monitorInterval = << >> /\ r.offsetMinutes = << >>
        BY <3>3, RequestTypes
      <4>2. r.bookingId # << >> /\ U = r.bookingId[1] % Power[4]
        BY <3>1, <3>3
      <4>3. Meant(r).bookingId = <<r.bookingId[1] % Power[4]>> /\ Meant(r).offsetMinutes = << >>
            /\ Meant(r).monitorInterval = << >>
        BY <3>3, <4>1, <4>2, MeantFields
      <4> HIDE DEF two, one
      <4> QED BY <3>2, <3>3, <4>2, <4>3
    <3>4. CASE r.operation = MONITOR
      <4>1. r.bookingId = << >> /\ r.offsetMinutes = << >>
        BY <3>4, RequestTypes
      <4>2. r.monitorInterval # << >> /\ U = r.monitorInterval[1] % Power[4]
        BY <3>1, <3>4
      <4>3. Meant(r).bookingId = << >> /\ Meant(r).offsetMinutes = << >>
            /\ Meant(r).monitorInterval = <<r.monitorInterval[1] % Power[4]>>
        BY <4>1, <4>2, MeantFields
      <4> HIDE DEF two, one
      <4> QED BY <3>2, <3>4, <4>2, <4>3
    <3> QED BY <3>1, <3>3, <3>4
  <2>4. CASE X = 0
    <3>1. /\ r.operation \in {CHANGE, EXTEND} => r.bookingId = << >> \/ r.offsetMinutes = << >>
          /\ r.operation = CANCEL => r.bookingId = << >>
          /\ r.operation = MONITOR => r.monitorInterval = << >>
      BY <2>4, ExtraRead DEF X
    <3>2. ~one /\ ~two
      BY <2>4
    <3>3. /\ r.operation \notin {CHANGE, EXTEND, CANCEL} => r.bookingId = << >>
          /\ r.operation \notin {CHANGE, EXTEND} => r.offsetMinutes = << >>
          /\ r.operation # MONITOR => r.monitorInterval = << >>
      BY RequestTypes
    <3> HIDE DEF two, one
    <3>4. r.monitorInterval = << >> /\ (r.bookingId = << >> \/ r.offsetMinutes = << >>)
          /\ (r.operation = CANCEL => r.bookingId = << >>)
      BY <3>1, <3>3
    <3> QED BY <3>2, <3>4, MeantFields
  <2> QED BY <1>2, <2>2, <2>3, <2>4
<1> HIDE DEF two, one, U, V, d, s, e, i, n
<1>17. i = r.requestId /\ w[5] = r.operation /\ n = r.facilityName /\ d = r.day % Base
       /\ s = r.startTime % Power[2] /\ e = r.endTime % Power[2]
  BY <1>3, <1>11 DEF d, s, e, i, n
<1> QED BY <1>14, <1>15, <1>16, <1>17

-----------------------------------------------------------------------------
(* Datagrams that may not fit the buffer they are received into.           *)

(* A receive leaves the front of a datagram as it is.                      *)
LEMMA ReceivedPart ==
  ASSUME NEW w, NEW W, Sized(w, W)
  PROVE  /\ W <= BufferSize => Received(w) = w
         /\ W > BufferSize => Sized(Received(w), BufferSize)
         /\ Received(w) \in Seq(Byte) /\ Len(Received(w)) <= BufferSize
         /\ \A k, n \in Nat : k + n <= BufferSize /\ k + n <= W /\ n > 0 =>
              Bytes(Received(w), k, n) = Bytes(w, k, n)
         /\ \A i \in 1..W : i <= BufferSize => Received(w)[i] = w[i]
<1>1. w \in Seq(Byte) /\ W \in Nat /\ Len(w) = W /\ BufferSize \in Nat /\ BufferSize >= 15
  BY Room DEF Sized
<1>2. CASE W <= BufferSize
  <2>1. Received(w) = SubSeq(w, 1, Len(w))
    BY <1>1, <1>2 DEF Received
  <2>2. Received(w) = w
    BY <1>1, <2>1, SubSeqFull
  <2> QED BY <1>1, <1>2, <2>2
<1>3. CASE W > BufferSize
  <2>1. Received(w) = SubSeq(w, 1, BufferSize)
    BY <1>1, <1>3 DEF Received
  <2>2. /\ SubSeq(w, 1, BufferSize) \in Seq(Byte)
        /\ Len(SubSeq(w, 1, BufferSize)) = BufferSize
        /\ \A i \in 1..BufferSize : SubSeq(w, 1, BufferSize)[i] = w[i]
    BY <1>1, <1>3
  <2>3. ASSUME NEW k \in Nat, NEW n \in Nat, k + n <= BufferSize, n > 0
        PROVE  Bytes(Received(w), k, n) = Bytes(w, k, n)
    <3>1. /\ BufferSize \in 1..Len(w) /\ 1 \in 1..Len(w)
          /\ k + 1 \in 1..(BufferSize - 1 + 1) /\ k + n \in 1..(BufferSize - 1 + 1)
      BY <1>1, <1>3, <2>3
    <3> DEFINE x == k + 1
               y == k + n
    <3>2. x \in 1..(BufferSize - 1 + 1) /\ y \in 1..(BufferSize - 1 + 1) /\ x \in Int /\ y \in Int
      BY <3>1
    <3> HIDE DEF x, y
    <3>3. SubSeq(SubSeq(w, 1, BufferSize), x, y) = SubSeq(w, 1 + x - 1, 1 + y - 1)
      BY <1>1, <3>1, <3>2, SubSeqOfSubSeq
    <3>4. 1 + x - 1 = x /\ 1 + y - 1 = y
      BY <3>2
    <3>5. SubSeq(SubSeq(w, 1, BufferSize), x, y) = SubSeq(w, x, y)
      BY <3>3, <3>4
    <3> QED BY <2>1, <3>5 DEF Bytes, x, y
  <2> QED BY <1>1, <1>3, <2>1, <2>2, <2>3 DEF Sized
<1> QED BY <1>1, <1>2, <1>3

(* What the server makes of a datagram that may not fit its buffer.        *)
LEMMA ServerReads ==
  ASSUME NEW r \in Request, r.requestId < Power[4], NEW w, Joined(w, Fields(r), Extra(r)),
         NEW b, b = Received(w)
  PROVE  /\ b \in Seq(Byte) /\ Len(b) <= BufferSize /\ Len(b) >= 12
         /\ Unsigned(Bytes(b, 0, 4)) = r.requestId
         /\ Len(r.facilityName) \in 3..(BufferSize - 7) => Readable(b)
         /\ Readable(b) =>
              LET name == Bytes(b, 7, NameLength(b))
              IN  /\ name \in Seq(Byte) /\ Len(name) <= Len(r.facilityName)
                  /\ 7 + Len(name) <= BufferSize
         /\ Len(w) <= BufferSize => b = w
         /\ w \in Seq(Byte)
<1> DEFINE L == Len(r.facilityName)
           X == ExtraSize(r)
           W == 12 + L + X
           N == L % Power[2]
<1>1. Sized(r.facilityName, L) /\ L \in Nat
  BY RequestTypes, LenProperties DEF Sized
<1>2. Sized(Extra(r), X) /\ X \in {0, 4, 8}
  BY ExtraSized, ExtraRead
<1> HIDE DEF L, X
<1>3. FieldsRead(w, r, L, Extra(r), X)
  BY <1>1, <1>2, FieldParts
<1>4. Sized(w, W) /\ Bytes(w, 0, 4) = Put(4, r.requestId) /\ Bytes(w, 5, 2) = Put(2, L)
  BY <1>3 DEF FieldsRead
<1>5. W \in Nat /\ W >= 12
  BY <1>1, <1>2
<1> HIDE DEF W
<1>6. /\ b \in Seq(Byte) /\ Len(b) <= BufferSize
      /\ Bytes(b, 0, 4) = Bytes(w, 0, 4) /\ Bytes(b, 5, 2) = Bytes(w, 5, 2)
      /\ W <= BufferSize => b = w /\ Len(b) = W
      /\ W > BufferSize => Len(b) = BufferSize
      /\ w \in Seq(Byte) /\ Len(w) = W
  <2>1. /\ 0 + 4 <= BufferSize /\ 0 + 4 <= W /\ 5 + 2 <= BufferSize /\ 5 + 2 <= W
        /\ 0 \in Nat /\ 4 \in Nat /\ 5 \in Nat /\ 2 \in Nat /\ 4 > 0 /\ 2 > 0
    BY <1>5, Room
  <2>2. /\ Bytes(Received(w), 0, 4) = Bytes(w, 0, 4) /\ Bytes(Received(w), 5, 2) = Bytes(w, 5, 2)
        /\ Received(w) \in Seq(Byte) /\ Len(Received(w)) <= BufferSize
        /\ W <= BufferSize => Received(w) = w
        /\ W > BufferSize => Sized(Received(w), BufferSize)
    BY <1>4, <2>1, ReceivedPart
  <2>3. w \in Seq(Byte) /\ Len(w) = W
    BY <1>4 DEF Sized
  <2> QED BY <2>2, <2>3 DEF Sized
<1>7. Unsigned(Bytes(b, 0, 4)) = r.requestId
  <2>1. r.requestId \in Nat /\ r.requestId \in Int
    BY RequestTypes
  <2>2. r.requestId % Power[4] = r.requestId
    BY <2>1, SmallRemainder, Bases
  <2> QED BY <1>4, <1>6, <2>1, <2>2, RoundTrip
<1>8. NameLength(b) = N /\ N \in Nat /\ N <= L
  <2>1. Unsigned(Put(2, L)) = N
    BY <1>1, RoundTrip
  <2>2. Power[2] \in Nat /\ Power[2] > 0
    BY Room
  <2> QED BY <1>1, <1>4, <1>6, <2>1, <2>2, RemainderAtMost DEF NameLength
<1>9. Len(b) \in Nat /\ Len(b) >= 12
  BY <1>5, <1>6, Room
<1>10. ASSUME L \in 3..(BufferSize - 7) PROVE Readable(b)
  <2>1. L < Power[2] /\ Power[2] \in Nat
    BY <1>1, <1>10, Room
  <2>2. N = L
    BY <1>1, <2>1, SmallRemainder
  <2>3. Len(b) >= 15 /\ 7 + L <= Len(b)
    BY <1>1, <1>2, <1>6, <1>10, Room DEF W
  <2> QED BY <1>8, <2>2, <2>3 DEF Readable
<1>11. ASSUME Readable(b)
       PROVE  LET name == Bytes(b, 7, NameLength(b))
              IN  /\ name \in Seq(Byte) /\ Len(name) <= L
                  /\ 7 + Len(name) <= BufferSize
  <2>1. 7 + N <= Len(b)
    BY <1>8, <1>11 DEF Readable
  <2> HIDE DEF N
  <2>2. \A i \in 8..(7 + N) : b[i] \in Byte
    BY <1>6, <1>8, <1>9, <2>1
  <2>3. SubSeq(b, 8, 7 + N) \in Seq(Byte) /\ Len(SubSeq(b, 8, 7 + N)) = N
    <3>1. 8 \in Int /\ 7 + N \in Int
      BY <1>8
    <3>2. /\ SubSeq(b, 8, 7 + N) \in Seq(Byte)
          /\ Len(SubSeq(b, 8, 7 + N)) = IF 8 <= 7 + N THEN (7 + N) - 8 + 1 ELSE 0
      BY <2>2, <3>1, SubSeqProperties
    <3> QED BY <1>8, <3>2
  <2>4. Bytes(b, 7, N) = SubSeq(b, 8, 7 + N)
    BY DEF Bytes
  <2>5. 7 + N <= BufferSize
    BY <1>6, <1>8, <1>9, <2>1, Room
  <2>6. Bytes(b, 7, NameLength(b)) = SubSeq(b, 8, 7 + N)
    BY <1>8, <2>4
  <2> QED BY <1>8, <2>3, <2>5, <2>6
<1> QED BY <1>6, <1>7, <1>9, <1>10, <1>11 DEF L

-----------------------------------------------------------------------------
(* Responses: what a client makes of what was packed.                      *)

(* The fields of a response are where the clients look for them.           *)
LEMMA ResponseParts ==
  ASSUME NEW r, r.requestId \in Int, r.status \in Int, NEW M, Sized(r.message, M),
         NEW w, w = MarshalResponse(r)
  PROVE  /\ Sized(w, 7 + M)
         /\ Bytes(w, 0, 4) = Put(4, r.requestId) /\ w[5] = Put(1, r.status)[1]
         /\ Bytes(w, 5, 2) = Put(2, M) /\ Bytes(w, 7, M) = r.message
<1> DEFINE id == Put(4, r.requestId)
           st == Put(1, r.status)
           size == Put(2, M)
           m == r.message
<1>1. M \in Nat /\ M = Len(m)
  BY DEF Sized
<1>2. Sized(id, 4) /\ Sized(st, 1) /\ Sized(size, 2) /\ Sized(m, M)
  BY <1>1, PutSized
<1>3. w = ((id \o st) \o size) \o m
  BY <1>1, Zenon DEF MarshalResponse
<1> HIDE DEF id, st, size, m
<1>4. PICK p2, p3, v, z :
        Joined(p2, id, st) /\ Joined(p3, p2, size) /\ Joined(v, p3, m) /\ v = w
        /\ Joined(z, v, << >>)
  BY <1>3 DEF Joined
<1>5. Sized(p2, 5)
  <2>1. 4 + 1 = 5
    OBVIOUS
  <2> QED BY <1>2, <1>4, <2>1, JoinedSize
<1>6. Sized(p3, 7)
  <2>1. 5 + 2 = 7
    OBVIOUS
  <2> QED BY <1>2, <1>4, <1>5, <2>1, JoinedSize
<1>7. Sized(v, 7 + M) /\ Sized(<< >>, 0)
  <2>1. Sized(<< >>, 0)
    BY DEF Sized
  <2> QED BY <1>2, <1>4, <1>6, <2>1, JoinedSize
<1>8. z = v
  BY <1>4, <1>7, ConcatEmptySeq DEF Sized, Joined
<1>9. Bytes(v, 7, M) = m
  <2>1. Bytes(z, 7, M) = m
    BY <1>2, <1>4, <1>6, <1>7, Part
  <2> QED BY <1>8, <2>1
<1>10. Bytes(v, 5, 2) = size /\ \E u, U : Joined(v, p2, u) /\ Sized(u, U)
  BY <1>2, <1>4, <1>5, Part
<1>11. v[5] = st[1] /\ \E u, U : Joined(v, id, u) /\ Sized(u, U)
  <2>1. 4 + 1 = 5 /\ 1 > 0
    OBVIOUS
  <2> QED BY <1>2, <1>4, <1>10, <2>1, Part
<1>12. Bytes(v, 0, 4) = id
  BY <1>2, <1>11, InFront
<1> QED BY <1>4, <1>7, <1>9, <1>10, <1>11, <1>12 DEF id, st, size, m

(* What a client makes of an answer that may not fit its buffer.           *)
THEOREM ClientReads ==
  ASSUME NEW r \in [requestId : Nat, status : {0, 1}, message : Seq(Byte)],
         r.requestId < Power[4], Len(r.message) < Power[2] \div 2,
         NEW b, b = Received(MarshalResponse(r)), NEW c
  PROVE  /\ MarshalResponse(r) \in Seq(Byte)
         /\ Len(b) >= 7
         /\ ReadableResponse(b, Length(c, Bytes(b, 5, 2))) <=> 7 + Len(r.message) <= BufferSize
         /\ 7 + Len(r.message) <= BufferSize => UnmarshalResponse(b) = r
<1> DEFINE M == Len(r.message)
           W == 7 + M
<1>1. /\ r.requestId \in Nat /\ r.requestId \in Int /\ r.status \in Nat /\ r.status \in Int
      /\ r.status < Base /\ M \in Nat /\ M \in Int
      /\ r = [requestId |-> r.requestId, status |-> r.status, message |-> r.message]
  BY LenProperties, Bases
<1>2. Sized(r.message, M)
  BY LenProperties DEF Sized
<1>3. M < Power[2] \div 2
  OBVIOUS
<1> HIDE DEF M
<1>4. M < Power[2] /\ Power[2] \in Nat
  BY <1>1, <1>3, Room
<1>5. PICK w : w = MarshalResponse(r)
  OBVIOUS
<1>6. /\ Sized(w, W) /\ W \in Nat
      /\ Bytes(w, 0, 4) = Put(4, r.requestId) /\ w[5] = Put(1, r.status)[1]
      /\ Bytes(w, 5, 2) = Put(2, M) /\ Bytes(w, 7, M) = r.message
  BY <1>1, <1>2, <1>5, ResponseParts
<1>7. /\ W <= BufferSize => Received(w) = w
      /\ W > BufferSize => Sized(Received(w), BufferSize)
      /\ Bytes(Received(w), 5, 2) = Bytes(w, 5, 2)
  <2>1. /\ 5 + 2 <= BufferSize /\ 5 + 2 <= W /\ 5 \in Nat /\ 2 \in Nat /\ 2 > 0
    BY <1>1, Room
  <2> QED BY <1>6, <2>1, ReceivedPart
<1>8. Length(c, Bytes(b, 5, 2)) = M
  <2>1. M % Power[2] = M
    BY <1>1, <1>4, SmallRemainder
  <2>2. Unsigned(Put(2, M)) = M
    BY <1>1, <2>1, RoundTrip
  <2>3. Signed(Put(2, M)) = M
    BY <1>1, <1>3, SignedRoundTrip, Room
  <2> QED BY <1>5, <1>6, <1>7, <2>2, <2>3 DEF Length
<1>9. w \in Seq(Byte) /\ Len(w) = W
  BY <1>6 DEF Sized
<1>10. CASE W <= BufferSize
  <2>1. b = w
    BY <1>5, <1>7, <1>10
  <2>2. ReadableResponse(b, M)
    BY <1>1, <1>9, <2>1 DEF ReadableResponse
  <2>3. Unsigned(Bytes(w, 0, 4)) = r.requestId
    <3>1. r.requestId % Power[4] = r.requestId
      BY <1>1, SmallRemainder, Bases
    <3> QED BY <1>1, <1>6, <3>1, RoundTrip
  <2>4. w[5] = r.status
    <3>1. r.status % Base = r.status
      BY <1>1, SmallRemainder, Bases
    <3>2. Put(1, r.status) = <<r.status % Base>>
      BY <1>1, Digits
    <3> QED BY <1>6, <3>1, <3>2
  <2>5. Unsigned(Bytes(w, 5, 2)) = M
    <3>1. M % Power[2] = M
      BY <1>1, <1>4, SmallRemainder
    <3> QED BY <1>1, <1>6, <3>1, RoundTrip
  <2>6. UnmarshalResponse(w) =
          [requestId |-> r.requestId, status |-> r.status, message |-> r.message]
    BY <1>6, <2>3, <2>4, <2>5 DEF UnmarshalResponse
  <2>7. UnmarshalResponse(b) = r
    BY <1>1, <2>1, <2>6
  <2> QED BY <1>1, <1>5, <1>8, <1>9, <1>10, <2>1, <2>2, <2>7 DEF M
<1>11. CASE W > BufferSize
  <2>1. Len(b) = BufferSize
    BY <1>5, <1>7, <1>11 DEF Sized
  <2>2. ~ReadableResponse(b, M)
    BY <1>1, <1>11, <2>1, Room DEF ReadableResponse
  <2> QED BY <1>1, <1>5, <1>8, <1>9, <1>11, <2>1, <2>2, Room DEF M
<1> QED BY <1>1, <1>10, <1>11, Room

-----------------------------------------------------------------------------
(* The invariant. At any time a client has one request, and that request   *)
(* or its answer is in one place: on its way to the server, in the buffer  *)
(* of a receive that is completed, or on its way back.                     *)

(* A sequence, of whatever its elements are.                               *)
IsSequence(s) == s \in Seq({s[n] : n \in DOMAIN s})

(* The request a client made last, and its datagram.                       *)
Latest(c) == asked[c][Len(asked[c])]

Packet(c) == Packed(c, Latest(c))

(* Entry i of acted is about the latest request of c.                      *)
Acted(i, c) == acted[i].from = c /\ acted[i].request.requestId = Len(asked[c])

(* The server has acted on the latest request of c.                        *)
Handled(c) == \E i \in DOMAIN acted : Acted(i, c)

(* A receive has completed with a datagram that is not empty.              *)
Arrived == completions # << >> /\ ~Head(completions).error /\ Head(completions).size > 0

(* What a client asked, and how many answers it has shown.                 *)
AskInv ==
  /\ asked \in [Clients -> Seq(Request)]
  /\ phase \in [Clients -> {"menu", "waiting", "ended"}]
  /\ DOMAIN shown = Clients
  /\ \A c \in Clients :
       /\ IsSequence(shown[c])
       /\ Len(asked[c]) <= Len(Choices[c])
       /\ Len(shown[c]) = IF phase[c] = "menu" THEN Len(asked[c]) ELSE Len(asked[c]) - 1
       /\ \A n \in DOMAIN asked[c] :
            asked[c][n].requestId = n /\ (c \in Testers \/ Complete(asked[c][n]))

(* The loop: one receive is pending, or completed and not yet handled.     *)
LoopInv ==
  /\ completions \in Seq([error : BOOLEAN, size : Nat]) /\ Len(completions) <= 1
  /\ running \in BOOLEAN /\ open \in BOOLEAN
  /\ running => receiving = (completions = << >>)
  /\ recvBuffer \in Seq(Byte) /\ Len(recvBuffer) <= BufferSize

(* A client waits for an answer to a request that was not acted on yet.    *)
Pending(c) == c \in Clients /\ phase[c] = "waiting" /\ ~Handled(c)

(* A datagram that is not empty, on its way or received, holds the latest  *)
(* request of a client that waits, and that client has no other.           *)
WayInv ==
  /\ \A d \in toServer :
       /\ d = [from |-> d.from, bytes |-> d.bytes]
       /\ d.bytes = << >> \/ (Pending(d.from) /\ d.bytes = Packet(d.from))
  /\ Arrived => \E c \in Clients :
       /\ remote = c /\ Pending(c)
       /\ SubSeq(recvBuffer, 1, Head(completions).size) = Received(Packet(c))
       /\ \A d \in toServer : d.bytes # << >> => d.from # c

(* An answer on its way is the only one, to a request the server acted on. *)
AnswerInv ==
  /\ \A d \in toClients :
       /\ d = [to |-> d.to, bytes |-> d.bytes] /\ d.bytes \in Seq(Byte)
       /\ d.to \in Clients /\ phase[d.to] = "waiting"
       /\ \E i \in DOMAIN acted :
            Acted(i, d.to) /\ (acted[i].lost \/ d.bytes = MarshalResponse(acted[i].response))
  /\ \A s \in sending :
       /\ s = [to |-> s.to, size |-> s.size] /\ s.size \in Nat
       /\ s.to \in Clients /\ phase[s.to] = "waiting"
       /\ \E i \in DOMAIN acted : Acted(i, s.to) /\ acted[i].lost
  /\ \A d, e \in toClients : d.to = e.to => d = e
  /\ \A s, t \in sending : s.to = t.to => s = t
  /\ \A d \in toClients, s \in sending : d.to # s.to

(* What the server sends.                                                  *)
Response == [requestId : Nat, status : {0, 1}, message : Seq(Byte)]

(* The answers that were composed.                                         *)
ActedOK(a) ==
  /\ a.from \in Clients
  /\ a.request.requestId \in DOMAIN asked[a.from]
  /\ a.response \in Response /\ a.response.requestId = a.request.requestId
  /\ Len(a.response.message) < Power[2] \div 2
  /\ \/ 7 + Len(a.response.message) <= BufferSize
     \/ Len(a.response.message) <=
          Len(NotFound(<< >>)) + Len(asked[a.from][a.request.requestId].facilityName)

(* Each answer that was composed.                                          *)
ActedInv == IsSequence(acted) /\ \A i \in DOMAIN acted : ActedOK(acted[i])

(* The inductive invariant.                                                *)
IInv ==
  /\ AskInv /\ LoopInv /\ WayInv /\ AnswerInv /\ ActedInv
  /\ ActsAsAsked /\ StaysUp /\ ShowsItsAnswer /\ ClientLives

(* Append, to a sequence of whatever its elements are.                     *)
LEMMA SequenceFacts ==
  ASSUME NEW s, IsSequence(s)
  PROVE  /\ Len(s) \in Nat /\ DOMAIN s = 1..Len(s)
         /\ \A e : /\ IsSequence(Append(s, e)) /\ Len(Append(s, e)) = Len(s) + 1
                   /\ \A n \in DOMAIN s : Append(s, e)[n] = s[n]
                   /\ Append(s, e)[Len(s) + 1] = e
                   /\ DOMAIN Append(s, e) = DOMAIN s \cup {Len(s) + 1}
<1> DEFINE S == {s[n] : n \in DOMAIN s}
<1>1. s \in Seq(S)
  BY DEF IsSequence
<1> HIDE DEF S
<1>2. Len(s) \in Nat /\ DOMAIN s = 1..Len(s)
  BY <1>1, LenProperties
<1>3. ASSUME NEW e
      PROVE  /\ IsSequence(Append(s, e)) /\ Len(Append(s, e)) = Len(s) + 1
             /\ \A n \in DOMAIN s : Append(s, e)[n] = s[n]
             /\ Append(s, e)[Len(s) + 1] = e
             /\ DOMAIN Append(s, e) = DOMAIN s \cup {Len(s) + 1}
  <2> DEFINE T == S \cup {e}
             a == Append(s, e)
  <2>1. s \in Seq(T)
    BY <1>1
  <2>2. a \in Seq(T) /\ Len(a) = Len(s) + 1 /\ (\A n \in 1..Len(s) : a[n] = s[n])
        /\ a[Len(s) + 1] = e
    <3>1. e \in T
      OBVIOUS
    <3> HIDE DEF T
    <3> QED BY <2>1, <3>1, AppendProperties
  <2> HIDE DEF T, a
  <2>3. Len(a) \in Nat /\ a \in [1..Len(a) -> T] /\ DOMAIN a = 1..Len(a)
    BY <2>2, LenProperties
  <2>4. a \in Seq({a[n] : n \in DOMAIN a})
    <3>1. a = [n \in 1..Len(a) |-> a[n]]
      BY <2>3
    <3> DEFINE R == {a[n] : n \in DOMAIN a}
    <3>2. \A n \in 1..Len(a) : a[n] \in R
      BY <2>3
    <3> HIDE DEF R
    <3>3. a \in [1..Len(a) -> R]
      BY <3>1, <3>2
    <3>4. a \in Seq(R)
      BY <2>3, <3>3, SeqDef
    <3> QED BY <3>4 DEF R
  <2>5. DOMAIN a = DOMAIN s \cup {Len(s) + 1}
    BY <1>2, <2>2, <2>3
  <2> QED BY <1>2, <2>2, <2>4, <2>5 DEF IsSequence, a
<1> QED BY <1>2, <1>3

(* The latest request of a client that waits, or has ended.                *)
LEMMA LatestOK ==
  ASSUME AskInv, NEW c \in Clients, phase[c] # "menu"
  PROVE  /\ Latest(c) \in Request /\ Latest(c).requestId = Len(asked[c])
         /\ Len(asked[c]) \in DOMAIN asked[c] /\ Len(asked[c]) \in Nat
         /\ Latest(c).requestId < Power[4]
         /\ Joined(Packet(c), Fields(Latest(c)), Extra(Latest(c)))
<1>1. asked[c] \in Seq(Request) /\ Len(asked[c]) <= Len(Choices[c])
      /\ Len(shown[c]) = Len(asked[c]) - 1 /\ IsSequence(shown[c])
      /\ \A n \in DOMAIN asked[c] :
           asked[c][n].requestId = n /\ (c \in Testers \/ Complete(asked[c][n]))
  BY DEF AskInv
<1>2. Len(asked[c]) \in Nat /\ DOMAIN asked[c] = 1..Len(asked[c]) /\ Len(shown[c]) \in Nat
  BY <1>1, LenProperties, SequenceFacts
<1>3. Len(asked[c]) \in 1..Len(asked[c])
  BY <1>1, <1>2
<1>4. Latest(c) \in Request /\ Latest(c).requestId = Len(asked[c])
      /\ (c \in Testers \/ Complete(Latest(c)))
  BY <1>1, <1>2, <1>3, ElementOfSeq DEF Latest
<1>5. Len(Choices[c]) \in Nat /\ Len(Choices[c]) < Power[4] /\ Power[4] \in Nat
  <2>1. Choices[c] \in Seq(SUBSET Request)
    BY LoopAssumption
  <2> QED BY <2>1, LenProperties, LoopAssumption, Bases
<1>6. Len(asked[c]) < Power[4]
  BY <1>1, <1>2, <1>5
<1>7. Joined(Packet(c), Fields(Latest(c)), Extra(Latest(c)))
  BY <1>4, PackedJoined DEF Packet
<1> QED BY <1>2, <1>3, <1>4, <1>6, <1>7

(* The latest request as the server receives it.                           *)
LEMMA PacketRead ==
  ASSUME AskInv, NEW c \in Clients, phase[c] # "menu", NEW b, b = Received(Packet(c))
  PROVE  /\ b \in Seq(Byte) /\ Len(b) <= BufferSize /\ Len(b) >= 12 /\ Len(b) \in Nat
         /\ Packet(c) \in Seq(Byte) /\ Packet(c) # << >>
         /\ Unsigned(Bytes(b, 0, 4)) = Len(asked[c])
         /\ Len(Latest(c).facilityName) \in 3..(BufferSize - 7) => Readable(b)
         /\ Readable(b) =>
              LET name == Bytes(b, 7, NameLength(b))
              IN  /\ name \in Seq(Byte) /\ Len(name) <= Len(Latest(c).facilityName)
                  /\ 7 + Len(name) <= BufferSize
         /\ Len(Packet(c)) <= BufferSize =>
              \A junk \in Junk : Unmarshal(b, junk) = Meant(Latest(c))
<1> DEFINE r == Latest(c)
           w == Packet(c)
<1>1. /\ r \in Request /\ r.requestId = Len(asked[c]) /\ r.requestId < Power[4]
      /\ Joined(w, Fields(r), Extra(r))
  BY LatestOK
<1> HIDE DEF r, w
<1>2. b = Received(w)
  BY DEF w
<1>3. /\ b \in Seq(Byte) /\ Len(b) <= BufferSize /\ Len(b) >= 12
      /\ Unsigned(Bytes(b, 0, 4)) = r.requestId
      /\ Len(r.facilityName) \in 3..(BufferSize - 7) => Readable(b)
      /\ Readable(b) =>
           LET name == Bytes(b, 7, NameLength(b))
           IN  /\ name \in Seq(Byte) /\ Len(name) <= Len(r.facilityName)
               /\ 7 + Len(name) <= BufferSize
      /\ Len(w) <= BufferSize => b = w
      /\ w \in Seq(Byte)
  BY <1>1, <1>2, ServerReads
<1>4. Len(b) \in Nat
  BY <1>3, LenProperties
<1>5. w # << >>
  <2>1. ASSUME w = << >> PROVE FALSE
    <3>1. Len(w) = 0
      BY <2>1
    <3>2. b = w
      BY <1>3, <3>1, Room
    <3> QED BY <1>3, <3>1, <3>2
  <2> QED BY <2>1
<1>6. ASSUME Len(w) <= BufferSize, NEW junk \in Junk PROVE Unmarshal(b, junk) = Meant(r)
  <2>1. Unmarshal(w, junk) = Meant(r)
    BY <1>1, <1>6, Unmarshals
  <2> QED BY <1>3, <1>6, <2>1
<1> QED BY <1>1, <1>3, <1>4, <1>5, <1>6 DEF r, w

(* A datagram covers the front of the buffer, and the buffer never grows.  *)
LEMMA OverOK ==
  ASSUME LoopInv, NEW data \in Seq(Byte), Len(data) <= BufferSize
  PROVE  /\ Over(data) \in Seq(Byte) /\ Len(Over(data)) <= BufferSize
         /\ SubSeq(Over(data), 1, Len(data)) = data
<1> DEFINE D == Len(data)
           R == Len(recvBuffer)
           rest == SubSeq(recvBuffer, D + 1, R)
<1>1. D \in Nat /\ R \in Nat /\ recvBuffer \in Seq(Byte) /\ R <= BufferSize /\ D <= BufferSize
  BY LenProperties DEF LoopInv
<1>2. rest \in Seq(Byte) /\ Len(rest) = IF D + 1 <= R THEN R - (D + 1) + 1 ELSE 0
  <2> HIDE DEF D
  <2>1. \A i \in (D + 1)..R : recvBuffer[i] \in Byte
    BY <1>1
  <2> HIDE DEF R
  <2>2. D + 1 \in Int /\ R \in Int
    BY <1>1
  <2> QED BY <2>1, <2>2, SubSeqProperties
<1>3. Over(data) = data \o rest
  BY DEF Over
<1> HIDE DEF rest
<1>4. Sized(data, D) /\ Sized(rest, Len(rest)) /\ Joined(Over(data), data, rest)
  BY <1>1, <1>2, <1>3, LenProperties DEF Sized, Joined
<1>5. Sized(Over(data), D + Len(rest)) /\ Bytes(Over(data), 0, D) = data
  BY <1>4, JoinedSize, InFront
<1>6. D + Len(rest) <= BufferSize
  <2> HIDE DEF D, R
  <2> QED BY <1>1, <1>2, Room
<1>7. Bytes(Over(data), 0, D) = SubSeq(Over(data), 1, D)
  <2>1. 0 + 1 = 1 /\ 0 + D = D
    BY <1>1
  <2> QED BY <2>1 DEF Bytes
<1> QED BY <1>5, <1>6, <1>7 DEF Sized

-----------------------------------------------------------------------------
(* The initial state, the network and the pending receive.                 *)

(* main and the constructors establish the invariant.                      *)
LEMMA InitIInv == Init => IInv
<1> SUFFICES ASSUME Init PROVE IInv
  OBVIOUS
<1> USE DEF Init
<1>1. AskInv
  <2>1. asked \in [Clients -> Seq(Request)]
    OBVIOUS
  <2>2. \A c \in Clients : Len(Choices[c]) \in Nat
    <3>1. Choices \in [Clients -> Seq(SUBSET Request)]
      BY LoopAssumption
    <3> QED BY <3>1, LenProperties
  <2>3. IsSequence(<< >>)
    BY DEF IsSequence
  <2> QED BY <2>1, <2>2, <2>3 DEF AskInv
<1>2. LoopInv
  <2>1. << >> \in Seq([error : BOOLEAN, size : Nat]) /\ << >> \in Seq(Byte) /\ Len(<< >>) = 0
        /\ Len(recvBuffer) = 0 /\ Len(completions) = 0
    OBVIOUS
  <2>2. Len(recvBuffer) <= BufferSize /\ Len(completions) <= 1
    BY <2>1, Room
  <2>3. receiving = (completions = << >>)
    OBVIOUS
  <2> QED BY <2>1, <2>2, <2>3 DEF LoopInv
<1>3. WayInv /\ AnswerInv
  BY DEF WayInv, AnswerInv, Arrived
<1>4. ActedInv
  BY DEF ActedInv, IsSequence
<1>5. ActsAsAsked /\ StaysUp /\ ShowsItsAnswer /\ ClientLives
  BY DEF ActsAsAsked, StaysUp, ShowsItsAnswer, ClientLives
<1> QED BY <1>1, <1>2, <1>3, <1>4, <1>5 DEF IInv

(* What neither a client nor a handler does leaves most as it is.          *)
LEMMA Quiet ==
  ASSUME IInv, UNCHANGED <<clientVars, acted>>
  PROVE  /\ AskInv' /\ ActedInv' /\ ActsAsAsked' /\ ShowsItsAnswer' /\ ClientLives'
         /\ running' = running => StaysUp'
         /\ \A c : Packet(c)' = Packet(c) /\ (Pending(c)' <=> Pending(c))
         /\ \A i, c : Acted(i, c)' <=> Acted(i, c)
<1> USE DEF IInv, clientVars
<1>1. AskInv'
  BY DEF AskInv
<1>2. ActedInv'
  BY DEF ActedInv, ActedOK
<1>3. ActsAsAsked' /\ ShowsItsAnswer' /\ ClientLives' /\ (running' = running => StaysUp')
  BY DEF ActsAsAsked, StaysUp, ShowsItsAnswer, ClientLives
<1>4. \A c : Packet(c)' = Packet(c)
  BY DEF Packet, Latest
<1>5. \A i, c : Acted(i, c)' <=> Acted(i, c)
  BY DEF Acted
<1>6. \A c : Pending(c)' <=> Pending(c)
  BY <1>5 DEF Pending, Handled
<1> QED BY <1>1, <1>2, <1>3, <1>4, <1>5, <1>6

(* A datagram without content is no request.                               *)
LEMMA StrayInv == IInv /\ Stray => IInv'
<1> SUFFICES ASSUME IInv, Stray PROVE IInv'
  OBVIOUS
<1>1. /\ UNCHANGED <<clientVars, toClients, running, open, loopVars, sending, acted>>
      /\ toServer' = toServer \cup {[from |-> "stranger", bytes |-> << >>]}
  BY DEF Stray
<1>2. LoopInv'
  BY <1>1 DEF IInv, LoopInv, loopVars
<1>3. AnswerInv'
  <2>1. \A i, c : Acted(i, c)' <=> Acted(i, c)
    BY <1>1, Quiet
  <2> QED BY <1>1, <2>1 DEF IInv, AnswerInv, clientVars
<1>4. WayInv'
  <2>1. \A c : Packet(c)' = Packet(c) /\ (Pending(c)' <=> Pending(c))
    BY <1>1, Quiet
  <2>2. completions' = completions /\ recvBuffer' = recvBuffer /\ remote' = remote
        /\ (Arrived' <=> Arrived)
    BY <1>1 DEF loopVars, Arrived
  <2>3. \A d \in toServer' : d \in toServer \/ d = [from |-> "stranger", bytes |-> << >>]
    BY <1>1
  <2>4. \A d \in toServer' :
          /\ d = [from |-> d.from, bytes |-> d.bytes]
          /\ d.bytes = << >> \/ (Pending(d.from)' /\ d.bytes = Packet(d.from)')
    BY <2>1, <2>3 DEF IInv, WayInv
  <2>5. Arrived' =>
          \E c \in Clients :
            /\ remote' = c /\ Pending(c)'
            /\ SubSeq(recvBuffer', 1, Head(completions').size) = Received(Packet(c)')
            /\ \A d \in toServer' : d.bytes # << >> => d.from # c
    BY <2>1, <2>2, <2>3 DEF IInv, WayInv
  <2> QED BY <2>1, <2>2, <2>4, <2>5 DEF WayInv
<1> QED BY <1>1, <1>2, <1>3, <1>4, Quiet DEF IInv

(* A receive moves a client's request from its datagram to the buffer.     *)
LEMMA ReceiveInv == ASSUME IInv, NEW d \in toServer, Receive(d) PROVE IInv'
<1> DEFINE data == Received(d.bytes)
           done == [error |-> FALSE, size |-> Len(data)]
<1>1. /\ UNCHANGED <<clientVars, toClients, running, open, sending, acted, idle>>
      /\ running /\ receiving /\ receiving' = FALSE
      /\ completions' = Append(completions, done)
      /\ recvBuffer' = Over(data) /\ remote' = d.from /\ toServer' = toServer \ {d}
  BY DEF Receive
<1>2. /\ d = [from |-> d.from, bytes |-> d.bytes]
      /\ d.bytes = << >> \/ (Pending(d.from) /\ d.bytes = Packet(d.from))
      /\ completions = << >>
  BY <1>1 DEF IInv, WayInv, LoopInv
<1>3. data \in Seq(Byte) /\ Len(data) <= BufferSize /\ (d.bytes = << >> => Len(data) = 0)
  <2>1. CASE d.bytes = << >>
    <3>1. Len(d.bytes) = 0 /\ << >> \in Seq(Byte)
      BY <2>1
    <3>2. data = << >>
      BY <2>1, <3>1, Room DEF Received
    <3> QED BY <3>1, <3>2, <2>1, Room
  <2>2. CASE d.bytes # << >>
    <3>1. d.from \in Clients /\ phase[d.from] # "menu" /\ AskInv
      BY <1>2, <2>2 DEF Pending, IInv
    <3> QED BY <1>2, <2>2, <3>1, PacketRead
  <2> QED BY <2>1, <2>2
<1>4. Len(data) \in Nat
  BY <1>3, LenProperties
<1> HIDE DEF data
<1>5. completions' = <<done>> /\ Head(completions') = done
  BY <1>1, <1>2
<1>6. LoopInv'
  <2>1. recvBuffer' \in Seq(Byte) /\ Len(recvBuffer') <= BufferSize
    BY <1>1, <1>3, OverOK DEF IInv
  <2>2. completions' \in Seq([error : BOOLEAN, size : Nat]) /\ Len(completions') <= 1
        /\ completions' # << >>
    BY <1>4, <1>5
  <2> QED BY <1>1, <2>1, <2>2 DEF IInv, LoopInv
<1>7. AnswerInv'
  <2>1. \A i, c : Acted(i, c)' <=> Acted(i, c)
    BY <1>1, Quiet
  <2> QED BY <1>1, <2>1 DEF IInv, AnswerInv, clientVars
<1>8. WayInv'
  <2>1. \A c : Packet(c)' = Packet(c) /\ (Pending(c)' <=> Pending(c))
    BY <1>1, Quiet
  <2>2. \A e \in toServer' :
          /\ e = [from |-> e.from, bytes |-> e.bytes]
          /\ e.bytes = << >> \/ (Pending(e.from)' /\ e.bytes = Packet(e.from)')
    BY <1>1, <2>1 DEF IInv, WayInv
  <2>3. ASSUME Arrived'
        PROVE  \E c \in Clients :
                 /\ remote' = c /\ Pending(c)'
                 /\ SubSeq(recvBuffer', 1, Head(completions').size) = Received(Packet(c)')
                 /\ \A e \in toServer' : e.bytes # << >> => e.from # c
    <3>1. Head(completions').size = Len(data) /\ Len(data) > 0
      BY <1>5, <2>3 DEF Arrived
    <3>2. d.bytes # << >> /\ Pending(d.from) /\ d.bytes = Packet(d.from) /\ d.from \in Clients
      BY <1>2, <1>3, <3>1 DEF Pending
    <3>3. SubSeq(recvBuffer', 1, Head(completions').size) = Received(Packet(d.from)')
      <4>1. SubSeq(recvBuffer', 1, Len(data)) = data
        BY <1>1, <1>3, OverOK DEF IInv
      <4>2. data = Received(Packet(d.from)')
        BY <2>1, <3>2 DEF data
      <4> QED BY <3>1, <4>1, <4>2
    <3>4. \A e \in toServer' : e.bytes # << >> => e.from # d.from
      BY <1>1, <1>2, <3>2 DEF IInv, WayInv
    <3> QED BY <1>1, <2>1, <3>2, <3>3, <3>4
  <2> QED BY <2>2, <2>3 DEF WayInv
<1> QED BY <1>1, <1>6, <1>7, <1>8, Quiet DEF IInv

(* A receive that fails leaves no request to handle.                       *)
LEMMA ReceiveFailsInv == IInv /\ ReceiveFails => IInv'
<1> SUFFICES ASSUME IInv, ReceiveFails PROVE IInv'
  OBVIOUS
<1> DEFINE done == [error |-> TRUE, size |-> 0]
<1>1. /\ UNCHANGED <<clientVars, toServer, toClients, running, open, recvBuffer, remote, sending,
                     acted>>
      /\ running /\ receiving /\ receiving' = FALSE
      /\ completions' = Append(completions, done)
  BY DEF ReceiveFails
<1>2. completions = << >>
  BY <1>1 DEF IInv, LoopInv
<1>3. completions' = <<done>> /\ Head(completions') = done
  BY <1>1, <1>2
<1>4. LoopInv'
  <2>1. completions' \in Seq([error : BOOLEAN, size : Nat]) /\ Len(completions') <= 1
        /\ completions' # << >>
    BY <1>3
  <2> QED BY <1>1, <2>1 DEF IInv, LoopInv
<1>5. AnswerInv'
  <2>1. \A i, c : Acted(i, c)' <=> Acted(i, c)
    BY <1>1, Quiet
  <2> QED BY <1>1, <2>1 DEF IInv, AnswerInv, clientVars
<1>6. WayInv'
  <2>1. \A c : Packet(c)' = Packet(c) /\ (Pending(c)' <=> Pending(c))
    BY <1>1, Quiet
  <2>2. \A e \in toServer' :
          /\ e = [from |-> e.from, bytes |-> e.bytes]
          /\ e.bytes = << >> \/ (Pending(e.from)' /\ e.bytes = Packet(e.from)')
    BY <1>1, <2>1 DEF IInv, WayInv
  <2>3. ~Arrived'
    BY <1>3 DEF Arrived
  <2> QED BY <2>2, <2>3 DEF WayInv
<1> QED BY <1>1, <1>4, <1>5, <1>6, Quiet DEF IInv

(* A step that touches neither clients, nor the loop, nor what is sent to  *)
(* the server.                                                             *)
LEMMA WayKept ==
  ASSUME IInv, UNCHANGED <<clientVars, acted, running, toServer, loopVars>>
  PROVE  WayInv'
<1>1. \A c : Packet(c)' = Packet(c) /\ (Pending(c)' <=> Pending(c))
  BY Quiet
<1>2. Arrived' <=> Arrived
  BY DEF Arrived, loopVars
<1>3. \A e \in toServer' :
        /\ e = [from |-> e.from, bytes |-> e.bytes]
        /\ e.bytes = << >> \/ (Pending(e.from)' /\ e.bytes = Packet(e.from)')
  BY <1>1 DEF IInv, WayInv
<1>4. Arrived' => \E c \in Clients :
        /\ remote' = c /\ Pending(c)'
        /\ SubSeq(recvBuffer', 1, Head(completions').size) = Received(Packet(c)')
        /\ \A e \in toServer' : e.bytes # << >> => e.from # c
  <2>1. completions' = completions /\ recvBuffer' = recvBuffer /\ remote' = remote
        /\ toServer' = toServer
    BY DEF loopVars
  <2> QED BY <1>1, <1>2, <2>1 DEF IInv, WayInv
<1> QED BY <1>3, <1>4 DEF WayInv

(* stop drops only answers that had no room.                               *)
LEMMA StopInv == IInv /\ Stop => IInv'
<1> SUFFICES ASSUME IInv, Stop PROVE IInv'
  OBVIOUS
<1>1. /\ UNCHANGED <<clientVars, toServer, toClients, running, loopVars, acted>>
      /\ open' = FALSE /\ sending' = {}
  BY DEF Stop
<1>2. LoopInv'
  BY <1>1 DEF IInv, LoopInv, loopVars
<1>3. AnswerInv'
  <2>1. \A i, c : Acted(i, c)' <=> Acted(i, c)
    BY <1>1, Quiet
  <2> QED BY <1>1, <2>1 DEF IInv, AnswerInv, clientVars
<1>4. WayInv'
  BY <1>1, WayKept
<1> QED BY <1>1, <1>2, <1>3, <1>4, Quiet DEF IInv

(* A send that is finished late answers a request that lost its string.    *)
LEMMA SendLateInv ==
  ASSUME IInv, NEW s \in sending, NEW junk \in Junk, SendLate(s, junk) PROVE IInv'
<1> DEFINE bytes == [i \in 1..s.size |-> junk[1]]
           late == [to |-> s.to, bytes |-> bytes]
<1>1. /\ UNCHANGED <<clientVars, toServer, running, open, loopVars, acted>>
      /\ sending' = sending \ {s} /\ toClients' = toClients \cup {late}
  BY DEF SendLate
<1>2. LoopInv'
  BY <1>1 DEF IInv, LoopInv, loopVars
<1>3. bytes \in Seq(Byte)
  <2>1. junk \in Seq(Byte) /\ Len(junk) = 5 /\ s.size \in Nat
    BY LoopAssumption DEF IInv, AnswerInv
  <2>2. junk[1] \in Byte
    BY <2>1
  <2>3. bytes \in [1..s.size -> Byte]
    BY <2>2
  <2> HIDE DEF bytes
  <2> QED BY <2>1, <2>3, SeqDef
<1> HIDE DEF bytes
<1>4. AnswerInv'
  <2>1. \A i, c : Acted(i, c)' <=> Acted(i, c)
    BY <1>1, Quiet
  <2>2. acted' = acted /\ phase' = phase
    BY <1>1 DEF clientVars
  <2>3. /\ s = [to |-> s.to, size |-> s.size] /\ s.to \in Clients /\ phase[s.to] = "waiting"
        /\ \E i \in DOMAIN acted : Acted(i, s.to) /\ acted[i].lost
    BY DEF IInv, AnswerInv
  <2>4. late = [to |-> late.to, bytes |-> late.bytes] /\ late.to = s.to /\ late.bytes = bytes
    OBVIOUS
  <2> HIDE DEF late
  <2>5. \A d \in toClients' :
          /\ d = [to |-> d.to, bytes |-> d.bytes] /\ d.bytes \in Seq(Byte)
          /\ d.to \in Clients /\ phase'[d.to] = "waiting"
          /\ \E i \in DOMAIN acted' : Acted(i, d.to)'
               /\ (acted'[i].lost \/ d.bytes = MarshalResponse(acted'[i].response))
    <3>1. ASSUME NEW d \in toClients
          PROVE  /\ d = [to |-> d.to, bytes |-> d.bytes] /\ d.bytes \in Seq(Byte)
                 /\ d.to \in Clients /\ phase'[d.to] = "waiting"
                 /\ \E i \in DOMAIN acted' : Acted(i, d.to)'
                      /\ (acted'[i].lost \/ d.bytes = MarshalResponse(acted'[i].response))
      BY <2>1, <2>2 DEF IInv, AnswerInv
    <3>2. /\ late = [to |-> late.to, bytes |-> late.bytes] /\ late.bytes \in Seq(Byte)
          /\ late.to \in Clients /\ phase'[late.to] = "waiting"
          /\ \E i \in DOMAIN acted' : Acted(i, late.to)'
               /\ (acted'[i].lost \/ late.bytes = MarshalResponse(acted'[i].response))
      BY <1>3, <2>1, <2>2, <2>3, <2>4
    <3> QED BY <1>1, <3>1, <3>2
  <2>6. \A t \in sending' :
          /\ t = [to |-> t.to, size |-> t.size] /\ t.size \in Nat
          /\ t.to \in Clients /\ phase'[t.to] = "waiting"
          /\ \E i \in DOMAIN acted' : Acted(i, t.to)' /\ acted'[i].lost
    BY <1>1, <2>1, <2>2 DEF IInv, AnswerInv
  <2>7. \A d, e \in toClients' : d.to = e.to => d = e
    BY <1>1, <2>4 DEF IInv, AnswerInv
  <2>8. \A t, u \in sending' : t.to = u.to => t = u
    BY <1>1 DEF IInv, AnswerInv
  <2>9. \A d \in toClients', t \in sending' : d.to # t.to
    BY <1>1, <2>4 DEF IInv, AnswerInv
  <2> QED BY <2>5, <2>6, <2>7, <2>8, <2>9 DEF AnswerInv
<1>5. WayInv'
  BY <1>1, WayKept
<1> QED BY <1>1, <1>2, <1>4, <1>5, Quiet DEF IInv

-----------------------------------------------------------------------------
(* The clients.                                                            *)

(* What a user asks for next is a request with the next ID.                *)
LEMMA AskedNext ==
  ASSUME IInv, NEW c \in Clients, Ask(c)
  PROVE  \E r \in Request :
           /\ r.requestId = Len(asked[c]) + 1 /\ (c \in Testers \/ Complete(r))
           /\ Len(asked[c]) + 1 <= Len(Choices[c])
           /\ asked' = [asked EXCEPT ![c] = Append(@, r)]
           /\ toServer' = toServer \cup {[from |-> c, bytes |-> Packed(c, r)]}
<1> DEFINE id == Len(asked[c]) + 1
           R(choice) == [choice EXCEPT !.requestId = id]
<1>1. id \in Nat \ {0}
  <2>1. asked[c] \in Seq(Request)
    BY DEF IInv, AskInv
  <2> QED BY <2>1, LenProperties
<1>2. Choices[c] \in Seq(SUBSET Request) /\ Len(Choices[c]) \in Nat /\ id <= Len(Choices[c])
  <2>1. Choices[c] \in Seq(SUBSET Request)
    BY LoopAssumption
  <2> QED BY <2>1, LenProperties DEF Ask
<1>3. PICK choice \in Choices[c][id] :
        /\ asked' = [asked EXCEPT ![c] = Append(@, R(choice))]
        /\ toServer' = toServer \cup {[from |-> c, bytes |-> Packed(c, R(choice))]}
  BY DEF Ask
<1>4. id \in DOMAIN Choices[c]
  BY <1>1, <1>2
<1>5. Choices[c][id] \in SUBSET Request
  BY <1>2, <1>4, ElementOfSeq
<1>6. choice \in Request /\ (c \in Testers \/ Complete(choice))
  BY <1>4, <1>5, LoopAssumption
<1>7. R(choice) \in Request /\ R(choice).requestId = id
      /\ (Complete(choice) => Complete(R(choice)))
  <2> HIDE DEF id
  <2> QED BY <1>1, <1>6 DEF Request, Complete
<1> QED BY <1>2, <1>3, <1>6, <1>7

(* A client asks.                                                          *)
LEMMA AskStep == ASSUME IInv, NEW c \in Clients, Ask(c) PROVE IInv'
<1>1. PICK r \in Request :
        /\ r.requestId = Len(asked[c]) + 1 /\ (c \in Testers \/ Complete(r))
        /\ Len(asked[c]) + 1 <= Len(Choices[c])
        /\ asked' = [asked EXCEPT ![c] = Append(@, r)]
        /\ toServer' = toServer \cup {[from |-> c, bytes |-> Packed(c, r)]}
  BY AskedNext
<1>2. /\ phase[c] = "menu" /\ phase' = [phase EXCEPT ![c] = "waiting"]
      /\ UNCHANGED <<shown, toClients, running, open, loopVars, sending, acted, idle>>
  BY DEF Ask
<1>3. /\ asked \in [Clients -> Seq(Request)]
      /\ phase \in [Clients -> {"menu", "waiting", "ended"}]
      /\ asked[c] \in Seq(Request) /\ Len(asked[c]) \in Nat
      /\ DOMAIN asked[c] = 1..Len(asked[c])
  <2>1. asked \in [Clients -> Seq(Request)] /\ phase \in [Clients -> {"menu", "waiting", "ended"}]
    BY DEF IInv, AskInv
  <2> QED BY <2>1, LenProperties
<1>4. /\ asked'[c] \in Seq(Request) /\ Len(asked'[c]) = Len(asked[c]) + 1
      /\ DOMAIN asked'[c] = DOMAIN asked[c] \cup {Len(asked[c]) + 1}
      /\ asked'[c][Len(asked[c]) + 1] = r
      /\ \A n \in DOMAIN asked[c] : asked'[c][n] = asked[c][n]
  <2>1. asked'[c] = Append(asked[c], r)
    BY <1>1, <1>3
  <2>2. DOMAIN asked'[c] = 1..(Len(asked[c]) + 1)
    BY <1>3, <2>1, AppendProperties, LenProperties
  <2> QED BY <1>3, <2>1, <2>2, AppendProperties
<1>5. /\ \A e \in Clients : e # c => asked'[e] = asked[e] /\ phase'[e] = phase[e]
      /\ phase'[c] = "waiting"
  BY <1>1, <1>2, <1>3
<1>6. /\ asked' \in [Clients -> Seq(Request)]
      /\ phase' \in [Clients -> {"menu", "waiting", "ended"}]
  BY <1>1, <1>2, <1>3, <1>4
<1>7. \A e \in Clients : \A n \in DOMAIN asked[e] :
        n \in DOMAIN asked'[e] /\ asked'[e][n] = asked[e][n]
  BY <1>4, <1>5
<1>8. AskInv'
  <2>1. ASSUME NEW e \in Clients
        PROVE  /\ IsSequence(shown'[e]) /\ Len(asked'[e]) <= Len(Choices[e])
               /\ Len(shown'[e]) = IF phase'[e] = "menu" THEN Len(asked'[e])
                                                        ELSE Len(asked'[e]) - 1
               /\ \A n \in DOMAIN asked'[e] :
                    asked'[e][n].requestId = n /\ (e \in Testers \/ Complete(asked'[e][n]))
    <3>1. CASE e = c
      <4>1. IsSequence(shown'[c]) /\ Len(asked'[c]) <= Len(Choices[c])
        BY <1>1, <1>2, <1>4 DEF IInv, AskInv
      <4>2. Len(shown'[c]) = Len(asked'[c]) - 1
        <5>1. Len(shown'[c]) = Len(asked[c])
          BY <1>2 DEF IInv, AskInv
        <5> QED BY <1>3, <1>4, <5>1
      <4>3. \A n \in DOMAIN asked[c] :
              asked[c][n].requestId = n /\ (c \in Testers \/ Complete(asked[c][n]))
        BY DEF IInv, AskInv
      <4>4. \A n \in DOMAIN asked'[c] :
              asked'[c][n].requestId = n /\ (c \in Testers \/ Complete(asked'[c][n]))
        BY <1>1, <1>4, <4>3
      <4> QED BY <1>5, <3>1, <4>1, <4>2, <4>4
    <3>2. CASE e # c
      BY <1>2, <1>5, <3>2 DEF IInv, AskInv
    <3> QED BY <3>1, <3>2
  <2>2. DOMAIN shown' = Clients
    BY <1>2 DEF IInv, AskInv
  <2> QED BY <1>6, <2>1, <2>2 DEF AskInv
<1>9. LoopInv'
  BY <1>2 DEF IInv, LoopInv, loopVars
<1>10. \A i, e : e \in Clients /\ e # c => (Acted(i, e)' <=> Acted(i, e))
  BY <1>2, <1>5 DEF Acted
<1>11. \A i \in DOMAIN acted : ~Acted(i, c)'
  <2>1. \A i \in DOMAIN acted : acted[i].request.requestId \in DOMAIN asked[acted[i].from]
    BY DEF IInv, ActedInv, ActedOK
  <2> QED BY <1>2, <1>3, <1>4, <2>1 DEF Acted
<1>12. /\ \A e \in Clients : e # c => Packet(e)' = Packet(e) /\ (Pending(e)' <=> Pending(e))
       /\ Packet(c)' = Packed(c, r) /\ Pending(c)' /\ ~Pending(c)
  <2>1. \A e \in Clients : e # c => Packet(e)' = Packet(e)
    BY <1>5 DEF Packet, Latest
  <2>2. \A e \in Clients : e # c => (Pending(e)' <=> Pending(e))
    BY <1>2, <1>5, <1>10 DEF Pending, Handled
  <2>3. Packet(c)' = Packed(c, r)
    BY <1>4 DEF Packet, Latest
  <2>4. Pending(c)'
    BY <1>2, <1>5, <1>11 DEF Pending, Handled
  <2>5. ~Pending(c)
    BY <1>2 DEF Pending
  <2> QED BY <2>1, <2>2, <2>3, <2>4, <2>5
<1>13. WayInv'
  <2> DEFINE new == [from |-> c, bytes |-> Packed(c, r)]
  <2>1. \A d \in toServer' : d \in toServer \/ d = new
    BY <1>1
  <2>2. ASSUME NEW d \in toServer
        PROVE  /\ d = [from |-> d.from, bytes |-> d.bytes]
               /\ d.bytes = << >> \/ (Pending(d.from)' /\ d.bytes = Packet(d.from)')
    <3>1. /\ d = [from |-> d.from, bytes |-> d.bytes]
          /\ d.bytes = << >> \/ (Pending(d.from) /\ d.bytes = Packet(d.from))
      BY DEF IInv, WayInv
    <3>2. Pending(d.from) => d.from \in Clients /\ d.from # c
      BY <1>12 DEF Pending
    <3> QED BY <1>12, <3>1, <3>2
  <2>3. new = [from |-> new.from, bytes |-> new.bytes] /\ Pending(new.from)'
        /\ new.bytes = Packet(new.from)' /\ new.from = c
    BY <1>12
  <2> HIDE DEF new
  <2>4. Arrived' =>
          \E e \in Clients :
            /\ remote' = e /\ Pending(e)'
            /\ SubSeq(recvBuffer', 1, Head(completions').size) = Received(Packet(e)')
            /\ \A d \in toServer' : d.bytes # << >> => d.from # e
    <3>1. completions' = completions /\ recvBuffer' = recvBuffer /\ remote' = remote
      BY <1>2 DEF loopVars
    <3> SUFFICES ASSUME Arrived'
                 PROVE  \E e \in Clients :
                          /\ remote' = e /\ Pending(e)'
                          /\ SubSeq(recvBuffer', 1, Head(completions').size) = Received(Packet(e)')
                          /\ \A d \in toServer' : d.bytes # << >> => d.from # e
      OBVIOUS
    <3>2. Arrived
      BY <3>1 DEF Arrived
    <3>3. PICK e \in Clients :
            /\ remote = e /\ Pending(e)
            /\ SubSeq(recvBuffer, 1, Head(completions).size) = Received(Packet(e))
            /\ \A d \in toServer : d.bytes # << >> => d.from # e
      BY <3>2 DEF IInv, WayInv
    <3>4. e # c
      BY <1>12, <3>3
    <3> QED BY <1>12, <2>1, <2>3, <3>1, <3>3, <3>4
  <2> QED BY <2>1, <2>2, <2>3, <2>4 DEF WayInv
<1>14. AnswerInv'
  <2>1. toClients' = toClients /\ sending' = sending /\ acted' = acted
    BY <1>2
  <2>2. \A d \in toClients : d.to \in Clients /\ d.to # c
    BY <1>2 DEF IInv, AnswerInv
  <2>3. \A s \in sending : s.to \in Clients /\ s.to # c
    BY <1>2 DEF IInv, AnswerInv
  <2> QED BY <1>5, <1>10, <2>1, <2>2, <2>3 DEF IInv, AnswerInv
<1>15. \A i \in DOMAIN acted :
         /\ acted[i].from \in Clients
         /\ acted[i].request.requestId \in DOMAIN asked[acted[i].from]
  BY DEF IInv, ActedInv, ActedOK
<1>16. ActedInv' /\ ActsAsAsked'
  <2>1. acted' = acted
    BY <1>2
  <2>2. ASSUME NEW i \in DOMAIN acted PROVE ActedOK(acted[i])'
    BY <1>7, <1>15, <2>1 DEF IInv, ActedInv, ActedOK
  <2>3. ActsAsAsked'
    BY <1>7, <1>15, <2>1 DEF IInv, ActsAsAsked
  <2> QED BY <2>1, <2>2, <2>3 DEF IInv, ActedInv
<1>17. StaysUp'
  BY <1>2, <1>7 DEF IInv, StaysUp
<1>18. ShowsItsAnswer' /\ ClientLives'
  BY <1>2, <1>5 DEF IInv, ShowsItsAnswer, ClientLives
<1> QED BY <1>8, <1>9, <1>13, <1>14, <1>16, <1>17, <1>18 DEF IInv

(* The answer a client reads is the one the server composed for its latest *)
(* request, or one there was no room for.                                  *)
LEMMA AnswerRead ==
  ASSUME IInv, NEW d \in toClients
  PROVE  LET buffer == Received(d.bytes)
             readable == /\ Len(buffer) >= 7
                         /\ ReadableResponse(buffer, Length(d.to, Bytes(buffer, 5, 2)))
         IN  \E i \in DOMAIN acted :
               /\ Acted(i, d.to)
               /\ \/ acted[i].lost
                  \/ readable /\ UnmarshalResponse(buffer) = acted[i].response
                  \/ /\ ~readable
                     /\ Len(Latest(d.to).facilityName) + Len(NotFound(<< >>)) + 7 > BufferSize
<1> DEFINE buffer == Received(d.bytes)
           readable == /\ Len(buffer) >= 7
                       /\ ReadableResponse(buffer, Length(d.to, Bytes(buffer, 5, 2)))
<1>1. PICK i \in DOMAIN acted :
        Acted(i, d.to) /\ (acted[i].lost \/ d.bytes = MarshalResponse(acted[i].response))
  BY DEF IInv, AnswerInv
<1> SUFFICES ASSUME d.bytes = MarshalResponse(acted[i].response)
             PROVE  \/ readable /\ UnmarshalResponse(buffer) = acted[i].response
                    \/ /\ ~readable
                       /\ Len(Latest(d.to).facilityName) + Len(NotFound(<< >>)) + 7 > BufferSize
  BY <1>1
<1> DEFINE answer == acted[i].response
           M == Len(answer.message)
           name == Latest(d.to).facilityName
<1>2. /\ acted[i].from = d.to /\ acted[i].request.requestId = Len(asked[d.to])
      /\ ActedOK(acted[i]) /\ d.to \in Clients /\ phase[d.to] # "menu" /\ AskInv
  BY <1>1 DEF IInv, AnswerInv, ActedInv, Acted
<1>3. /\ answer \in Response /\ answer.requestId = Len(asked[d.to])
      /\ M < Power[2] \div 2
      /\ 7 + M <= BufferSize \/ M <= Len(NotFound(<< >>)) + Len(name)
  BY <1>2 DEF ActedOK, Latest
<1>4. Len(asked[d.to]) < Power[4] /\ Latest(d.to) \in Request
  BY <1>2, LatestOK
<1> HIDE DEF answer, readable
<1>5. /\ Len(buffer) >= 7
      /\ ReadableResponse(buffer, Length(d.to, Bytes(buffer, 5, 2))) <=> 7 + M <= BufferSize
      /\ 7 + M <= BufferSize => UnmarshalResponse(buffer) = answer
  <2>1. buffer = Received(MarshalResponse(answer))
    BY DEF answer
  <2> HIDE DEF buffer
  <2>2. answer \in [requestId : Nat, status : {0, 1}, message : Seq(Byte)]
        /\ answer.requestId < Power[4]
    BY <1>3, <1>4 DEF Response
  <2> QED BY <1>3, <2>1, <2>2, ClientReads
<1>6. readable <=> 7 + M <= BufferSize
  BY <1>5 DEF readable
<1>7. M \in Nat /\ Len(name) \in Nat /\ Len(NotFound(<< >>)) \in Nat /\ BufferSize \in Nat
  <2>1. answer.message \in Seq(Byte)
    BY <1>3 DEF Response
  <2>2. name \in Seq(Byte)
    BY <1>4, RequestTypes
  <2> QED BY <2>1, <2>2, LenProperties, NotFoundSize, Room
<1> HIDE DEF M, name, buffer
<1>8. 7 + M > BufferSize => Len(name) + Len(NotFound(<< >>)) + 7 > BufferSize
  BY <1>3, <1>7
<1>9. 7 + M <= BufferSize \/ 7 + M > BufferSize
  BY <1>7
<1> QED BY <1>5, <1>6, <1>8, <1>9, <1>7 DEF answer, name

(* A client shows an answer, or ends.                                      *)
LEMMA ShowAnswerStep ==
  ASSUME IInv, NEW c \in Clients, NEW d \in toClients, ShowAnswer(c, d)
  PROVE  IInv'
<1> DEFINE buffer == Received(d.bytes)
           readable == /\ Len(buffer) >= 7
                       /\ ReadableResponse(buffer, Length(d.to, Bytes(buffer, 5, 2)))
           answer == UnmarshalResponse(buffer)
<1>1. /\ phase[c] = "waiting" /\ d.to = c /\ toClients' = toClients \ {d}
      /\ UNCHANGED <<asked, toServer, running, open, loopVars, sending, acted, idle>>
      /\ readable => /\ shown' = [shown EXCEPT ![c] = Append(@, answer)]
                     /\ phase' = [phase EXCEPT ![c] = "menu"]
      /\ ~readable => phase' = [phase EXCEPT ![c] = "ended"] /\ shown' = shown
  BY DEF ShowAnswer
<1>2. PICK i \in DOMAIN acted :
        /\ Acted(i, c)
        /\ \/ acted[i].lost
           \/ readable /\ answer = acted[i].response
           \/ /\ ~readable
              /\ Len(Latest(c).facilityName) + Len(NotFound(<< >>)) + 7 > BufferSize
  BY <1>1, AnswerRead
<1> HIDE DEF answer, readable, buffer
<1>3. /\ asked \in [Clients -> Seq(Request)]
      /\ phase \in [Clients -> {"menu", "waiting", "ended"}]
      /\ DOMAIN shown = Clients /\ IsSequence(shown[c])
      /\ Len(asked[c]) \in Nat /\ Len(shown[c]) = Len(asked[c]) - 1
  <2>1. asked[c] \in Seq(Request)
    BY DEF IInv, AskInv
  <2> QED BY <1>1, <2>1, LenProperties DEF IInv, AskInv
<1>4. /\ \A e \in Clients : e # c => phase'[e] = phase[e] /\ shown'[e] = shown[e]
      /\ phase' \in [Clients -> {"menu", "waiting", "ended"}] /\ DOMAIN shown' = Clients
      /\ phase'[c] = IF readable THEN "menu" ELSE "ended"
      /\ shown'[c] = IF readable THEN Append(shown[c], answer) ELSE shown[c]
  BY <1>1, <1>3
<1>5. /\ Len(Append(shown[c], answer)) = Len(asked[c]) /\ IsSequence(Append(shown[c], answer))
      /\ \A n \in DOMAIN shown[c] : Append(shown[c], answer)[n] = shown[c][n]
      /\ Append(shown[c], answer)[Len(asked[c])] = answer
      /\ DOMAIN Append(shown[c], answer) = DOMAIN shown[c] \cup {Len(asked[c])}
  BY <1>3, SequenceFacts
<1>6. AskInv'
  <2>1. ASSUME NEW e \in Clients
        PROVE  /\ IsSequence(shown'[e])
               /\ Len(shown'[e]) = IF phase'[e] = "menu" THEN Len(asked[e]) ELSE Len(asked[e]) - 1
    <3>1. CASE e = c
      BY <1>3, <1>4, <1>5, <3>1
    <3>2. CASE e # c
      BY <1>4, <3>2 DEF IInv, AskInv
    <3> QED BY <3>1, <3>2
  <2> QED BY <1>1, <1>4, <2>1 DEF IInv, AskInv
<1>7. LoopInv'
  BY <1>1 DEF IInv, LoopInv, loopVars
<1>8. \A k, e : Acted(k, e)' <=> Acted(k, e)
  BY <1>1 DEF Acted
<1>9. /\ \A e \in Clients : Packet(e)' = Packet(e)
      /\ \A e : Pending(e)' <=> Pending(e)
  <2>1. \A e \in Clients : Packet(e)' = Packet(e)
    BY <1>1 DEF Packet, Latest
  <2>2. \A e : Handled(e)' <=> Handled(e)
    BY <1>1, <1>8 DEF Handled
  <2>3. ~Pending(c) /\ ~Pending(c)'
    BY <1>2, <1>1, <1>8 DEF Pending, Handled
  <2>4. \A e : e # c => (Pending(e)' <=> Pending(e))
    BY <1>4, <2>2 DEF Pending
  <2> QED BY <2>1, <2>3, <2>4
<1>10. WayInv'
  <2>1. \A e \in toServer' :
          /\ e = [from |-> e.from, bytes |-> e.bytes]
          /\ e.bytes = << >> \/ (Pending(e.from)' /\ e.bytes = Packet(e.from)')
    BY <1>1, <1>9 DEF IInv, WayInv, Pending
  <2>2. completions' = completions /\ recvBuffer' = recvBuffer /\ remote' = remote
        /\ toServer' = toServer /\ (Arrived' <=> Arrived)
    BY <1>1 DEF loopVars, Arrived
  <2>3. Arrived' => \E e \in Clients :
          /\ remote' = e /\ Pending(e)'
          /\ SubSeq(recvBuffer', 1, Head(completions').size) = Received(Packet(e)')
          /\ \A f \in toServer' : f.bytes # << >> => f.from # e
    BY <1>9, <2>2 DEF IInv, WayInv
  <2> QED BY <2>1, <2>3 DEF WayInv
<1>11. AnswerInv'
  <2>1. sending' = sending /\ acted' = acted /\ toClients' = toClients \ {d}
    BY <1>1
  <2>2. \A e \in toClients' : e \in toClients /\ e.to \in Clients /\ e.to # c
    BY <1>1 DEF IInv, AnswerInv
  <2>3. \A s \in sending : s.to \in Clients /\ s.to # c
    BY <1>1 DEF IInv, AnswerInv
  <2> QED BY <1>4, <1>8, <2>1, <2>2, <2>3 DEF IInv, AnswerInv
<1>12. ActedInv' /\ ActsAsAsked' /\ StaysUp'
  BY <1>1 DEF IInv, ActedInv, ActedOK, ActsAsAsked, StaysUp
<1>13. ShowsItsAnswer'
  <2>1. ASSUME NEW e \in Clients, NEW n \in DOMAIN shown'[e]
        PROVE  \E k \in DOMAIN acted :
                 /\ acted[k].from = e /\ acted[k].request.requestId = n
                 /\ acted[k].lost \/ acted[k].response = shown'[e][n]
    <3>1. CASE n \in DOMAIN shown[e] /\ shown'[e][n] = shown[e][n]
      BY <3>1 DEF IInv, ShowsItsAnswer
    <3>2. CASE e = c /\ readable /\ n = Len(asked[c])
      <4>1. shown'[e][n] = answer
        BY <1>4, <1>5, <3>2
      <4>2. acted[i].from = e /\ acted[i].request.requestId = n
        BY <1>2, <3>2 DEF Acted
      <4> QED BY <1>2, <3>2, <4>1, <4>2
    <3> QED BY <1>4, <1>5, <3>1, <3>2
  <2> QED BY <1>1, <2>1 DEF ShowsItsAnswer
<1>14. ClientLives'
  <2>1. ASSUME NEW e \in Clients, phase'[e] = "ended"
        PROVE  \/ Len(asked[e][Len(asked[e])].facilityName) + Len(NotFound(<< >>)) + 7 > BufferSize
               \/ \E k \in DOMAIN acted : acted[k].from = e /\ acted[k].lost
    <3>1. CASE e = c
      BY <1>2, <1>4, <2>1, <3>1 DEF Acted, Latest
    <3>2. CASE e # c
      BY <1>4, <2>1, <3>2 DEF IInv, ClientLives
    <3> QED BY <3>1, <3>2
  <2> QED BY <1>1, <2>1 DEF ClientLives
<1> QED BY <1>6, <1>7, <1>10, <1>11, <1>12, <1>13, <1>14 DEF IInv

-----------------------------------------------------------------------------
(* The handler.                                                            *)

(* An answer to a request fits in a client's buffer unless it names a      *)
(* facility that is not there, and its length in two bytes without a sign. *)
LEMMA DispatchTypes ==
  ASSUME NEW r, r.facilityName \in Seq(Byte), 7 + Len(r.facilityName) <= BufferSize,
         NEW o \in Dispatch(r)
  PROVE  /\ o.status \in {0, 1} /\ o.message \in Seq(Byte)
         /\ \/ 7 + Len(o.message) <= BufferSize
            \/ Len(o.message) = Len(NotFound(<< >>)) + Len(r.facilityName)
         /\ Len(o.message) < Power[2] \div 2
<1> DEFINE name == r.facilityName
<1>1. \A t \in {"noIds", "noId", "noInterval", "invalid"} :
        Texts[t] \in Seq(Byte) /\ 7 + Len(Texts[t]) <= BufferSize
  BY LoopAssumption
<1>2. /\ NotFound(name) \in Seq(Byte)
      /\ Len(NotFound(name)) = Len(NotFound(<< >>)) + Len(name)
  BY NotFoundSize
<1>3. /\ o.status \in {0, 1} /\ o.message \in Seq(Byte)
      /\ 7 + Len(o.message) <= BufferSize \/ o.message = NotFound(name)
  <2>1. CASE \E t \in {"noIds", "noId", "noInterval", "invalid"} :
               o = [status |-> 1, message |-> Texts[t]]
    <3>1. PICK t \in {"noIds", "noId", "noInterval", "invalid"} :
            o = [status |-> 1, message |-> Texts[t]]
      BY <2>1
    <3>2. o.status = 1 /\ o.message = Texts[t]
      BY <3>1
    <3>3. Texts[t] \in Seq(Byte) /\ 7 + Len(Texts[t]) <= BufferSize
      BY <1>1
    <3> QED BY <3>2, <3>3
  <2>2. CASE o = [status |-> 1, message |-> NotFound(name)]
    BY <1>2, <2>2
  <2>3. CASE o \in Outcomes
    BY <2>3, LoopAssumption
  <2>4. \/ \E t \in {"noIds", "noId", "noInterval", "invalid"} :
             o = [status |-> 1, message |-> Texts[t]]
        \/ o = [status |-> 1, message |-> NotFound(name)]
        \/ o \in Outcomes
    BY DEF Dispatch
  <2> QED BY <2>1, <2>2, <2>3, <2>4
<1>4. Len(o.message) \in Nat /\ Len(name) \in Nat
  BY <1>3, LenProperties
<1>5. Len(o.message) < Power[2] \div 2
  <2>1. CASE 7 + Len(o.message) <= BufferSize
    BY <1>4, <2>1, Room
  <2>2. CASE o.message = NotFound(name)
    <3>1. Len(o.message) = Len(NotFound(<< >>)) + Len(name)
      BY <1>2, <2>2
    <3> QED BY <1>4, <3>1, Room
  <2> QED BY <1>3, <2>1, <2>2
<1> QED BY <1>2, <1>3, <1>5

(* What the handler of a datagram finds.                                   *)
LEMMA DatagramFound ==
  ASSUME IInv, Arrived, NEW data, data = SubSeq(recvBuffer, 1, Head(completions).size)
  PROVE  \E c \in Clients :
           /\ remote = c /\ Pending(c) /\ phase[c] = "waiting"
           /\ data = Received(Packet(c))
           /\ \A d \in toServer : d.bytes # << >> => d.from # c
BY DEF IInv, WayInv, Pending

(* The handler of a failed receive or of an empty datagram.                *)
LEMMA HandlerIdle ==
  ASSUME IInv, running, completions # << >>, completions' = << >>, Idle,
         UNCHANGED <<clientVars, toServer, recvBuffer, remote, idle>>
  PROVE  IInv'
<1>1. receiving' = TRUE /\ UNCHANGED <<running, open, toClients, sending, acted>>
  BY DEF Idle
<1>2. \A c : Packet(c)' = Packet(c) /\ (Pending(c)' <=> Pending(c))
  BY <1>1, Quiet
<1>3. LoopInv'
  <2>1. completions' \in Seq([error : BOOLEAN, size : Nat]) /\ Len(completions') <= 1
    OBVIOUS
  <2> QED BY <1>1, <2>1 DEF IInv, LoopInv
<1>4. AnswerInv'
  <2>1. \A i, c : Acted(i, c)' <=> Acted(i, c)
    BY <1>1, Quiet
  <2> QED BY <1>1, <2>1 DEF IInv, AnswerInv, clientVars
<1>5. WayInv'
  BY <1>2 DEF IInv, WayInv, Arrived
<1> QED BY <1>1, <1>3, <1>4, <1>5, Quiet DEF IInv

(* A datagram that cannot be read ends the server: it is one whose user    *)
(* named a facility too shortly or at too great a length.                  *)
LEMMA HandlerEnds ==
  ASSUME IInv, Arrived, completions' = << >>,
         UNCHANGED <<clientVars, toServer, recvBuffer, remote, idle>>,
         ~Readable(SubSeq(recvBuffer, 1, Head(completions).size)),
         running' = FALSE, open' = FALSE, UNCHANGED <<toClients, sending, acted, receiving>>
  PROVE  IInv'
<1>1. PICK c \in Clients :
        /\ phase[c] = "waiting"
        /\ SubSeq(recvBuffer, 1, Head(completions).size) = Received(Packet(c))
  BY DatagramFound
<1>2. \A e : Packet(e)' = Packet(e) /\ (Pending(e)' <=> Pending(e))
  BY Quiet
<1>3. LoopInv'
  <2>1. completions' \in Seq([error : BOOLEAN, size : Nat]) /\ Len(completions') <= 1
    OBVIOUS
  <2> QED BY <2>1 DEF IInv, LoopInv
<1>4. AnswerInv'
  <2>1. \A i, e : Acted(i, e)' <=> Acted(i, e)
    BY Quiet
  <2> QED BY <2>1 DEF IInv, AnswerInv, clientVars
<1>5. WayInv'
  BY <1>2 DEF IInv, WayInv, Arrived
<1>6. StaysUp'
  <2>1. AskInv /\ phase[c] # "menu"
    BY <1>1 DEF IInv
  <2>2. Len(Latest(c).facilityName) \notin 3..(BufferSize - 7)
    BY <1>1, <2>1, PacketRead
  <2>3. Len(asked[c]) \in DOMAIN asked[c]
    BY <2>1, LatestOK
  <2> QED BY <2>2, <2>3 DEF StaysUp, Latest, clientVars
<1> QED BY <1>3, <1>4, <1>5, <1>6, Quiet DEF IInv

(* The server acts on the request of client c.                             *)
Acts(c, data, junk, outcome, room) ==
  LET r == Unmarshal(data, junk)
      response == [requestId |-> r.requestId,
                   status    |-> outcome.status,
                   message   |-> outcome.message]
  IN  /\ outcome \in Dispatch(r)
      /\ acted' = Append(acted, [from |-> c, request |-> r,
                                 response |-> response, lost |-> ~room])
      /\ DoSend(MarshalResponse(response), c, room)

(* The handler of a readable datagram: the request, which was nowhere      *)
(* else, is acted on, and its answer is the only one on its way to the     *)
(* client.                                                                 *)
LEMMA HandlerActs ==
  ASSUME IInv, Arrived, running, completions' = << >>,
         UNCHANGED <<clientVars, toServer, recvBuffer, remote, idle>>,
         receiving' = TRUE, UNCHANGED <<running, open>>,
         NEW data, data = SubSeq(recvBuffer, 1, Head(completions).size), Readable(data),
         NEW junk \in Junk, NEW room \in BOOLEAN, NEW outcome,
         Acts(remote, data, junk, outcome, room)
  PROVE  IInv'
<1> DEFINE r == Unmarshal(data, junk)
           response == [requestId |-> r.requestId,
                        status    |-> outcome.status,
                        message   |-> outcome.message]
           entry == [from |-> remote, request |-> r, response |-> response, lost |-> ~room]
           bytes == MarshalResponse(response)
           name == Bytes(data, 7, NameLength(data))
<1>1. PICK c \in Clients :
        /\ remote = c /\ Pending(c) /\ phase[c] = "waiting"
        /\ data = Received(Packet(c))
        /\ \A d \in toServer : d.bytes # << >> => d.from # c
  BY DatagramFound
<1>2. /\ Len(asked[c]) \in DOMAIN asked[c] /\ Len(asked[c]) < Power[4]
      /\ Len(asked[c]) \in Nat /\ Latest(c) \in Request
  <2>1. AskInv /\ phase[c] # "menu"
    BY <1>1 DEF IInv
  <2> QED BY <2>1, LatestOK
<1>3. /\ name \in Seq(Byte) /\ Len(name) <= Len(Latest(c).facilityName)
      /\ 7 + Len(name) <= BufferSize
      /\ Unsigned(Bytes(data, 0, 4)) = Len(asked[c])
      /\ Len(Packet(c)) <= BufferSize => r = Meant(Latest(c))
  <2>1. AskInv /\ phase[c] # "menu"
    BY <1>1 DEF IInv
  <2> QED BY <1>1, <2>1, PacketRead
<1>4. r.requestId = Len(asked[c]) /\ r.facilityName = name
  <2> HIDE DEF name
  <2>1. r.requestId = Unsigned(Bytes(data, 0, 4))
    BY DEF Unmarshal
  <2>2. r.facilityName = name
    BY DEF Unmarshal, name
  <2> QED BY <1>3, <2>1, <2>2
<1>5. outcome \in Dispatch(r) /\ acted' = Append(acted, entry) /\ DoSend(bytes, remote, room)
  BY DEF Acts
<1> HIDE DEF r, name
<1>6. /\ outcome.status \in {0, 1} /\ outcome.message \in Seq(Byte)
      /\ \/ 7 + Len(outcome.message) <= BufferSize
         \/ Len(outcome.message) = Len(NotFound(<< >>)) + Len(name)
      /\ Len(outcome.message) < Power[2] \div 2
  BY <1>3, <1>4, <1>5, DispatchTypes
<1>7. response \in Response /\ response.requestId = Len(asked[c])
      /\ response.message = outcome.message
  BY <1>2, <1>4, <1>6 DEF Response
<1>8. PICK a : a = entry
  OBVIOUS
<1>9. a.from = c /\ a.request = r /\ a.response = response /\ a.lost = ~room
  BY <1>1, <1>8
<1>10. PICK n : n = Len(acted) + 1
  OBVIOUS
<1> HIDE DEF response
<1>11. bytes \in Seq(Byte) /\ Len(bytes) \in Nat
  <2>1. bytes \in Seq(Byte)
    BY <1>2, <1>6, <1>7, ClientReads DEF Response
  <2> QED BY <2>1, LenProperties
<1> HIDE DEF entry, bytes
<1>12. /\ IsSequence(acted') /\ DOMAIN acted' = DOMAIN acted \cup {n} /\ acted'[n] = a
       /\ \A i \in DOMAIN acted : acted'[i] = acted[i]
  BY <1>5, <1>8, <1>10, SequenceFacts DEF IInv, ActedInv
<1>13. /\ \A i \in DOMAIN acted, e \in Clients : Acted(i, e)' <=> Acted(i, e)
       /\ \A e \in Clients : Acted(n, e)' <=> e = c
  BY <1>4, <1>9, <1>12 DEF Acted, clientVars
<1>14. /\ \A e \in Clients : Packet(e)' = Packet(e)
       /\ \A e \in Clients : e # c => (Pending(e)' <=> Pending(e))
       /\ \A i \in DOMAIN acted : ~Acted(i, c)
       /\ phase' = phase /\ asked' = asked /\ shown' = shown
  <2>1. phase' = phase /\ asked' = asked /\ shown' = shown
    BY DEF clientVars
  <2>2. \A e \in Clients : Packet(e)' = Packet(e)
    BY <2>1 DEF Packet, Latest
  <2>3. \A e \in Clients : e # c => (Handled(e)' <=> Handled(e))
    BY <1>12, <1>13 DEF Handled
  <2>4. \A e \in Clients : e # c => (Pending(e)' <=> Pending(e))
    BY <2>1, <2>3 DEF Pending
  <2>5. \A i \in DOMAIN acted : ~Acted(i, c)
    BY <1>1 DEF Pending, Handled
  <2> QED BY <2>1, <2>2, <2>4, <2>5
<1>15. AskInv'
  BY <1>14 DEF IInv, AskInv
<1>16. LoopInv'
  <2>1. completions' \in Seq([error : BOOLEAN, size : Nat]) /\ Len(completions') <= 1
    OBVIOUS
  <2> QED BY <2>1 DEF IInv, LoopInv
<1>17. WayInv'
  <2>1. ASSUME NEW d \in toServer
        PROVE  /\ d = [from |-> d.from, bytes |-> d.bytes]
               /\ d.bytes = << >> \/ (Pending(d.from)' /\ d.bytes = Packet(d.from)')
    <3>1. /\ d = [from |-> d.from, bytes |-> d.bytes]
          /\ d.bytes = << >> \/ (Pending(d.from) /\ d.bytes = Packet(d.from))
          /\ d.bytes # << >> => d.from # c
      BY <1>1 DEF IInv, WayInv
    <3>2. Pending(d.from) => d.from \in Clients
      BY DEF Pending
    <3> QED BY <1>14, <3>1, <3>2
  <2> QED BY <2>1 DEF WayInv, Arrived
<1>18. AnswerInv'
  <2> DEFINE new == [to |-> c, bytes |-> bytes]
             late == [to |-> c, size |-> Len(bytes)]
  <2>1. \/ toClients' = toClients /\ sending' = sending
        \/ room /\ toClients' = toClients \cup {new} /\ sending' = sending
        \/ ~room /\ toClients' = toClients /\ sending' = sending \cup {late}
    BY <1>1, <1>5 DEF DoSend
  <2>2. ASSUME NEW d \in toClients
        PROVE  /\ d = [to |-> d.to, bytes |-> d.bytes] /\ d.bytes \in Seq(Byte)
               /\ d.to \in Clients /\ phase'[d.to] = "waiting" /\ d.to # c
               /\ \E i \in DOMAIN acted' : Acted(i, d.to)'
                    /\ (acted'[i].lost \/ d.bytes = MarshalResponse(acted'[i].response))
    <3>1. /\ d = [to |-> d.to, bytes |-> d.bytes] /\ d.bytes \in Seq(Byte)
          /\ d.to \in Clients /\ phase[d.to] = "waiting"
      BY DEF IInv, AnswerInv
    <3>2. PICK i \in DOMAIN acted : Acted(i, d.to)
            /\ (acted[i].lost \/ d.bytes = MarshalResponse(acted[i].response))
      BY DEF IInv, AnswerInv
    <3> QED BY <1>12, <1>13, <1>14, <3>1, <3>2
  <2>3. ASSUME NEW s \in sending
        PROVE  /\ s = [to |-> s.to, size |-> s.size] /\ s.size \in Nat
               /\ s.to \in Clients /\ phase'[s.to] = "waiting" /\ s.to # c
               /\ \E i \in DOMAIN acted' : Acted(i, s.to)' /\ acted'[i].lost
    <3>1. /\ s = [to |-> s.to, size |-> s.size] /\ s.size \in Nat
          /\ s.to \in Clients /\ phase[s.to] = "waiting"
      BY DEF IInv, AnswerInv
    <3>2. PICK i \in DOMAIN acted : Acted(i, s.to) /\ acted[i].lost
      BY DEF IInv, AnswerInv
    <3> QED BY <1>12, <1>13, <1>14, <3>1, <3>2
  <2>4. /\ new = [to |-> new.to, bytes |-> new.bytes] /\ new.bytes \in Seq(Byte)
        /\ new.to = c /\ phase'[new.to] = "waiting"
        /\ n \in DOMAIN acted' /\ Acted(n, c)'
        /\ new.bytes = MarshalResponse(acted'[n].response)
    BY <1>1, <1>9, <1>11, <1>12, <1>13, <1>14 DEF bytes
  <2>5. /\ late = [to |-> late.to, size |-> late.size] /\ late.size \in Nat
        /\ late.to = c /\ phase'[late.to] = "waiting"
        /\ n \in DOMAIN acted' /\ Acted(n, c)'
        /\ ~room => acted'[n].lost
    BY <1>1, <1>9, <1>11, <1>12, <1>13, <1>14
  <2> HIDE DEF new, late
  <2>6. \A d \in toClients' :
          /\ d = [to |-> d.to, bytes |-> d.bytes] /\ d.bytes \in Seq(Byte)
          /\ d.to \in Clients /\ phase'[d.to] = "waiting"
          /\ \E i \in DOMAIN acted' : Acted(i, d.to)'
               /\ (acted'[i].lost \/ d.bytes = MarshalResponse(acted'[i].response))
    BY <2>1, <2>2, <2>4
  <2>7. \A s \in sending' :
          /\ s = [to |-> s.to, size |-> s.size] /\ s.size \in Nat
          /\ s.to \in Clients /\ phase'[s.to] = "waiting"
          /\ \E i \in DOMAIN acted' : Acted(i, s.to)' /\ acted'[i].lost
    BY <2>1, <2>3, <2>5
  <2>8. /\ \A d, e \in toClients : d.to = e.to => d = e
        /\ \A s, t \in sending : s.to = t.to => s = t
        /\ \A d \in toClients, s \in sending : d.to # s.to
    BY DEF IInv, AnswerInv
  <2>9. /\ \A d, e \in toClients' : d.to = e.to => d = e
        /\ \A s, t \in sending' : s.to = t.to => s = t
        /\ \A d \in toClients', s \in sending' : d.to # s.to
    BY <2>1, <2>2, <2>3, <2>4, <2>5, <2>8
  <2> QED BY <2>6, <2>7, <2>9 DEF AnswerInv
<1>19. ActedInv'
  <2>1. ASSUME NEW i \in DOMAIN acted PROVE ActedOK(acted[i])'
    BY <1>12, <1>14 DEF IInv, ActedInv, ActedOK
  <2>2. ActedOK(a)'
    <3>1. Len(outcome.message) \in Nat /\ Len(name) \in Nat
          /\ Len(Latest(c).facilityName) \in Nat /\ Len(NotFound(<< >>)) \in Nat
      <4>1. Latest(c).facilityName \in Seq(Byte)
        BY <1>2, RequestTypes
      <4> QED BY <1>3, <1>6, <4>1, LenProperties, Room
    <3>2. \/ 7 + Len(outcome.message) <= BufferSize
          \/ Len(outcome.message) <= Len(NotFound(<< >>)) + Len(Latest(c).facilityName)
      BY <1>3, <1>6, <3>1
    <3> QED BY <1>2, <1>4, <1>6, <1>7, <1>9, <1>14, <3>2 DEF ActedOK, Latest
  <2> QED BY <1>12, <2>1, <2>2 DEF ActedInv
<1>20. ActsAsAsked'
  <2>1. \A i \in DOMAIN acted :
          <<acted[i].from, acted[i].request.requestId>> # <<c, Len(asked[c])>>
    BY <1>14 DEF Acted
  <2>2. \A i, j \in DOMAIN acted :
          j # i => <<acted[j].from, acted[j].request.requestId>> #
                   <<acted[i].from, acted[i].request.requestId>>
    BY DEF IInv, ActsAsAsked
  <2>3. \A i \in DOMAIN acted :
          Len(Packed(acted[i].from, asked[acted[i].from][acted[i].request.requestId]))
            <= BufferSize =>
              acted[i].request = Meant(asked[acted[i].from][acted[i].request.requestId])
    BY DEF IInv, ActsAsAsked
  <2>4. Len(Packed(c, asked[c][Len(asked[c])])) <= BufferSize =>
          r = Meant(asked[c][Len(asked[c])])
    BY <1>3 DEF Packet, Latest
  <2>5. a.from = c /\ a.request = r /\ a.request.requestId = Len(asked[c])
    BY <1>4, <1>9
  <2>6. ASSUME NEW i \in DOMAIN acted'
        PROVE  Len(Packed(acted'[i].from, asked[acted'[i].from][acted'[i].request.requestId]))
                 <= BufferSize =>
                   acted'[i].request = Meant(asked[acted'[i].from][acted'[i].request.requestId])
    <3>1. CASE i \in DOMAIN acted
      BY <1>12, <2>3, <3>1
    <3>2. CASE i = n
      BY <1>12, <2>4, <2>5, <3>2
    <3> QED BY <1>12, <3>1, <3>2
  <2>7. ASSUME NEW i \in DOMAIN acted', NEW j \in DOMAIN acted', j # i
        PROVE  <<acted'[j].from, acted'[j].request.requestId>> #
                 <<acted'[i].from, acted'[i].request.requestId>>
    <3>1. CASE i \in DOMAIN acted /\ j \in DOMAIN acted
      BY <1>12, <2>2, <2>7, <3>1
    <3>2. CASE i \in DOMAIN acted /\ j = n
      BY <1>12, <2>1, <2>5, <3>2
    <3>3. CASE i = n /\ j \in DOMAIN acted
      BY <1>12, <2>1, <2>5, <3>3
    <3> QED BY <1>12, <2>7, <3>1, <3>2, <3>3
  <2> QED BY <1>14, <2>6, <2>7 DEF ActsAsAsked
<1>21. StaysUp' /\ ShowsItsAnswer' /\ ClientLives'
  <2>1. StaysUp'
    BY <1>14 DEF StaysUp
  <2>2. ShowsItsAnswer' /\ ClientLives'
    BY <1>12, <1>14 DEF IInv, ShowsItsAnswer, ClientLives
  <2> QED BY <2>1, <2>2
<1> QED BY <1>15, <1>16, <1>17, <1>18, <1>19, <1>20, <1>21 DEF IInv

(* Whatever the handler finds.                                             *)
LEMMA HandlerStep == IInv /\ Handler => IInv'
<1> SUFFICES ASSUME IInv, Handler PROVE IInv'
  OBVIOUS
<1> DEFINE done == Head(completions)
           data == SubSeq(recvBuffer, 1, done.size)
<1>1. /\ running /\ completions # << >> /\ completions' = Tail(completions)
      /\ UNCHANGED <<clientVars, toServer, recvBuffer, remote, idle>>
      /\ IF ~done.error /\ done.size > 0 THEN HandleReceive(done.size) ELSE Idle
  BY DEF Handler
<1>2. completions' = << >>
  <2>1. completions \in Seq([error : BOOLEAN, size : Nat]) /\ Len(completions) <= 1
    BY DEF IInv, LoopInv
  <2> QED BY <1>1, <2>1
<1>3. CASE ~(~done.error /\ done.size > 0)
  BY <1>1, <1>2, <1>3, HandlerIdle
<1>4. CASE ~done.error /\ done.size > 0
  <2>1. Arrived /\ HandleReceive(done.size)
    BY <1>1, <1>4 DEF Arrived
  <2>2. CASE ~Readable(data)
    <3>1. running' = FALSE /\ open' = FALSE /\ UNCHANGED <<toClients, sending, acted, receiving>>
      BY <2>1, <2>2 DEF HandleReceive
    <3> QED BY <1>1, <1>2, <2>1, <2>2, <3>1, HandlerEnds
  <2>3. CASE Readable(data)
    <3>1. /\ receiving' = TRUE /\ UNCHANGED <<running, open>>
          /\ \E junk \in Junk, room \in BOOLEAN :
               \E outcome \in Dispatch(Unmarshal(data, junk)) :
                 Acts(remote, data, junk, outcome, room)
      BY <2>1, <2>3, Zenon DEF HandleReceive, Acts
    <3>2. PICK junk \in Junk, room \in BOOLEAN :
            \E outcome \in Dispatch(Unmarshal(data, junk)) :
              Acts(remote, data, junk, outcome, room)
      BY <3>1
    <3>3. PICK outcome \in Dispatch(Unmarshal(data, junk)) :
            Acts(remote, data, junk, outcome, room)
      BY <3>2
    <3> QED BY <1>1, <1>2, <2>1, <2>3, <3>1, <3>3, HandlerActs
  <2> QED BY <2>2, <2>3
<1> QED BY <1>3, <1>4

-----------------------------------------------------------------------------
(* The theorems.                                                           *)

(* Every step keeps the invariant.                                         *)
LEMMA NextIInv == IInv /\ [Next]_vars => IInv'
<1> SUFFICES ASSUME IInv, [Next]_vars PROVE IInv'
  OBVIOUS
<1>1. ASSUME NEW c \in Clients, Ask(c) PROVE IInv'
  BY <1>1, AskStep
<1>2. ASSUME NEW c \in Clients, NEW d \in toClients, ShowAnswer(c, d) PROVE IInv'
  BY <1>2, ShowAnswerStep
<1>3. CASE Stray
  BY <1>3, StrayInv
<1>4. ASSUME NEW d \in toServer, Receive(d) PROVE IInv'
  BY <1>4, ReceiveInv
<1>5. CASE ReceiveFails
  BY <1>5, ReceiveFailsInv
<1>6. CASE Handler
  BY <1>6, HandlerStep
<1>7. ASSUME NEW s \in sending, NEW junk \in Junk, SendLate(s, junk) PROVE IInv'
  BY <1>7, SendLateInv
<1>8. CASE Stop
  BY <1>8, StopInv
<1>9. CASE UNCHANGED vars
  <2>1. UNCHANGED <<clientVars, acted, running, toServer, loopVars>>
        /\ UNCHANGED <<toClients, sending, open>>
    BY <1>9 DEF vars
  <2>2. LoopInv'
    BY <2>1 DEF IInv, LoopInv, loopVars
  <2>3. AnswerInv'
    <3>1. \A i, c : Acted(i, c)' <=> Acted(i, c)
      BY <2>1, Quiet
    <3> QED BY <2>1, <3>1 DEF IInv, AnswerInv, clientVars
  <2>4. WayInv'
    BY <2>1, WayKept
  <2> QED BY <2>1, <2>2, <2>3, <2>4, Quiet DEF IInv
<1> QED BY <1>1, <1>2, <1>3, <1>4, <1>5, <1>6, <1>7, <1>8, <1>9 DEF Next

(* The invariant holds whatever the clients ask, in whatever order the     *)
(* datagrams arrive, and whenever the socket is full, fails or is closed.  *)
THEOREM Invariance == Spec => []IInv
<1>1. Init => IInv
  BY InitIInv
<1>2. IInv /\ [Next]_vars => IInv'
  BY NextIInv
<1> QED BY <1>1, <1>2, PTL DEF Spec

(* The invariant types what the loop keeps.                                *)
LEMMA TypeFromIInv == IInv => LoopTypeOK
<1> SUFFICES ASSUME IInv PROVE LoopTypeOK
  OBVIOUS
<1>1. /\ phase \in [Clients -> {"menu", "waiting", "ended"}]
      /\ \A c \in Clients : Len(asked[c]) <= Len(Choices[c])
  BY DEF IInv, AskInv
<1>2. /\ Len(completions) <= 1 /\ (running => receiving = (completions = << >>))
      /\ recvBuffer \in Seq(Byte) /\ Len(recvBuffer) <= BufferSize
      /\ running \in BOOLEAN /\ open \in BOOLEAN
  BY DEF IInv, LoopInv
<1>3. ASSUME NEW d \in toServer PROVE d.bytes \in Seq(Byte)
  <2>1. CASE d.bytes = << >>
    BY <2>1
  <2>2. CASE d.bytes # << >>
    <3>1. d.from \in Clients /\ phase[d.from] # "menu" /\ AskInv /\ d.bytes = Packet(d.from)
      BY <2>2 DEF IInv, WayInv, Pending
    <3> QED BY <3>1, PacketRead
  <2> QED BY <2>1, <2>2
<1>4. ASSUME NEW d \in toClients PROVE d.bytes \in Seq(Byte)
  BY DEF IInv, AnswerInv
<1> QED BY <1>1, <1>2, <1>3, <1>4 DEF LoopTypeOK

(* What do_receive, do_send and the clients keep has its type; no more     *)
(* than one receive is completed and not yet handled.                      *)
THEOREM TypeCorrect == Spec => []LoopTypeOK
BY Invariance, TypeFromIInv, PTL

(* handle_receive acts on a request at most once and on what its user      *)
(* typed, if only it fits in the buffer: nothing of an earlier datagram,   *)
(* whose bytes are still in recv_buffer_, gets into it.                    *)
THEOREM ActsOnWhatWasAsked == Spec => []ActsAsAsked
<1>1. IInv => ActsAsAsked
  BY DEF IInv
<1> QED BY <1>1, Invariance, PTL

(* What a user types ends the server (unmarshal's uncaught exception) only *)
(* if it names a facility in fewer than three bytes or in more than fit.   *)
THEOREM ServerStaysUp == Spec => []StaysUp
<1>1. IInv => StaysUp
  BY DEF IInv
<1> QED BY <1>1, Invariance, PTL

(* The n-th answer a client shows is what handle_receive composed for its  *)
(* n-th request, unless do_send found no room in the socket.               *)
THEOREM AnswersAreShown == Spec => []ShowsItsAnswer
<1>1. IInv => ShowsItsAnswer
  BY DEF IInv
<1> QED BY <1>1, Invariance, PTL

(* An answer ends a client only if it repeats a name too long for the      *)
(* client's buffer, or if the socket had no room for it.                   *)
THEOREM ClientsLive == Spec => []ClientLives
<1>1. IInv => ClientLives
  BY DEF IInv
<1> QED BY <1>1, Invariance, PTL
=============================================================================
