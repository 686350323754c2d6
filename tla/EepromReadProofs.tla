--------------------------- MODULE EepromReadProofs ---------------------------
(***************************************************************************)
(* Proofs about EepromRead, for any set of threads, units and images.      *)
(***************************************************************************)
EXTENDS EepromRead, WellFoundedInduction, TLAPS

(***************************************************************************)
(* Recursive functions over the numbers.                                   *)
(***************************************************************************)
\* Induction over the numbers, with a set in place of a predicate.
LEMMA SetInduction ==
  ASSUME NEW S, 0 \in S, \A n \in Nat : n \in S => n + 1 \in S
  PROVE  Nat \subseteq S
<1> SUFFICES ASSUME Nat \ S # {} PROVE FALSE
  OBVIOUS
<1>1. PICK x \in Nat \ S : \A y \in Nat \ S : ~(<<y, x>> \in OpToRel(<, Nat))
  BY NatLessThanWellFounded, WFMin
<1>2. \A y \in Nat \ S : ~(y < x)
  BY <1>1 DEF OpToRel
<1>3. x # 0 /\ x - 1 \in Nat
  OBVIOUS
<1>4. x - 1 \in S
  BY <1>2, <1>3
<1> QED
  BY <1>3, <1>4

\* The sums of d up to 1, 2, ... n + 1, from a on.
Sums(a, d, n) ==
  {g \in [1..(n + 1) -> Int] :
     g[1] = a /\ \A i \in 1..n : g[i + 1] = g[i] + d[i + 1]}

\* The tables of sums, of every size.
LEMMA SumsExist ==
  ASSUME NEW a \in Int, NEW d \in [Nat \ {0} -> Int]
  PROVE  \A n \in Nat : Sums(a, d, n) # {}
<1> DEFINE S == {n \in Nat : Sums(a, d, n) # {}}
<1>1. 0 \in S
  <2>1. [i \in 1..(0 + 1) |-> a] \in Sums(a, d, 0)
    BY DEF Sums
  <2> QED BY <2>1
<1>2. ASSUME NEW n \in Nat, n \in S PROVE n + 1 \in S
  <2>1. PICK g : g \in Sums(a, d, n)
    BY <1>2
  <2> DEFINE h == [i \in 1..(n + 1 + 1) |->
                     IF i = n + 2 THEN g[n + 1] + d[n + 2] ELSE g[i]]
  <2>2. h \in [1..(n + 1 + 1) -> Int]
    BY <2>1 DEF Sums
  <2>3. h[1] = a
    BY <2>1 DEF Sums
  <2>4. ASSUME NEW i \in 1..(n + 1) PROVE h[i + 1] = h[i] + d[i + 1]
    <3>1. CASE i = n + 1
      BY <3>1
    <3>2. CASE i # n + 1
      BY <2>1, <3>2 DEF Sums
    <3> QED BY <3>1, <3>2
  <2>5. h \in Sums(a, d, n + 1)
    BY <2>2, <2>3, <2>4 DEF Sums
  <2> QED BY <2>5
<1>3. Nat \subseteq S
  <2> HIDE DEF S
  <2> QED BY <1>1, <1>2, SetInduction
<1> QED BY <1>3

\* Two of them agree where both are defined.
LEMMA SumsAgree ==
  ASSUME NEW a \in Int, NEW d \in [Nat \ {0} -> Int], NEW n \in Nat, NEW m \in Nat,
         NEW g \in Sums(a, d, n), NEW h \in Sums(a, d, m)
  PROVE  \A i \in Nat : i <= n /\ i <= m => g[i + 1] = h[i + 1]
<1> DEFINE S == {i \in Nat : i <= n /\ i <= m => g[i + 1] = h[i + 1]}
<1>1. 0 \in S
  BY DEF Sums
<1>2. ASSUME NEW i \in Nat, i \in S PROVE i + 1 \in S
  <2> SUFFICES ASSUME i + 1 <= n, i + 1 <= m PROVE g[i + 2] = h[i + 2]
    OBVIOUS
  <2>1. g[i + 1] = h[i + 1]
    BY <1>2
  <2>2. g[i + 1 + 1] = g[i + 1] + d[i + 1 + 1] /\ h[i + 1 + 1] = h[i + 1] + d[i + 1 + 1]
    BY DEF Sums
  <2> QED BY <2>1, <2>2
<1>3. Nat \subseteq S
  <2> HIDE DEF S
  <2> QED BY <1>1, <1>2, SetInduction
<1> QED BY <1>3

\* So there is a function that a recursion like those of Position and Left defines.
LEMMA SumFunction ==
  ASSUME NEW a \in Int, NEW d \in [Nat \ {0} -> Int]
  PROVE  \E f \in [Nat \ {0} -> Int] :
           f[1] = a /\ \A i \in Nat \ {0} : i > 1 => f[i] = f[i - 1] + d[i]
<1> DEFINE g(n) == CHOOSE s \in Sums(a, d, n) : TRUE
           f == [i \in Nat \ {0} |-> g(i - 1)[i]]
<1>1. \A n \in Nat : g(n) \in Sums(a, d, n)
  BY SumsExist
<1> HIDE DEF g
<1>2. f \in [Nat \ {0} -> Int]
  BY <1>1 DEF Sums
<1>3. f[1] = a
  BY <1>1 DEF Sums
<1>4. ASSUME NEW n \in Nat \ {0} PROVE g(n)[n] = g(n - 1)[n]
  <2>1. n - 1 \in Nat /\ g(n) \in Sums(a, d, n) /\ g(n - 1) \in Sums(a, d, n - 1)
    BY <1>1
  <2>2. \A j \in Nat : j <= n /\ j <= n - 1 => g(n)[j + 1] = g(n - 1)[j + 1]
    BY <2>1, SumsAgree
  <2>3. g(n)[n - 1 + 1] = g(n - 1)[n - 1 + 1]
    BY <2>1, <2>2
  <2> QED BY <2>3
<1>5. ASSUME NEW n \in Nat \ {0} PROVE f[n + 1] = f[n] + d[n + 1]
  <2>1. g(n)[n + 1] = g(n)[n] + d[n + 1]
    BY <1>1 DEF Sums
  <2> QED BY <2>1, <1>4
<1>6. ASSUME NEW i \in Nat \ {0}, i > 1 PROVE f[i] = f[i - 1] + d[i]
  <2> HIDE DEF f
  <2>1. i - 1 \in Nat \ {0}
    BY <1>6
  <2>2. f[i - 1 + 1] = f[i - 1] + d[i - 1 + 1]
    BY <2>1, <1>5
  <2> QED BY <2>2
<1> HIDE DEF f
<1> QED BY <1>2, <1>3, <1>6

(***************************************************************************)
(* The walk over the TLV fields.                                           *)
(***************************************************************************)
\* Lengths, also those the walk finds behind the last field.
LEMMA LengthType ==
  ASSUME NEW u \in Units, NEW i \in Nat \ {0}
  PROVE  Len(Fields[u]) \in Nat /\ Length(u, i) \in Nat
<1>1. Fields[u] \in Seq(Nat)
  BY ImageAssumption
<1>2. Len(Fields[u]) \in Nat
  BY <1>1
<1>3. i <= Len(Fields[u]) => Fields[u][i] \in Nat
  BY <1>1, <1>2
<1> QED
  BY <1>2, <1>3, ImageAssumption DEF Length

\* Where the next field starts.
LEMMA PositionSteps ==
  ASSUME NEW u \in Units
  PROVE  /\ Position(u)[1] = HEADER
         /\ \A i \in Nat \ {0} :
              /\ Position(u)[i] \in Int
              /\ Position(u)[i + 1] = Position(u)[i] + Length(u, i) + TLV_FIELD_SIZE
<1> DEFINE d == [i \in Nat \ {0} |->
                   IF i = 1 THEN 0 ELSE Length(u, i - 1) + TLV_FIELD_SIZE]
<1>1. HEADER \in Int /\ d \in [Nat \ {0} -> Int]
  <2>1. \A i \in Nat \ {0} : i # 1 => Length(u, i - 1) \in Nat
    BY LengthType
  <2> QED BY <2>1, ImageAssumption DEF TLV_FIELD_SIZE
<1>2. PICK f \in [Nat \ {0} -> Int] :
        f[1] = HEADER /\ \A i \in Nat \ {0} : i > 1 => f[i] = f[i - 1] + d[i]
  <2> HIDE DEF d
  <2> QED BY <1>1, SumFunction
<1>3. f = [i \in Nat \ {0} |->
             IF i = 1 THEN HEADER
             ELSE f[i - 1] + Length(u, i - 1) + TLV_FIELD_SIZE]
  <2>1. ASSUME NEW i \in Nat \ {0}, i # 1
        PROVE  f[i] = f[i - 1] + Length(u, i - 1) + TLV_FIELD_SIZE
    <3>1. f[i] = f[i - 1] + (Length(u, i - 1) + TLV_FIELD_SIZE)
      BY <1>2, <2>1
    <3>2. f[i - 1] \in Int /\ Length(u, i - 1) \in Nat
      BY <1>2, <2>1, LengthType
    <3> QED BY <3>1, <3>2 DEF TLV_FIELD_SIZE
  <2> QED BY <1>2, <2>1
<1>4. Position(u) = [i \in Nat \ {0} |->
             IF i = 1 THEN HEADER
             ELSE Position(u)[i - 1] + Length(u, i - 1) + TLV_FIELD_SIZE]
  BY <1>3, Zenon DEF Position
<1> HIDE DEF d
<1>5. Position(u)[1] = HEADER
  BY <1>4
<1>6. ASSUME NEW i \in Nat \ {0}
      PROVE  Position(u)[i + 1] = Position(u)[i] + Length(u, i) + TLV_FIELD_SIZE
  <2>1. Position(u)[i + 1] =
          Position(u)[i + 1 - 1] + Length(u, i + 1 - 1) + TLV_FIELD_SIZE
    BY <1>4
  <2> QED BY <2>1
<1>7. \A i \in Nat : Position(u)[i + 1] \in Int
  <2> DEFINE S == {i \in Nat : Position(u)[i + 1] \in Int}
  <2>1. 0 \in S
    BY <1>5, <1>1
  <2>2. ASSUME NEW i \in Nat, i \in S PROVE i + 1 \in S
    <3>1. Position(u)[i + 1 + 1] = Position(u)[i + 1] + Length(u, i + 1) + TLV_FIELD_SIZE
      BY <1>6
    <3> QED BY <2>2, <3>1, LengthType DEF TLV_FIELD_SIZE
  <2>3. Nat \subseteq S
    <3> HIDE DEF S
    <3> QED BY <2>1, <2>2, SetInduction
  <2> QED BY <2>3
<1>8. ASSUME NEW i \in Nat \ {0} PROVE Position(u)[i] \in Int
  <2>1. i - 1 \in Nat /\ i - 1 + 1 = i
    OBVIOUS
  <2> QED BY <2>1, <1>7
<1> QED BY <1>5, <1>6, <1>8

\* What a step of the walk subtracts.
LEMMA LeftSteps ==
  ASSUME NEW u \in Units
  PROVE  /\ Left(u)[1] = TotalLen[u] - (CRC_SIZE + TLV_FIELD_SIZE)
         /\ \A i \in Nat \ {0} :
              Left(u)[i + 1] = Left(u)[i] - Length(u, i + 1) - TL_FIELD_SIZE
<1> DEFINE a == TotalLen[u] - (CRC_SIZE + TLV_FIELD_SIZE)
           d == [i \in Nat \ {0} |-> 0 - Length(u, i) - TL_FIELD_SIZE]
<1>1. a \in Int /\ d \in [Nat \ {0} -> Int]
  BY LengthType, ImageAssumption DEF TLV_FIELD_SIZE, TL_FIELD_SIZE
<1>2. PICK f \in [Nat \ {0} -> Int] :
        f[1] = a /\ \A i \in Nat \ {0} : i > 1 => f[i] = f[i - 1] + d[i]
  <2> HIDE DEF a, d
  <2> QED BY <1>1, SumFunction
<1>3. f = [i \in Nat \ {0} |->
             IF i = 1 THEN TotalLen[u] - (CRC_SIZE + TLV_FIELD_SIZE)
             ELSE f[i - 1] - Length(u, i) - TL_FIELD_SIZE]
  <2>1. ASSUME NEW i \in Nat \ {0}, i # 1
        PROVE  f[i] = f[i - 1] - Length(u, i) - TL_FIELD_SIZE
    <3>1. f[i] = f[i - 1] + (0 - Length(u, i) - TL_FIELD_SIZE)
      BY <1>2, <2>1
    <3>2. f[i - 1] \in Int /\ Length(u, i) \in Nat
      BY <1>2, <2>1, LengthType
    <3> QED BY <3>1, <3>2 DEF TL_FIELD_SIZE
  <2> QED BY <1>2, <2>1
<1>4. Left(u) = [i \in Nat \ {0} |->
             IF i = 1 THEN TotalLen[u] - (CRC_SIZE + TLV_FIELD_SIZE)
             ELSE Left(u)[i - 1] - Length(u, i) - TL_FIELD_SIZE]
  BY <1>3, Zenon DEF Left
<1> HIDE DEF a, d
<1>5. Left(u)[1] = TotalLen[u] - (CRC_SIZE + TLV_FIELD_SIZE)
  BY <1>4
<1>6. ASSUME NEW i \in Nat \ {0}
      PROVE  Left(u)[i + 1] = Left(u)[i] - Length(u, i + 1) - TL_FIELD_SIZE
  <2>1. Left(u)[i + 1] = Left(u)[i + 1 - 1] - Length(u, i + 1) - TL_FIELD_SIZE
    BY <1>4
  <2> QED BY <2>1
<1> QED BY <1>5, <1>6

\* Fields do not overlap: each of them takes two bytes at least.
LEMMA PositionsGrow ==
  ASSUME NEW u \in Units, NEW i \in Nat \ {0}
  PROVE  \A k \in Nat : Position(u)[i + k] >= Position(u)[i] + 2 * k
<1> DEFINE S == {k \in Nat : Position(u)[i + k] >= Position(u)[i] + 2 * k}
<1>1. 0 \in S
  BY PositionSteps
<1>2. ASSUME NEW k \in Nat, k \in S PROVE k + 1 \in S
  <2>1. /\ Position(u)[i + k] \in Int /\ Position(u)[i] \in Int
        /\ Position(u)[i + k + 1] \in Int
        /\ Position(u)[i + k + 1] = Position(u)[i + k] + Length(u, i + k) + TLV_FIELD_SIZE
    <3>1. i + k \in Nat \ {0} /\ i + k + 1 \in Nat \ {0}
      OBVIOUS
    <3> QED BY <3>1, PositionSteps
  <2>2. Length(u, i + k) \in Nat
    BY LengthType
  <2>3. Position(u)[i + k] >= Position(u)[i] + 2 * k
    BY <1>2
  <2>4. Position(u)[i + k + 1] >= Position(u)[i] + 2 * (k + 1)
    BY <2>1, <2>2, <2>3 DEF TLV_FIELD_SIZE
  <2>5. i + k + 1 = i + (k + 1)
    OBVIOUS
  <2> QED BY <2>4, <2>5
<1>3. Nat \subseteq S
  <2> HIDE DEF S
  <2> QED BY <1>1, <1>2, SetInduction
<1> QED BY <1>3

\* What is left at field i of an image of n fields: the fields behind it and
\* something that grows, as the walk subtracts too little at every field.
LEMMA LeftAtField ==
  ASSUME NEW u \in Units, NEW n \in Nat,
         Position(u)[n + 2] = HEADER + TotalLen[u], Length(u, n + 1) = CRC_SIZE
  PROVE  \A i \in 1..n : Left(u)[i] = Length(u, 1) + 1 + i
                             + Position(u)[n + 1] - Position(u)[i + 1]
<1> DEFINE What(i) == Length(u, 1) + 1 + i + Position(u)[n + 1] - Position(u)[i + 1]
           S == {k \in Nat : k < n => Left(u)[k + 1] = What(k + 1)}
<1>1. n + 1 \in Nat \ {0} /\ n + 1 + 1 = n + 2
  OBVIOUS
<1>2. 0 \in S
  <2>1. 1 \in Nat \ {0} /\ 1 + 1 \in Nat \ {0}
    OBVIOUS
  <2>2. Position(u)[n + 1 + 1] = Position(u)[n + 1] + Length(u, n + 1) + TLV_FIELD_SIZE
    BY <1>1, PositionSteps
  <2>4. Position(u)[1 + 1] = HEADER + Length(u, 1) + TLV_FIELD_SIZE
    BY <2>1, PositionSteps
  <2>5. Left(u)[1] = TotalLen[u] - (CRC_SIZE + TLV_FIELD_SIZE)
    BY LeftSteps
  <2>6. /\ HEADER \in Nat /\ TotalLen[u] \in Nat /\ CRC_SIZE \in Nat
        /\ Length(u, 1) \in Nat
        /\ Position(u)[n + 1] \in Int /\ Position(u)[1 + 1] \in Int
    BY <1>1, <2>1, ImageAssumption, LengthType, PositionSteps
  <2>7. Position(u)[n + 1] = HEADER + TotalLen[u] - CRC_SIZE - 2
    BY <1>1, <2>2, <2>6 DEF TLV_FIELD_SIZE
  <2>8. Left(u)[1] = What(1)
    BY <2>4, <2>5, <2>6, <2>7 DEF TLV_FIELD_SIZE
  <2> QED BY <2>8
<1>3. ASSUME NEW k \in Nat, k \in S PROVE k + 1 \in S
  <2> SUFFICES ASSUME k + 1 < n PROVE Left(u)[k + 1 + 1] = What(k + 1 + 1)
    OBVIOUS
  <2>0. 1 \in Nat \ {0} /\ k + 1 \in Nat \ {0} /\ k + 2 \in Nat \ {0}
    OBVIOUS
  <2>1. Left(u)[k + 1] = What(k + 1)
    BY <1>3
  <2>2. Left(u)[k + 1 + 1] = Left(u)[k + 1] - Length(u, k + 1 + 1) - TL_FIELD_SIZE
    BY <2>0, LeftSteps
  <2>3. Position(u)[k + 2 + 1] = Position(u)[k + 2] + Length(u, k + 2) + TLV_FIELD_SIZE
    BY <2>0, PositionSteps
  <2>4. /\ Position(u)[n + 1] \in Int /\ Position(u)[k + 2] \in Int
        /\ Length(u, 1) \in Nat /\ Length(u, k + 2) \in Nat
    BY <1>1, <2>0, LengthType, PositionSteps
  <2>5. k + 1 + 1 = k + 2
    OBVIOUS
  <2> QED BY <2>1, <2>2, <2>3, <2>4, <2>5 DEF TLV_FIELD_SIZE, TL_FIELD_SIZE
<1>4. Nat \subseteq S
  <2> HIDE DEF S
  <2> QED BY <1>2, <1>3, SetInduction
<1>5. ASSUME NEW i \in 1..n PROVE Left(u)[i] = What(i)
  <2>1. i - 1 \in S /\ i - 1 < n /\ i - 1 + 1 = i
    BY <1>1, <1>4
  <2> HIDE DEF What
  <2> QED BY <2>1
<1> QED BY <1>5

\* The walk comes to field i of n.
LEMMA VisitsField ==
  ASSUME NEW u \in Units, NEW n \in Nat, NEW i \in 1..n,
         Position(u)[n + 2] = HEADER + TotalLen[u], Length(u, n + 1) = CRC_SIZE
  PROVE  i \in Visited(u)
<1>1. /\ i \in Nat /\ 1 <= i /\ i <= n /\ 1 \in Nat \ {0}
      /\ i + 1 \in Nat \ {0} /\ n + 1 \in Nat \ {0}
  OBVIOUS
<1>2. Length(u, 1) \in Nat
  BY <1>1, LengthType
<1>3. \A k \in Nat : Position(u)[i + 1 + k] >= Position(u)[i + 1] + 2 * k
  BY <1>1, PositionsGrow
<1>4. Position(u)[n + 1] >= Position(u)[i + 1]
  <2>1. n - i \in Nat /\ i + 1 + (n - i) = n + 1
    BY <1>1
  <2>2. Position(u)[i + 1 + (n - i)] >= Position(u)[i + 1] + 2 * (n - i)
    BY <1>3, <2>1
  <2>3. Position(u)[n + 1] \in Int /\ Position(u)[i + 1] \in Int
    BY <1>1, PositionSteps
  <2> QED BY <1>1, <2>1, <2>2, <2>3
<1>5. Left(u)[i] > 0
  <2>1. Left(u)[i] = Length(u, 1) + 1 + i + Position(u)[n + 1] - Position(u)[i + 1]
    BY LeftAtField
  <2>2. Position(u)[n + 1] \in Int /\ Position(u)[i + 1] \in Int
    BY <1>1, PositionSteps
  <2> QED BY <1>1, <1>2, <1>4, <2>1, <2>2
<1>6. i <= TotalLen[u]
  <2>1. Position(u)[1 + (n + 1)] >= Position(u)[1] + 2 * (n + 1)
    BY <1>1, PositionsGrow
  <2>2. 1 + (n + 1) = n + 2
    BY <1>1
  <2>3. Position(u)[n + 2] = HEADER + TotalLen[u] /\ Position(u)[1] = HEADER
    BY PositionSteps
  <2>4. HEADER \in Nat /\ TotalLen[u] \in Nat
    BY ImageAssumption
  <2> QED BY <1>1, <2>1, <2>2, <2>3, <2>4
<1>7. i \in 1..TotalLen[u]
  BY <1>1, <1>6, ImageAssumption
<1> QED BY <1>5, <1>7 DEF Visited

\* The walk over the TLV fields comes to all of them, in every image.
THEOREM WalkComplete == \A u \in Units : Applied(u) = 1..Len(Fields[u])
<1> SUFFICES ASSUME NEW u \in Units, NEW i \in 1..Len(Fields[u])
             PROVE  i \in Visited(u)
  BY DEF Applied
<1>1. 1 \in Nat \ {0}
  OBVIOUS
<1>2. Len(Fields[u]) \in Nat
  BY <1>1, LengthType
<1>3. Position(u)[Len(Fields[u]) + 2] = HEADER + TotalLen[u]
  BY WalkAssumption
<1>4. Length(u, Len(Fields[u]) + 1) = CRC_SIZE
  BY <1>2 DEF Length
<1> QED BY <1>2, <1>3, <1>4, VisitsField

(***************************************************************************)
(* The inductive invariant.                                                *)
(***************************************************************************)
\* The states of a call go with the way of reading.
Shape(t) ==
  /\ pc[t] # "idle" => result[t] = "none"
  /\ pc[t] \in {"head", "value"} => parser = "exos_fan"
  /\ pc[t] \in {"header", "body"} => parser # "exos_fan"
  /\ pc[t] = "header" => parser \in Onie /\ end[t] = HEADER
  /\ pc[t] = "body" /\ parser \notin Onie => end[t] = Pieces
  /\ aimed[t] => parser = "onie_large"

\* What a call without a checksum has filled in is all it has passed.
Filled(t) ==
  /\ parser = "dell" /\ pc[t] = "body" => shown[t] = 0..(pos[t] - 1)
  /\ pc[t] \in {"head", "value"} =>
       /\ src[t] # Mixed
       /\ src[t] \in Units =>
            shown[t] = {o \in DOMAIN Tlv[src[t]] : o < pos[t]}
       /\ src[t] = NoUnit => pos[t] = 0 /\ shown[t] = {} /\ pc[t] = "head"

\* The unit in the slot can be read with a one-byte address.
Short == parser = "onie_large" /\ unit \in Units =>
           HEADER + TotalLen[unit] <= SMALL

\* An undisturbed call has read from the unit in the slot, and from the place
\* it meant to.
Undisturbed(t) ==
  clean[t] /\ pc[t] # "idle" =>
    /\ pos[t] > 0 \/ aimed[t] \/ pc[t] = "value" => unit \in Units
    /\ aimed[t] => counter = pos[t] % SMALL
    /\ Short =>
         /\ src[t] = IF pos[t] = 0 /\ pc[t] # "value" THEN NoUnit ELSE unit
         /\ pc[t] = "body" /\ parser \in Onie =>
              pos[t] > 0 /\ end[t] = HEADER + TotalLen[unit]

\* InfoOfOneUnit, of one thread.
InfoOf(t) ==
  result[t] = "ok" /\ (parser \in Checked \/ clean[t]) =>
    src[t] \in Units /\ shown[t] = AllOf(src[t])

ThreadInv(t) == InBounds(t) /\ Shape(t) /\ Filled(t) /\ Undisturbed(t)

IInv == Domains /\ \A t \in Threads : ThreadInv(t)

(***************************************************************************)
(* A step of one thread leaves what is said of the others.                 *)
(***************************************************************************)
\* Nothing of thread t changes but that it may be disturbed.
Untouched(t) ==
  /\ UNCHANGED <<parser, unit>>
  /\ pc'[t] = pc[t] /\ pos'[t] = pos[t] /\ end'[t] = end[t]
  /\ aimed'[t] = aimed[t] /\ src'[t] = src[t] /\ shown'[t] = shown[t]
  /\ result'[t] = result[t]
  /\ clean'[t] => clean[t]
  /\ counter' = counter \/ (clean'[t] => ~aimed[t])

LEMMA UntouchedInv ==
  ASSUME IInv, NEW t \in Threads, Untouched(t)
  PROVE  ThreadInv(t)' /\ (InfoOf(t) => InfoOf(t)')
<1>1. ThreadInv(t)
  BY DEF IInv
<1>2. InBounds(t)'
  BY <1>1 DEF ThreadInv, InBounds, Untouched, Size, Reading
<1>3. Shape(t)' /\ Filled(t)'
  BY <1>1 DEF ThreadInv, Shape, Filled, Untouched
<1>4. Undisturbed(t)'
  BY <1>1 DEF ThreadInv, Undisturbed, Untouched, Short
<1>5. InfoOf(t) => InfoOf(t)'
  BY DEF InfoOf, AllOf, Untouched
<1> QED
  BY <1>2, <1>3, <1>4, <1>5 DEF ThreadInv

LEMMA Addresses ==
  /\ \A n \in Nat : n % SMALL \in 0..(LARGE - 1)
  /\ \A n \in Nat : n < SMALL => n % SMALL = n
  /\ \A n \in Nat : (n + 1) % LARGE \in 0..(LARGE - 1)
<1>1. \A m \in Nat \ {0} : \A n \in Nat : n % m \in 0..(m - 1)
  OBVIOUS
<1>2. \A m \in Nat \ {0} : \A n \in Nat : n < m => n % m = n
  OBVIOUS
<1>3. SMALL \in Nat \ {0} /\ LARGE \in Nat \ {0} /\ SMALL <= LARGE
  BY ImageAssumption
<1>4. \A n \in Nat : n % SMALL \in 0..(SMALL - 1)
  BY <1>1, <1>3
<1>5. \A n \in Nat : n % SMALL \in 0..(LARGE - 1)
  BY <1>3, <1>4
<1>6. \A n \in Nat : n < SMALL => n % SMALL = n
  BY <1>2, <1>3
<1>7. ASSUME NEW n \in Nat PROVE (n + 1) % LARGE \in 0..(LARGE - 1)
  <2>1. n + 1 \in Nat
    OBVIOUS
  <2> QED
    BY <1>1, <1>3, <2>1
<1> QED
  BY <1>5, <1>6, <1>7

LEMMA ByteTypes ==
  ASSUME NEW s \in Units \cup {NoUnit, Mixed}, NEW u \in Units
  PROVE  /\ Merge(s, u) \in Units \cup {Mixed}
         /\ s \in {NoUnit, u} => Merge(s, u) = u
         /\ Merge(s, u) \in Units => Merge(s, u) = u /\ s \in {NoUnit, u}
  BY NameAssumption DEF Merge

\* A call on a chain that has not lost its unit is at a head of its chain.
LEMMA OnChain ==
  ASSUME IInv, NEW t \in Threads, pc[t] \in {"head", "value"},
         unit \in Units, Merge(src[t], unit) # Mixed
  PROVE  /\ pos[t] \in DOMAIN Tlv[unit] /\ pos[t] \in Nat
         /\ Tlv[unit][pos[t]].len \in Nat
         /\ shown[t] = {o \in DOMAIN Tlv[unit] : o < pos[t]}
         /\ src[t] \in {NoUnit, unit}
<1>1. src[t] \in {NoUnit, unit}
  BY NameAssumption DEF Merge
<1>2. pos[t] \in DOMAIN Tlv[unit]
  BY <1>1, ChainAssumption, NameAssumption DEF IInv, ThreadInv, InBounds, Filled
<1>3. DOMAIN Tlv[unit] \subseteq Nat
  BY ChainAssumption
<1>4. shown[t] = {o \in DOMAIN Tlv[unit] : o < pos[t]}
  <2>1. CASE src[t] = unit
    BY <2>1 DEF IInv, ThreadInv, Filled
  <2>2. CASE src[t] = NoUnit
    BY <2>2, <1>3 DEF IInv, ThreadInv, Filled
  <2> QED
    BY <1>1, <2>1, <2>2
<1>5. Tlv[unit][pos[t]].len \in Nat
  BY <1>2, ChainAssumption
<1> QED
  BY <1>1, <1>2, <1>3, <1>4, <1>5

LEMMA AppliedTypes == \A u \in Units : Applied(u) \in SUBSET Nat
  BY DEF Applied

(***************************************************************************)
(* Each action preserves the types.                                        *)
(***************************************************************************)
LEMMA DomainStep == IInv /\ [Next]_vars => Domains'
<1> SUFFICES ASSUME IInv, Domains, [Next]_vars PROVE Domains'
  BY DEF IInv
<1> USE DEF Domains
<1>1. ASSUME NEW t \in Threads, Start(t) PROVE Domains'
  BY <1>1, ImageAssumption DEF Start
<1>2. ASSUME NEW t \in Threads, Aim(t) PROVE Domains'
  BY <1>2, Addresses DEF Aim, Interfered
<1>3. ASSUME NEW t \in Threads, Receive(t) PROVE Domains'
  <2>1. (counter + 1) % LARGE \in 0..(LARGE - 1)
    BY Addresses
  <2>2. /\ unit \in Units
        /\ Merge(src[t], unit) \in Units \cup {Mixed}
    BY <1>3, ByteTypes DEF Receive
  <2> QED
    BY <1>3, <2>1, <2>2 DEF Receive, Interfered
<1>4. ASSUME NEW t \in Threads, ReadPiece(t) PROVE Domains'
  BY <1>4, ByteTypes DEF ReadPiece
<1>5. ASSUME NEW t \in Threads, ValidateHeader(t) PROVE Domains'
  <2>1. \A u \in Units : HEADER + TotalLen[u] \in Nat
    BY ImageAssumption
  <2> QED
    BY <1>5, <2>1 DEF ValidateHeader, Return
<1>6. ASSUME NEW t \in Threads, ValidateChecksum(t) PROVE Domains'
  BY <1>6, AppliedTypes DEF ValidateChecksum, Return
<1>7. ASSUME NEW t \in Threads, LookUpPart(t) PROVE Domains'
  <2>1. 0..(Pieces - 1) \in SUBSET Nat
    BY ImageAssumption
  <2> QED
    BY <1>7, <2>1 DEF LookUpPart, Return
<1>8. ASSUME NEW t \in Threads, EndTable(t) PROVE Domains'
  BY <1>8 DEF EndTable, Return
<1>9. ASSUME NEW t \in Threads, ReadHead(t) PROVE Domains'
  BY <1>9, ByteTypes DEF ReadHead, Return
<1>10. ASSUME NEW t \in Threads, ReadValue(t) PROVE Domains'
  <2>1. /\ unit \in Units
        /\ Merge(src[t], unit) \in Units \cup {Mixed}
    BY <1>10, ByteTypes DEF ReadValue
  <2>2. src' \in [Threads -> Units \cup {NoUnit, Mixed}]
    BY <1>10, <2>1 DEF ReadValue
  <2>3. CASE Merge(src[t], unit) = Mixed
    BY <1>10, <2>2, <2>3 DEF ReadValue, Return
  <2>4. CASE Merge(src[t], unit) # Mixed
    <3>1. /\ pos[t] \in Nat
          /\ pos[t] + MIN_TLV_LEN + Tlv[unit][pos[t]].len \in Nat
      BY <1>10, <2>1, <2>4, OnChain DEF ReadValue, MIN_TLV_LEN
    <3>2. pos' \in [Threads -> Nat] /\ shown' \in [Threads -> SUBSET Nat]
      BY <1>10, <2>4, <3>1 DEF ReadValue
    <3> QED
      BY <1>10, <2>2, <2>4, <3>2 DEF ReadValue, Return
  <2> QED
    BY <2>3, <2>4
<1>11. ASSUME NEW t \in Threads, BusError(t) PROVE Domains'
  <2>1. /\ (counter + 1) % LARGE \in 0..(LARGE - 1)
        /\ pos[t] % SMALL \in 0..(LARGE - 1)
    BY Addresses
  <2>2. counter' \in 0..(LARGE - 1)
    BY <1>11, <2>1 DEF BusError
  <2>3. clean' \in [Threads -> BOOLEAN] /\ aimed' \in [Threads -> BOOLEAN]
    BY <1>11 DEF BusError, Interfered
  <2>4. /\ pos' \in [Threads -> Nat]
        /\ src' \in [Threads -> Units \cup {NoUnit, Mixed}]
        /\ pc' \in [Threads -> {"idle", "header", "body", "head", "value"}]
        /\ result' \in [Threads -> {"none", "ok", "err"}]
    BY <1>11 DEF BusError, Return
  <2> QED
    BY <1>11, <2>2, <2>3, <2>4 DEF BusError
<1>12. CASE Pull
  BY <1>12 DEF Pull
<1>13. CASE Plug
  BY <1>13, ImageAssumption DEF Plug
<1>14. CASE UNCHANGED vars
  BY <1>14 DEF vars
<1> QED
  BY <1>1, <1>2, <1>3, <1>4, <1>5, <1>6, <1>7, <1>8, <1>9, <1>10,
     <1>11, <1>12,
     <1>13, <1>14 DEF Next, Step
(***************************************************************************)
(* What a step does to the call that makes it.                             *)
(***************************************************************************)
\* A step of another thread.
LEMMA OtherSteps ==
  ASSUME IInv, NEW s \in Threads, Step(s), NEW t \in Threads, t # s
  PROVE  Untouched(t)
<1> USE DEF IInv, Domains, Untouched
<1>1. CASE Start(s)
  BY <1>1 DEF Start
<1>2. CASE Aim(s)
  BY <1>2 DEF Aim, Interfered
<1>3. CASE Receive(s)
  BY <1>3 DEF Receive, Interfered
<1>4. CASE ReadPiece(s)
  BY <1>4 DEF ReadPiece
<1>5. CASE ValidateHeader(s)
  BY <1>5 DEF ValidateHeader, Return
<1>6. CASE ValidateChecksum(s)
  BY <1>6 DEF ValidateChecksum, Return
<1>7. CASE LookUpPart(s)
  BY <1>7 DEF LookUpPart, Return
<1>8. CASE EndTable(s)
  BY <1>8 DEF EndTable, Return
<1>9. CASE ReadHead(s)
  BY <1>9 DEF ReadHead, Return
<1>10. CASE ReadValue(s)
  BY <1>10 DEF ReadValue, Return
<1>11. CASE BusError(s)
  BY <1>11 DEF BusError, Return, Interfered
<1> QED
  BY <1>1, <1>2, <1>3, <1>4, <1>5, <1>6, <1>7, <1>8, <1>9, <1>10, <1>11
     DEF Step

LEMMA StartOwn ==
  ASSUME IInv, NEW t \in Threads, Start(t)
  PROVE  ThreadInv(t)' /\ InfoOf(t)'
<1> USE DEF IInv, Domains
<1>0. ~aimed[t]
  BY DEF Start, ThreadInv, InBounds, Reading
<1>1. /\ pc'[t] = IF parser \in Onie THEN "header"
                  ELSE IF parser = "exos_fan" THEN "head" ELSE "body"
      /\ pos'[t] = 0 /\ src'[t] = NoUnit /\ shown'[t] = {}
      /\ end'[t] = IF parser \in Onie THEN HEADER ELSE Pieces
      /\ result'[t] = "none" /\ ~aimed'[t]
      /\ UNCHANGED <<parser, unit, counter>>
  BY <1>0 DEF Start
<1>2. InBounds(t)'
  BY <1>1, ImageAssumption, NameAssumption DEF InBounds, Size, Onie
<1>3. Shape(t)'
  BY <1>1 DEF Shape, Onie
<1>4. Filled(t)'
  BY <1>1, NameAssumption DEF Filled, Onie
<1>5. Undisturbed(t)'
  BY <1>1 DEF Undisturbed
<1>6. InfoOf(t)'
  BY <1>1 DEF InfoOf
<1> QED
  BY <1>2, <1>3, <1>4, <1>5, <1>6 DEF ThreadInv

LEMMA AimOwn ==
  ASSUME IInv, NEW t \in Threads, Aim(t)
  PROVE  ThreadInv(t)' /\ InfoOf(t)'
<1> USE DEF IInv, Domains
<1>1. /\ UNCHANGED <<parser, unit, pc, pos, end, src, shown, result>>
      /\ counter' = pos[t] % SMALL
      /\ parser = "onie_large" /\ unit \in Units /\ Reading(t)
      /\ aimed'[t] /\ clean'[t] = clean[t]
  BY DEF Aim, Interfered
<1>2. InBounds(t)'
  BY <1>1 DEF ThreadInv, InBounds, Size, Reading
<1>3. Shape(t)'
  BY <1>1 DEF ThreadInv, Shape
<1>4. Filled(t)'
  BY <1>1 DEF ThreadInv, Filled
<1>5. Undisturbed(t)'
  BY <1>1 DEF ThreadInv, Undisturbed, Short
<1>6. InfoOf(t)'
  BY <1>1 DEF ThreadInv, Shape, Reading, InfoOf
<1> QED
  BY <1>2, <1>3, <1>4, <1>5, <1>6 DEF ThreadInv

LEMMA ReceiveOwn ==
  ASSUME IInv, NEW t \in Threads, Receive(t)
  PROVE  ThreadInv(t)' /\ InfoOf(t)'
<1> USE DEF IInv, Domains
<1>1. /\ UNCHANGED <<parser, unit, pc, end, shown, result>>
      /\ parser = "onie_large" /\ unit \in Units /\ Reading(t)
      /\ aimed[t] /\ ~aimed'[t] /\ clean'[t] = clean[t]
      /\ pos'[t] = pos[t] + 1
      /\ src'[t] = IF counter = pos[t] THEN Merge(src[t], unit) ELSE Mixed
      /\ pos[t] \in Nat /\ end[t] \in Nat
  BY DEF Receive, Interfered, ThreadInv, Shape, InBounds
<1>2. pc[t] \in {"header", "body"} /\ pos[t] < end[t]
  BY <1>1 DEF Reading
<1>3. InBounds(t)'
  BY <1>1, <1>2 DEF ThreadInv, InBounds, Size, Reading
<1>4. Shape(t)'
  BY <1>1 DEF ThreadInv, Shape
<1>5. Filled(t)'
  BY <1>1, <1>2 DEF Filled
<1>6. Undisturbed(t)'
  <2> SUFFICES ASSUME clean[t] PROVE Undisturbed(t)'
    BY <1>1 DEF Undisturbed
  <2>1. counter = pos[t] % SMALL
    BY <1>1, <1>2 DEF ThreadInv, Undisturbed
  <2>2. ASSUME Short
        PROVE  /\ src'[t] = unit
               /\ pc[t] = "body" => end[t] = HEADER + TotalLen[unit]
    <3>1. pos[t] < SMALL
      <4>1. CASE pc[t] = "header"
        BY <1>1, <1>2, <4>1, ImageAssumption DEF ThreadInv, Shape
      <4>2. CASE pc[t] = "body"
        <5>1. end[t] = HEADER + TotalLen[unit]
          BY <1>1, <2>2, <4>2 DEF ThreadInv, Undisturbed, Onie
        <5>2. HEADER + TotalLen[unit] <= SMALL
          BY <1>1, <2>2 DEF Short
        <5> QED
          BY <1>1, <1>2, <5>1, <5>2, ImageAssumption
      <4> QED
        BY <1>2, <4>1, <4>2
    <3>2. counter = pos[t]
      BY <1>1, <2>1, <3>1, Addresses
    <3>3. src[t] \in {NoUnit, unit}
      BY <1>1, <1>2, <2>2 DEF ThreadInv, Undisturbed
    <3>4. src'[t] = unit
      BY <1>1, <3>2, <3>3, ByteTypes
    <3> QED
      BY <1>1, <2>2, <3>4 DEF ThreadInv, Undisturbed, Onie
  <2> QED
    BY <1>1, <1>2, <2>2 DEF Undisturbed, Short
<1>7. InfoOf(t)'
  BY <1>1, <1>2 DEF ThreadInv, Shape, InfoOf
<1> QED
  BY <1>3, <1>4, <1>5, <1>6, <1>7 DEF ThreadInv

LEMMA ReadPieceOwn ==
  ASSUME IInv, NEW t \in Threads, ReadPiece(t)
  PROVE  ThreadInv(t)' /\ InfoOf(t)'
<1> USE DEF IInv, Domains
<1>1. /\ UNCHANGED <<parser, unit, counter, pc, end, aimed, clean, result>>
      /\ parser \in {"onie_small", "exos_psu", "dell"} /\ unit \in Units
      /\ pos'[t] = pos[t] + 1 /\ src'[t] = Merge(src[t], unit)
      /\ parser = "dell" => shown'[t] = shown[t] \cup {pos[t]}
      /\ pos[t] \in Nat /\ end[t] \in Nat /\ ~aimed[t]
  BY DEF ReadPiece, ThreadInv, Shape
<1>2. pc[t] \in {"header", "body"} /\ pos[t] < end[t]
  BY DEF ReadPiece, Reading
<1>3. InBounds(t)'
  BY <1>1, <1>2 DEF ThreadInv, InBounds, Size, Reading
<1>4. Shape(t)'
  BY <1>1 DEF ThreadInv, Shape
<1>5. Filled(t)'
  <2>1. parser = "dell" /\ pc[t] = "body" =>
          shown'[t] = 0..(pos[t] - 1) \cup {pos[t]}
    BY <1>1 DEF ThreadInv, Filled
  <2>2. 0..(pos[t] - 1) \cup {pos[t]} = 0..((pos[t] + 1) - 1)
    BY <1>1
  <2> QED
    BY <1>1, <1>2, <2>1, <2>2 DEF Filled
<1>6. Undisturbed(t)'
  <2>1. clean[t] => src'[t] = unit
    BY <1>1, <1>2, ByteTypes DEF ThreadInv, Undisturbed, Short
  <2> QED
    BY <1>1, <1>2, <2>1 DEF ThreadInv, Undisturbed, Short
<1>7. InfoOf(t)'
  BY <1>1, <1>2 DEF ThreadInv, Shape, InfoOf
<1> QED
  BY <1>3, <1>4, <1>5, <1>6, <1>7 DEF ThreadInv

\* A thread that returns has only its information to answer for.
LEMMA Returned ==
  ASSUME IInv, NEW t \in Threads, UNCHANGED <<parser, unit, aimed, end>>,
         ~aimed[t], pc'[t] = "idle"
  PROVE  ThreadInv(t)'
BY DEF IInv, Domains, ThreadInv, InBounds, Shape, Filled, Undisturbed, Reading,
       Size

LEMMA ValidateHeaderOwn ==
  ASSUME IInv, NEW t \in Threads, ValidateHeader(t)
  PROVE  ThreadInv(t)' /\ InfoOf(t)'
<1> USE DEF IInv, Domains
<1>1. /\ UNCHANGED <<parser, unit, counter, pos, aimed, src, shown, clean>>
      /\ pc[t] = "header" /\ pos[t] = end[t] /\ end[t] = HEADER
      /\ parser \in Onie /\ result[t] = "none"
      /\ pos[t] \in Nat /\ ~aimed[t]
  BY DEF ValidateHeader, ThreadInv, Shape, InBounds, Reading
<1>2. CASE Return(t, "err") /\ UNCHANGED end
  <2>1. pc'[t] = "idle" /\ result'[t] = "err"
    BY <1>2 DEF Return
  <2> QED
    BY <1>1, <1>2, <2>1, Returned DEF InfoOf
<1>3. CASE /\ pc' = [pc EXCEPT ![t] = "body"] /\ UNCHANGED result
           /\ \E u \in Units :
                /\ src[t] \in {u, Mixed}
                /\ HEADER + TotalLen[u] <= Size
                /\ end' = [end EXCEPT ![t] = HEADER + TotalLen[u]]
  <2> PICK u \in Units : /\ src[t] \in {u, Mixed}
                         /\ HEADER + TotalLen[u] <= Size
                         /\ end' = [end EXCEPT ![t] = HEADER + TotalLen[u]]
    BY <1>3
  <2>1. /\ pc'[t] = "body" /\ result'[t] = "none"
        /\ end'[t] = HEADER + TotalLen[u]
    BY <1>1, <1>3
  <2>2. HEADER \in Nat \ {0} /\ TotalLen[u] \in Nat
    BY ImageAssumption
  <2>3. InBounds(t)'
    BY <1>1, <2>1, <2>2 DEF InBounds, Size
  <2>4. Shape(t)'
    BY <1>1, <2>1 DEF Shape, Onie
  <2>5. Filled(t)'
    BY <1>1, <2>1 DEF Filled, Onie
  <2>6. Undisturbed(t)'
    <3>1. clean[t] => (Short => src[t] = unit) /\ unit \in Units
      BY <1>1, <2>2 DEF ThreadInv, Undisturbed
    <3>2. clean[t] /\ Short => u = unit
      BY <3>1, NameAssumption
    <3> QED
      BY <1>1, <2>1, <2>2, <3>1, <3>2 DEF Undisturbed, Short
  <2>7. InfoOf(t)'
    BY <2>1 DEF InfoOf
  <2> QED
    BY <2>3, <2>4, <2>5, <2>6, <2>7 DEF ThreadInv
<1> QED
  BY <1>2, <1>3 DEF ValidateHeader

LEMMA ValidateChecksumOwn ==
  ASSUME IInv, NEW t \in Threads, ValidateChecksum(t)
  PROVE  ThreadInv(t)' /\ InfoOf(t)'
<1> USE DEF IInv, Domains
<1>1. /\ UNCHANGED <<parser, unit, aimed, end, src>> /\ parser \in Onie
      /\ ~aimed[t] /\ pc'[t] = "idle"
  BY DEF ValidateChecksum, Return, ThreadInv, InBounds, Reading
<1>2. ThreadInv(t)'
  BY <1>1, Returned
<1>3. result'[t] = "ok" => src[t] \in Units /\ shown'[t] = Applied(src[t])
  BY DEF ValidateChecksum, Return
<1>4. InfoOf(t)'
  BY <1>1, <1>3, WalkComplete DEF InfoOf, AllOf
<1> QED
  BY <1>2, <1>4

LEMMA LookUpPartOwn ==
  ASSUME IInv, NEW t \in Threads, LookUpPart(t)
  PROVE  ThreadInv(t)' /\ InfoOf(t)'
<1> USE DEF IInv, Domains
<1>1. /\ UNCHANGED <<parser, unit, aimed, end, src>> /\ parser = "exos_psu"
      /\ ~aimed[t] /\ pc'[t] = "idle"
  BY DEF LookUpPart, Return, ThreadInv, InBounds, Reading
<1>2. ThreadInv(t)'
  BY <1>1, Returned
<1>3. result'[t] = "ok" => src[t] \in Units /\ shown'[t] = 0..(Pieces - 1)
  BY DEF LookUpPart, Return
<1>4. InfoOf(t)'
  BY <1>1, <1>3 DEF InfoOf, AllOf, Onie
<1> QED
  BY <1>2, <1>4

LEMMA EndTableOwn ==
  ASSUME IInv, NEW t \in Threads, EndTable(t)
  PROVE  ThreadInv(t)' /\ InfoOf(t)'
<1> USE DEF IInv, Domains
<1>1. /\ UNCHANGED <<parser, unit, aimed, end, src, shown, clean>>
      /\ parser = "dell" /\ ~aimed[t] /\ pc'[t] = "idle"
      /\ pc[t] = "body" /\ pos[t] = end[t]
  BY DEF EndTable, Return, ThreadInv, InBounds, Reading
<1>2. ThreadInv(t)'
  BY <1>1, Returned
<1>3. pos[t] = Pieces /\ Pieces \in Nat \ {0}
  BY <1>1, ImageAssumption DEF ThreadInv, Shape, Onie
<1>4. shown[t] = 0..(Pieces - 1)
  BY <1>1, <1>3 DEF ThreadInv, Filled
<1>5. clean[t] => src[t] \in Units
  BY <1>1, <1>3 DEF ThreadInv, Undisturbed, Short
<1>6. InfoOf(t)'
  BY <1>1, <1>4, <1>5 DEF InfoOf, AllOf, Onie, Checked
<1> QED
  BY <1>2, <1>6

\* An undisturbed walk over a chain has not lost its unit.
LEMMA ChainKept ==
  ASSUME IInv, NEW t \in Threads, pc[t] \in {"head", "value"}, unit \in Units
  PROVE  /\ parser = "exos_fan" /\ ~aimed[t] /\ result[t] = "none"
         /\ clean[t] => Merge(src[t], unit) # Mixed
<1>1. parser = "exos_fan" /\ ~aimed[t] /\ result[t] = "none"
  BY DEF IInv, Domains, ThreadInv, Shape
<1>2. clean[t] => src[t] \in {NoUnit, unit}
  BY <1>1 DEF IInv, Domains, ThreadInv, Undisturbed, Short
<1> QED
  BY <1>1, <1>2, NameAssumption DEF Merge

LEMMA ReadHeadOwn ==
  ASSUME IInv, NEW t \in Threads, ReadHead(t)
  PROVE  ThreadInv(t)' /\ InfoOf(t)'
<1> USE DEF IInv, Domains
<1>1. /\ UNCHANGED <<parser, unit, counter, pos, end, aimed, shown, clean>>
      /\ pc[t] = "head" /\ unit \in Units /\ src'[t] = Merge(src[t], unit)
  BY DEF ReadHead
<1>2. /\ parser = "exos_fan" /\ ~aimed[t] /\ result[t] = "none"
      /\ clean[t] => Merge(src[t], unit) # Mixed
  BY <1>1, ChainKept
<1>3. CASE Merge(src[t], unit) = Mixed
  <2>1. \E r \in {"ok", "err"} : Return(t, r)
    BY <1>3 DEF ReadHead
  <2>2. pc'[t] = "idle" /\ ~clean'[t]
    BY <1>1, <1>2, <1>3, <2>1 DEF Return
  <2> QED
    BY <1>1, <1>2, <2>2, Returned DEF InfoOf, Checked, Onie
<1>4. CASE /\ Merge(src[t], unit) # Mixed
           /\ Tlv[unit][pos[t]].len > MAX_TLV_VALUE_LEN
  <2>1. pc'[t] = "idle" /\ result'[t] = "err"
    BY <1>4 DEF ReadHead, Return
  <2> QED
    BY <1>1, <1>2, <2>1, Returned DEF InfoOf
<1>5. CASE /\ Merge(src[t], unit) # Mixed
           /\ ~(Tlv[unit][pos[t]].len > MAX_TLV_VALUE_LEN)
  <2>1. pc'[t] = "value" /\ result'[t] = "none"
    BY <1>2, <1>5 DEF ReadHead
  <2>2. src'[t] = unit
    BY <1>1, <1>5, ByteTypes
  <2>3. /\ pos[t] \in DOMAIN Tlv[unit]
        /\ shown[t] = {o \in DOMAIN Tlv[unit] : o < pos[t]}
    BY <1>1, <1>5, OnChain
  <2>4. InBounds(t)'
    BY <1>1, <1>2, <2>1, <2>2, <2>3 DEF InBounds, Onie
  <2>5. Shape(t)'
    BY <1>1, <1>2, <2>1 DEF Shape
  <2>6. Filled(t)'
    BY <1>1, <1>2, <2>1, <2>2, <2>3, NameAssumption DEF Filled
  <2>7. Undisturbed(t)'
    BY <1>1, <1>2, <2>1, <2>2 DEF Undisturbed
  <2>8. InfoOf(t)'
    BY <2>1 DEF InfoOf
  <2> QED
    BY <2>4, <2>5, <2>6, <2>7, <2>8 DEF ThreadInv
<1> QED
  BY <1>3, <1>4, <1>5

\* The heads up to and with the one at o.
LEMMA NextHead ==
  ASSUME NEW u \in Units, NEW o \in DOMAIN Tlv[u]
  PROVE  LET next == o + MIN_TLV_LEN + Tlv[u][o].len
             heads == {p \in DOMAIN Tlv[u] : p < o} \cup {o}
         IN  /\ next \in Nat /\ o < next
             /\ heads = {p \in DOMAIN Tlv[u] : p < next}
             /\ Tlv[u][o].type = "eoi" => heads = DOMAIN Tlv[u]
             /\ Tlv[u][o].type # "eoi" => next \in DOMAIN Tlv[u]
<1> DEFINE next == o + MIN_TLV_LEN + Tlv[u][o].len
<1>1. /\ DOMAIN Tlv[u] \subseteq Nat /\ o \in Nat
      /\ Tlv[u][o].len \in Nat
      /\ \A p \in DOMAIN Tlv[u] : p <= o \/ p >= next
      /\ Tlv[u][o].type = "eoi" => \A p \in DOMAIN Tlv[u] : p <= o
      /\ Tlv[u][o].type # "eoi" => next \in DOMAIN Tlv[u]
  BY ChainAssumption
<1>2. next \in Nat /\ o < next
  BY <1>1 DEF MIN_TLV_LEN
<1> HIDE DEF next
<1>3. /\ {p \in DOMAIN Tlv[u] : p < o} \cup {o}
           = {p \in DOMAIN Tlv[u] : p < next}
      /\ Tlv[u][o].type = "eoi" =>
           {p \in DOMAIN Tlv[u] : p < o} \cup {o} = DOMAIN Tlv[u]
  BY <1>1, <1>2
<1> QED
  BY <1>1, <1>2, <1>3 DEF next

LEMMA ReadValueOwn ==
  ASSUME IInv, NEW t \in Threads, ReadValue(t)
  PROVE  ThreadInv(t)' /\ InfoOf(t)'
<1> USE DEF IInv, Domains
<1> DEFINE tlv == Tlv[unit][pos[t]]
           heads == shown[t] \cup {pos[t]}
           next == pos[t] + MIN_TLV_LEN + tlv.len
<1>1. /\ UNCHANGED <<parser, unit, counter, end, aimed, clean>>
      /\ pc[t] = "value" /\ unit \in Units /\ src'[t] = Merge(src[t], unit)
  BY DEF ReadValue
<1>2. /\ parser = "exos_fan" /\ ~aimed[t] /\ result[t] = "none"
      /\ clean[t] => Merge(src[t], unit) # Mixed
  BY <1>1, ChainKept
<1>3. CASE Merge(src[t], unit) = Mixed
  <2>1. \E r \in {"ok", "err"} : Return(t, r)
    BY <1>3 DEF ReadValue
  <2>2. pc'[t] = "idle" /\ ~clean'[t]
    BY <1>1, <1>2, <1>3, <2>1 DEF Return
  <2> QED
    BY <1>1, <1>2, <2>2, Returned DEF InfoOf, Checked, Onie
<1>4. CASE Merge(src[t], unit) # Mixed
  <2>1. src'[t] = unit
    BY <1>1, <1>4, ByteTypes
  <2>2. /\ pos[t] \in DOMAIN Tlv[unit]
        /\ shown[t] = {o \in DOMAIN Tlv[unit] : o < pos[t]}
    BY <1>1, <1>4, OnChain
  <2>3. /\ next \in Nat /\ 0 < next
        /\ heads = {o \in DOMAIN Tlv[unit] : o < next}
        /\ tlv.type = "eoi" => heads = DOMAIN Tlv[unit]
        /\ tlv.type # "eoi" => next \in DOMAIN Tlv[unit]
    BY <1>1, <2>2, NextHead
  <2>4. pos'[t] = next /\ shown'[t] = heads
    BY <1>4 DEF ReadValue
  <2>5. CASE pc' = [pc EXCEPT ![t] = "head"] /\ UNCHANGED result
             /\ tlv.type # "eoi"
    <3>1. pc'[t] = "head" /\ result'[t] = "none"
      BY <1>2, <2>5
    <3>2. InBounds(t)'
      BY <1>1, <1>2, <2>1, <2>3, <2>4, <2>5, <3>1 DEF InBounds, Onie
    <3>3. Shape(t)'
      BY <1>1, <1>2, <3>1 DEF Shape
    <3>4. Filled(t)'
      BY <1>1, <1>2, <2>1, <2>3, <2>4, <3>1, NameAssumption DEF Filled
    <3>5. Undisturbed(t)'
      BY <1>1, <1>2, <2>1, <2>3, <2>4, <3>1 DEF Undisturbed
    <3>6. InfoOf(t)'
      BY <3>1 DEF InfoOf
    <3> QED
      BY <3>2, <3>3, <3>4, <3>5, <3>6 DEF ThreadInv
  <2>6. CASE \/ Return(t, "err")
             \/ Return(t, "ok") /\ tlv.type = "eoi"
    <3>1. pc'[t] = "idle"
      BY <2>6 DEF Return
    <3>2. ThreadInv(t)'
      BY <1>1, <1>2, <3>1, Returned
    <3>3. result'[t] = "ok" => tlv.type = "eoi"
      BY <2>6 DEF Return
    <3>4. InfoOf(t)'
      BY <1>1, <1>2, <2>1, <2>3, <2>4, <3>3 DEF InfoOf, AllOf, Onie
    <3> QED
      BY <3>2, <3>4
  <2> QED
    BY <1>4, <2>5, <2>6 DEF ReadValue
<1> QED
  BY <1>3, <1>4

LEMMA BusErrorOwn ==
  ASSUME IInv, NEW t \in Threads, BusError(t)
  PROVE  ThreadInv(t)' /\ InfoOf(t)'
<1> USE DEF IInv, Domains
<1>1. /\ UNCHANGED <<parser, unit, end, shown>>
      /\ ~clean'[t] /\ ~aimed'[t]
      /\ pc[t] # "idle" /\ result[t] = "none"
  BY DEF BusError, Interfered, Reading, ThreadInv, Shape
<1>2. CASE parser \in Onie /\ pc[t] = "body"
  <2>1. /\ pos'[t] = end[t] /\ src'[t] = Mixed
        /\ UNCHANGED <<pc, result>>
    BY <1>2 DEF BusError
  <2>2. InBounds(t)'
    BY <1>1, <1>2, <2>1 DEF ThreadInv, InBounds, Size
  <2>3. Shape(t)' /\ Filled(t)'
    BY <1>1, <1>2, <2>1 DEF ThreadInv, Shape, Filled, Onie
  <2>4. Undisturbed(t)' /\ InfoOf(t)'
    BY <1>1, <2>1 DEF Undisturbed, InfoOf
  <2> QED
    BY <2>2, <2>3, <2>4 DEF ThreadInv
<1>3. CASE ~(parser \in Onie /\ pc[t] = "body")
  <2>1. pc'[t] = "idle" /\ result'[t] = "err"
    BY <1>3 DEF BusError, Return
  <2>2. ThreadInv(t)'
    BY <1>1, <2>1 DEF ThreadInv, InBounds, Shape, Filled, Undisturbed, Size
  <2> QED
    BY <2>1, <2>2 DEF InfoOf
<1> QED
  BY <1>2, <1>3

(***************************************************************************)
(* Pulling, plugging, and all steps together.                              *)
(***************************************************************************)
LEMMA PullKeeps ==
  ASSUME IInv, Pull, NEW t \in Threads
  PROVE  ThreadInv(t)' /\ (InfoOf(t) => InfoOf(t)')
<1> USE DEF IInv, Domains
<1>1. /\ UNCHANGED <<parser, counter, pc, pos, end, aimed, src, shown, result>>
      /\ clean'[t] => clean[t] /\ pc[t] = "idle"
  BY DEF Pull
<1>2. InBounds(t)'
  BY <1>1 DEF ThreadInv, InBounds, Size, Reading
<1>3. Shape(t)' /\ Filled(t)'
  BY <1>1 DEF ThreadInv, Shape, Filled
<1>4. Undisturbed(t)'
  BY <1>1 DEF Undisturbed
<1>5. InfoOf(t) => InfoOf(t)'
  BY <1>1 DEF InfoOf, AllOf
<1> QED
  BY <1>2, <1>3, <1>4, <1>5 DEF ThreadInv

\* An undisturbed call has read nothing when a unit is plugged.
LEMMA PlugKeeps ==
  ASSUME IInv, Plug, NEW t \in Threads
  PROVE  ThreadInv(t)' /\ (InfoOf(t) => InfoOf(t)')
<1> USE DEF IInv, Domains
<1>1. /\ UNCHANGED <<parser, pc, pos, end, aimed, src, shown, clean, result>>
      /\ unit = NoUnit
  BY DEF Plug
<1>2. InBounds(t)'
  BY <1>1 DEF ThreadInv, InBounds, Size, Reading
<1>3. Shape(t)' /\ Filled(t)'
  BY <1>1 DEF ThreadInv, Shape, Filled
<1>4. Undisturbed(t)'
  <2> SUFFICES ASSUME clean[t], pc[t] # "idle" PROVE Undisturbed(t)'
    BY <1>1 DEF Undisturbed
  <2>1. pos[t] = 0 /\ ~aimed[t] /\ pc[t] # "value"
    BY <1>1, NameAssumption DEF ThreadInv, Undisturbed
  <2>2. src[t] = NoUnit /\ ~(pc[t] = "body" /\ parser \in Onie)
    BY <1>1, <2>1, NameAssumption DEF ThreadInv, Undisturbed, Short
  <2> QED
    BY <1>1, <2>1, <2>2 DEF Undisturbed
<1>5. InfoOf(t) => InfoOf(t)'
  BY <1>1 DEF InfoOf, AllOf
<1> QED
  BY <1>2, <1>3, <1>4, <1>5 DEF ThreadInv

\* A thread's own step.
LEMMA OwnStep ==
  ASSUME IInv, NEW t \in Threads, Step(t)
  PROVE  ThreadInv(t)' /\ InfoOf(t)'
<1>1. CASE Start(t)
  BY <1>1, StartOwn
<1>2. CASE Aim(t)
  BY <1>2, AimOwn
<1>3. CASE Receive(t)
  BY <1>3, ReceiveOwn
<1>4. CASE ReadPiece(t)
  BY <1>4, ReadPieceOwn
<1>5. CASE ValidateHeader(t)
  BY <1>5, ValidateHeaderOwn
<1>6. CASE ValidateChecksum(t)
  BY <1>6, ValidateChecksumOwn
<1>7. CASE LookUpPart(t)
  BY <1>7, LookUpPartOwn
<1>8. CASE EndTable(t)
  BY <1>8, EndTableOwn
<1>9. CASE ReadHead(t)
  BY <1>9, ReadHeadOwn
<1>10. CASE ReadValue(t)
  BY <1>10, ReadValueOwn
<1>11. CASE BusError(t)
  BY <1>11, BusErrorOwn
<1> QED
  BY <1>1, <1>2, <1>3, <1>4, <1>5, <1>6, <1>7, <1>8, <1>9, <1>10, <1>11
     DEF Step

LEMMA ThreadStep ==
  ASSUME IInv, [Next]_vars, NEW t \in Threads
  PROVE  ThreadInv(t)' /\ (InfoOf(t) => InfoOf(t)')
<1>1. ASSUME NEW s \in Threads, Step(s)
      PROVE  ThreadInv(t)' /\ (InfoOf(t) => InfoOf(t)')
  <2>1. CASE s = t
    BY <1>1, <2>1, OwnStep
  <2>2. CASE s # t
    BY <1>1, <2>2, OtherSteps, UntouchedInv
  <2> QED
    BY <2>1, <2>2
<1>2. CASE Pull
  BY <1>2, PullKeeps
<1>3. CASE Plug
  BY <1>3, PlugKeeps
<1>4. CASE UNCHANGED vars
  BY <1>4, UntouchedInv DEF vars, Untouched
<1> QED
  BY <1>1, <1>2, <1>3, <1>4 DEF Next

LEMMA InitInv == Init => IInv /\ \A t \in Threads : InfoOf(t)
<1> SUFFICES ASSUME Init PROVE IInv /\ \A t \in Threads : InfoOf(t)
  OBVIOUS
<1>1. Domains
  BY ImageAssumption DEF Init, Domains
<1>2. ASSUME NEW t \in Threads PROVE ThreadInv(t) /\ InfoOf(t)
  <2>1. InBounds(t)
    BY ImageAssumption DEF Init, InBounds, Size
  <2>2. Shape(t) /\ Filled(t)
    BY DEF Init, Shape, Filled
  <2>3. Undisturbed(t) /\ InfoOf(t)
    BY DEF Init, Undisturbed, InfoOf
  <2> QED
    BY <2>1, <2>2, <2>3 DEF ThreadInv
<1> QED
  BY <1>1, <1>2 DEF IInv

LEMMA InvStep == IInv /\ [Next]_vars => IInv'
<1> SUFFICES ASSUME IInv, [Next]_vars PROVE IInv'
  OBVIOUS
<1>1. Domains'
  BY DomainStep
<1>2. \A t \in Threads : ThreadInv(t)'
  BY ThreadStep
<1> QED
  BY <1>1, <1>2 DEF IInv

LEMMA InvAlways == Spec => []IInv
BY InitInv, InvStep, PTL DEF Spec

\* The variables have their types, what is read stays in the buffer and the
\* walk over a chain does not leave it, for any units that fit the
\* assumptions.
THEOREM TypeCorrect == Spec => []TypeOK
<1>1. IInv => TypeOK
  BY DEF IInv, TypeOK, ThreadInv
<1> QED
  BY <1>1, InvAlways, PTL

\* The information of a call that succeeds is all of one unit's, and shows
\* every field of its image.
THEOREM InfoCorrect == Spec => []InfoOfOneUnit
<1> DEFINE Info == \A t \in Threads : InfoOf(t)
<1>1. Init => Info
  BY InitInv
<1>2. IInv /\ Info /\ [Next]_vars => Info'
  BY ThreadStep
<1>3. Info => InfoOfOneUnit
  BY DEF InfoOf, InfoOfOneUnit
<1> HIDE DEF Info
<1> QED
  BY <1>1, <1>2, <1>3, InvAlways, PTL DEF Spec

(***************************************************************************)
(* Why a call fails.                                                       *)
(***************************************************************************)
\* A call fails that nothing has come in between.
Failed(t) == result[t] = "none" /\ result'[t] = "err" /\ clean'[t]

LEMMA HeaderFails ==
  ASSUME IInv, NEW t \in Threads, ValidateHeader(t), Failed(t)
  PROVE  ~Readable(unit)
<1> SUFFICES ASSUME parser \in Onie => HEADER + TotalLen[unit] <= SMALL
             PROVE FALSE
  BY DEF Readable
<1>1. parser \in Onie /\ pos[t] = HEADER /\ pc[t] = "header" /\ clean[t]
  BY DEF ValidateHeader, IInv, ThreadInv, Shape, Failed
<1>2. unit \in Units /\ src[t] = unit
  <2>1. Undisturbed(t) /\ Short
    BY <1>1 DEF IInv, ThreadInv, Short, Onie
  <2>2. pos[t] > 0
    BY <1>1, ImageAssumption
  <2>3. unit \in Units
    BY <1>1, <2>1, <2>2 DEF Undisturbed
  <2>4. src[t] = IF pos[t] = 0 /\ pc[t] # "value" THEN NoUnit ELSE unit
    BY <1>1, <2>1 DEF Undisturbed
  <2> QED
    BY <2>2, <2>3, <2>4
<1>3. HEADER + TotalLen[unit] > Size
  BY <1>2 DEF ValidateHeader, Failed
<1> QED
  BY <1>1, <1>2, <1>3, ImageAssumption DEF Size

LEMMA ChecksumFails ==
  ASSUME IInv, NEW t \in Threads, ValidateChecksum(t), Failed(t)
  PROVE  ~Readable(unit)
<1> SUFFICES ASSUME parser \in Onie => HEADER + TotalLen[unit] <= SMALL
             PROVE FALSE
  BY DEF Readable
<1>1. parser \in Onie /\ pc[t] = "body" /\ clean[t]
  BY DEF ValidateChecksum, Failed
<1>2. unit \in Units /\ src[t] = unit
  BY <1>1 DEF IInv, Domains, ThreadInv, Undisturbed, Short
<1>3. result'[t] = "ok"
  BY <1>2 DEF ValidateChecksum, Return, IInv, Domains
<1> QED
  BY <1>3 DEF Failed

LEMMA PartFails ==
  ASSUME IInv, NEW t \in Threads, LookUpPart(t), Failed(t)
  PROVE  ~Readable(unit)
<1>1. /\ parser = "exos_psu" /\ pc[t] = "body" /\ clean[t]
      /\ pos[t] = Pieces /\ Pieces \in Nat \ {0}
  BY ImageAssumption DEF LookUpPart, Failed, IInv, ThreadInv, Shape, Onie
<1>2. unit \in Units /\ src[t] = unit
  BY <1>1 DEF IInv, Domains, ThreadInv, Undisturbed, Short
<1>3. src[t] \notin KnownPart
  BY <1>2 DEF LookUpPart, Return, Failed, IInv, Domains
<1> QED
  BY <1>1, <1>2, <1>3 DEF Readable

LEMMA HeadFails ==
  ASSUME IInv, NEW t \in Threads, ReadHead(t), Failed(t)
  PROVE  ~Readable(unit)
<1>1. pc[t] = "head" /\ unit \in Units /\ clean[t]
  BY DEF ReadHead, Failed, IInv, Domains
<1>2. parser = "exos_fan" /\ Merge(src[t], unit) # Mixed
  BY <1>1, ChainKept
<1>3. /\ pos[t] \in DOMAIN Tlv[unit] /\ Tlv[unit][pos[t]].len \in Nat
  BY <1>1, <1>2, OnChain
<1>4. Tlv[unit][pos[t]].len > MAX_TLV_VALUE_LEN
  BY <1>2 DEF ReadHead, Failed
<1> QED
  BY <1>2, <1>3, <1>4, ChainAssumption DEF Readable, WellFormed

LEMMA ValueFails ==
  ASSUME IInv, NEW t \in Threads, ReadValue(t), Failed(t)
  PROVE  ~Readable(unit)
<1> DEFINE tlv == Tlv[unit][pos[t]]
           heads == shown[t] \cup {pos[t]}
           next == pos[t] + MIN_TLV_LEN + tlv.len
<1>1. pc[t] = "value" /\ unit \in Units /\ clean[t]
  BY DEF ReadValue, Failed, IInv, Domains
<1>2. parser = "exos_fan" /\ Merge(src[t], unit) # Mixed
  BY <1>1, ChainKept
<1> SUFFICES ASSUME WellFormed(unit) PROVE FALSE
  BY <1>2 DEF Readable
<1>3. /\ pos[t] \in DOMAIN Tlv[unit] /\ pos[t] \in Nat
      /\ shown[t] = {o \in DOMAIN Tlv[unit] : o < pos[t]}
  BY <1>1, <1>2, OnChain
<1>4. /\ heads = {o \in DOMAIN Tlv[unit] : o < next} /\ 0 < next
      /\ tlv.type = "eoi" => heads = DOMAIN Tlv[unit]
      /\ tlv.type # "eoi" => next \in DOMAIN Tlv[unit]
  BY <1>1, <1>3, NextHead
<1>5. tlv.type # "unknown" /\ (tlv.type = "part" => unit \in KnownPart)
  BY <1>3 DEF WellFormed
<1>6. tlv.type = "eoi"
  <2> SUFFICES ASSUME tlv.type # "eoi" PROVE FALSE
    OBVIOUS
  <2>1. 0 \in heads /\ Has(unit, heads, "size")
    BY <1>1, <1>4, ChainAssumption DEF WellFormed, Has
  <2>2. next + MIN_TLV_LEN <= DeviceSize[unit] /\ next \in Nat
    BY <1>1, <1>4, ChainAssumption DEF WellFormed
  <2>3. DeviceSize[unit] \in Nat
    BY <1>1, ChainAssumption
  <2>4. ~NoRoom(unit, heads, next)
    BY <2>1, <2>2, <2>3 DEF NoRoom, MIN_TLV_LEN
  <2>5. UNCHANGED result
    BY <1>2, <1>5, <2>4 DEF ReadValue
  <2> QED
    BY <2>5 DEF Failed
<1>7. Has(unit, heads, "software") /\ unit \in Fantray
  BY <1>4, <1>6 DEF WellFormed, Has
<1>8. Return(t, "ok")
  BY <1>2, <1>5, <1>6, <1>7 DEF ReadValue
<1> QED
  BY <1>8 DEF Return, Failed, IInv, Domains

\* A call on an EEPROM that can be read fails only if something has come in
\* between its steps.
THEOREM FailsCorrect == Spec => FailsOnlyDisturbed
<1>1. ASSUME IInv, [Next]_vars, NEW t \in Threads, Failed(t)
      PROVE  ~Readable(unit)
  <2>1. CASE Start(t)
    BY <1>1, <2>1 DEF Start, Failed, IInv, Domains
  <2>2. CASE ValidateHeader(t)
    BY <1>1, <2>2, HeaderFails
  <2>3. CASE ValidateChecksum(t)
    BY <1>1, <2>3, ChecksumFails
  <2>4. CASE LookUpPart(t)
    BY <1>1, <2>4, PartFails
  <2>5. CASE EndTable(t)
    BY <1>1, <2>5 DEF EndTable, Return, Failed, IInv, Domains
  <2>6. CASE ReadHead(t)
    BY <1>1, <2>6, HeadFails
  <2>7. CASE ReadValue(t)
    BY <1>1, <2>7, ValueFails
  <2>8. CASE BusError(t)
    BY <1>1, <2>8 DEF BusError, Interfered, Failed, IInv, Domains
  <2>9. CASE Aim(t) \/ Receive(t) \/ ReadPiece(t)
    BY <1>1, <2>9 DEF Aim, Receive, ReadPiece, Failed
  <2>10. ASSUME NEW s \in Threads, s # t, Step(s) PROVE FALSE
    BY <1>1, <2>10, OtherSteps DEF Untouched, Failed
  <2>11. CASE Pull \/ Plug \/ UNCHANGED vars
    BY <1>1, <2>11 DEF Pull, Plug, vars, Failed
  <2> QED
    BY <1>1, <2>1, <2>2, <2>3, <2>4, <2>5, <2>6, <2>7, <2>8, <2>9, <2>10,
       <2>11 DEF Next, Step
<1>2. IInv /\ [Next]_vars =>
        [\A t \in Threads :
           result[t] = "none" /\ result'[t] = "err" /\ clean'[t] =>
             ~Readable(unit)]_vars
  BY <1>1 DEF Failed
<1> QED
  BY <1>2, InvAlways, PTL DEF Spec, FailsOnlyDisturbed
===============================================================================
