-------------------------- MODULE DiskImagesProofs --------------------------
(***************************************************************************)
(* Laws of the operators that DiskImages is built from.                    *)
(***************************************************************************)
EXTENDS DiskImages, FiniteSetTheorems, SequenceTheorems, WellFoundedInduction, TLAPS

-----------------------------------------------------------------------------
(* Induction and recursion over the positions of a sequence.               *)

\* A set of numbers that has 0, and with each number the next, has them all.
LEMMA Induction ==
  ASSUME NEW Holds, 0 \in Holds, \A n \in Nat : n \in Holds => n + 1 \in Holds
  PROVE  \A n \in Nat : n \in Holds
<1> SUFFICES ASSUME NEW m \in Nat, m \notin Holds PROVE FALSE
  OBVIOUS
<1> DEFINE T == {n \in Nat : n \notin Holds}
           R == OpToRel(<, Nat)
<1>1. T \subseteq Nat /\ T # {}
  OBVIOUS
<1>2. PICK x \in T : \A y \in T : <<y, x>> \notin R
  <2> HIDE DEF T, R
  <2>1. IsWellFoundedOn(R, Nat)
    BY NatLessThanWellFounded DEF R
  <2> QED
    BY ONLY <1>1, <2>1, WFMin
<1>3. \A y, z \in Nat : y < z => <<y, z>> \in R
  BY DEF OpToRel
<1>4. x \in Nat /\ x # 0
  OBVIOUS
<1>5. x - 1 \in Nat /\ x - 1 < x /\ (x - 1) + 1 = x
  BY <1>4
<1> QED
  BY <1>2, <1>3, <1>4, <1>5

\* The values a step of its own per position leads through, from a base.
Steps(f, n, V, base, step) ==
  /\ f \in [1 .. n -> V]
  /\ \A i \in 1 .. n : f[i] = step[i][IF i = 1 THEN base ELSE f[i - 1]]

\* A base, and for every position a step within the same set, lead to values.
LEMMA Recursion ==
  ASSUME NEW n \in Nat, NEW V, NEW base \in V, NEW step \in [1 .. n -> [V -> V]]
  PROVE  \E f : Steps(f, n, V, base, step)
<1> DEFINE Holds == {k \in Nat : k <= n => \E f : Steps(f, k, V, base, step)}
<1>1. 0 \in Holds
  <2> DEFINE e == [i \in 1 .. 0 |-> base]
  <2>1. e \in [1 .. 0 -> V]
    OBVIOUS
  <2>2. \A i \in 1 .. 0 : FALSE
    OBVIOUS
  <2>3. Steps(e, 0, V, base, step)
    BY ONLY <2>1, <2>2 DEF Steps
  <2> QED
    BY <2>3
<1>2. ASSUME NEW k \in Nat, k \in Holds PROVE k + 1 \in Holds
  <2>1. SUFFICES ASSUME k + 1 <= n PROVE \E f : Steps(f, k + 1, V, base, step)
    OBVIOUS
  <2>2. PICK f : Steps(f, k, V, base, step)
    BY <1>2, <2>1
  <2> DEFINE v == IF k + 1 = 1 THEN base ELSE f[k]
             g == [i \in 1 .. k + 1 |-> IF i = k + 1 THEN step[k + 1][v] ELSE f[i]]
  <2>3. f \in [1 .. k -> V]
    BY <2>2 DEF Steps
  <2>4. v \in V
    BY <2>3
  <2>5. step[k + 1] \in [V -> V] /\ step[k + 1][v] \in V
    BY <2>1, <2>4
  <2>6. g \in [1 .. k + 1 -> V]
    BY <2>3, <2>5
  <2>7. ASSUME NEW i \in 1 .. k + 1
        PROVE  g[i] = step[i][IF i = 1 THEN base ELSE g[i - 1]]
    <3>1. CASE i = k + 1
      BY <3>1
    <3>2. CASE i # k + 1
      <4>1. i \in 1 .. k /\ g[i] = f[i]
        BY <3>2
      <4>2. i # 1 => g[i - 1] = f[i - 1]
        BY <3>2
      <4>3. f[i] = step[i][IF i = 1 THEN base ELSE f[i - 1]]
        BY <2>2, <4>1 DEF Steps
      <4> QED
        BY <4>1, <4>2, <4>3
    <3> QED
      BY <3>1, <3>2
  <2> HIDE DEF g
  <2> QED
    BY <2>6, <2>7 DEF Steps
<1>3. \A k \in Nat : k \in Holds
  <2> HIDE DEF Holds
  <2> QED
    BY <1>1, <1>2, Induction
<1> QED
  BY <1>3

-----------------------------------------------------------------------------
(* A sequence of sequences put together.                                   *)

\* The elements of two sequences, one behind the other.
Joins(c, a, b) ==
  /\ Len(c) = Len(a) + Len(b)
  /\ \A i \in 1 .. Len(a) : c[i] = a[i]
  /\ \A i \in 1 .. Len(b) : c[Len(a) + i] = b[i]

\* Two sequences one behind the other.
LEMMA Joined ==
  ASSUME NEW S, NEW a \in Seq(S), NEW b \in Seq(S)
  PROVE  a \o b \in Seq(S) /\ Joins(a \o b, a, b)
<1>1. Len(a) \in Nat /\ Len(b) \in Nat
      /\ a \o b \in Seq(S) /\ Len(a \o b) = Len(a) + Len(b)
      /\ \A i \in 1 .. Len(a) + Len(b) :
            (a \o b)[i] = IF i <= Len(a) THEN a[i] ELSE b[i - Len(a)]
  BY ConcatProperties, LenProperties
<1> QED
  BY ONLY <1>1 DEF Joins

\* FlattenSeq appends one sequence after the other.
LEMMA FlattenIs ==
  ASSUME NEW T, NEW s \in Seq(Seq(T)), Len(s) # 0
  PROVE  \E f \in [1 .. Len(s) -> Seq(T)] :
            /\ f[1] = s[1]
            /\ \A i \in 1 .. Len(s) : i # 1 => f[i] = f[i - 1] \o s[i]
            /\ FlattenSeq(s) = f[Len(s)]
<1> DEFINE n == Len(s)
           step == [i \in 1 .. n |-> [v \in Seq(T) |-> v \o s[i]]]
           Solves(f) == f = [i \in 1 .. n |-> IF i = 1 THEN s[i] ELSE f[i - 1] \o s[i]]
<1>1. n \in Nat /\ 1 \in 1 .. n /\ \A i \in 1 .. n : s[i] \in Seq(T)
  BY LenProperties, ElementOfSeq
<1>2. step \in [1 .. n -> [Seq(T) -> Seq(T)]]
  <2>1. \A i \in 1 .. n : \A v \in Seq(T) : v \o s[i] \in Seq(T)
    BY <1>1, ConcatProperties
  <2> QED
    BY <2>1
<1>3. <<>> \in Seq(T)
  BY EmptySeq
<1>4. PICK g : Steps(g, n, Seq(T), <<>>, step)
  <2> HIDE DEF n, step
  <2> QED
    BY <1>1, <1>2, <1>3, Recursion
<1>5. \A i \in 1 .. n : g[i] = IF i = 1 THEN s[i] ELSE g[i - 1] \o s[i]
  <2> TAKE i \in 1 .. n
  <2>1. g \in [1 .. n -> Seq(T)] /\ g[i] = step[i][IF i = 1 THEN <<>> ELSE g[i - 1]]
    BY <1>4 DEF Steps
  <2>2. (IF i = 1 THEN <<>> ELSE g[i - 1]) \in Seq(T)
    <3> HIDE DEF n, step
    <3>1. CASE i = 1
      BY <1>3, <3>1
    <3>2. CASE i # 1
      <4>1. i - 1 \in 1 .. n
        BY <1>1, <3>2
      <4> QED
        BY <2>1, <3>2, <4>1
    <3> QED
      BY <3>1, <3>2
  <2>3. g[i] = (IF i = 1 THEN <<>> ELSE g[i - 1]) \o s[i]
    BY <2>1, <2>2
  <2>4. <<>> \o s[i] = s[i]
    BY <1>1, ConcatEmptySeq
  <2> QED
    BY <2>3, <2>4
<1>6. Solves(g)
  <2>1. g \in [1 .. n -> Seq(T)]
    BY <1>4 DEF Steps
  <2> HIDE DEF n
  <2> QED
    BY <1>5, <2>1
<1>7. PICK f : Solves(f) /\ FlattenSeq(s) = f[n]
  BY <1>6 DEF FlattenSeq
<1>8. DOMAIN f = 1 .. n /\ \A i \in 1 .. n : f[i] = IF i = 1 THEN s[i] ELSE f[i - 1] \o s[i]
  <2> HIDE DEF n
  <2> QED
    BY <1>7
<1>9. \A i \in 1 .. n : f[i] \in Seq(T)
  <2> HIDE DEF n, Solves, step
  <2> DEFINE Holds == {i \in Nat : i \in 1 .. n => f[i] \in Seq(T)}
  <2>1. 0 \in Holds
    OBVIOUS
  <2>2. ASSUME NEW i \in Nat, i \in Holds PROVE i + 1 \in Holds
    <3>1. SUFFICES ASSUME i + 1 \in 1 .. n PROVE f[i + 1] \in Seq(T)
      OBVIOUS
    <3>2. CASE i = 0
      <4>1. i + 1 = 1
        BY <3>2
      <4>2. f[1] = s[1] /\ s[1] \in Seq(T)
        BY <1>1, <1>8
      <4> QED
        BY <4>1, <4>2
    <3>3. CASE i # 0
      <4>1. i \in 1 .. n /\ i + 1 # 1 /\ (i + 1) - 1 = i
        BY <1>1, <3>1, <3>3
      <4>2. f[i] \in Seq(T) /\ s[i + 1] \in Seq(T)
        BY <1>1, <2>2, <3>1, <4>1
      <4>3. f[i + 1] = f[i] \o s[i + 1]
        BY <1>8, <3>1, <4>1
      <4> QED
        BY <4>2, <4>3, ConcatProperties
    <3> QED
      BY <3>2, <3>3
  <2>3. \A i \in Nat : i \in Holds
    <3> HIDE DEF Holds
    <3> QED
      BY <2>1, <2>2, Induction
  <2> QED
    BY <2>3
<1>10. f \in [1 .. n -> Seq(T)]
  <2>1. f = [i \in 1 .. n |-> f[i]]
    <3> HIDE DEF n
    <3> QED
      BY <1>7
  <2> QED
    BY <1>9, <2>1
<1> HIDE DEF Solves, step
<1> QED
  BY <1>1, <1>7, <1>8, <1>10

\* A sequence with every one of the parts where its offset says.
Puts(flat, T, parts, off) ==
  /\ flat \in Seq(T) /\ Len(flat) = off[Len(parts) + 1]
  /\ \A i \in 1 .. Len(parts) : \A k \in 1 .. Len(parts[i]) :
        /\ off[i] + k \in 1 .. off[Len(parts) + 1]
        /\ flat[off[i] + k] = parts[i][k]

\* FlattenSeq puts every part at its offset.
LEMMA FlattenAt ==
  ASSUME NEW T, NEW s \in Seq(Seq(T)), NEW off \in [1 .. Len(s) + 1 -> Nat],
         off[1] = 0, \A i \in 1 .. Len(s) : off[i + 1] = off[i] + Len(s[i])
  PROVE  Puts(FlattenSeq(s), T, s, off)
<1> DEFINE n == Len(s)
<1>1. n \in Nat /\ \A i \in 1 .. n : s[i] \in Seq(T) /\ Len(s[i]) \in Nat
  BY LenProperties, ElementOfSeq
<1>9. \A i \in 1 .. n : off[i] \in Nat /\ off[i + 1] \in Nat /\ off[i + 1] = off[i] + Len(s[i])
  BY <1>1
<1>2. CASE n = 0
  <2>1. FlattenSeq(s) = s /\ s = <<>>
    BY <1>2, EmptySeq DEF FlattenSeq
  <2> QED
    BY <1>2, <2>1, EmptySeq DEF Puts
<1>3. CASE n # 0
  <2>1. PICK f \in [1 .. n -> Seq(T)] :
            /\ f[1] = s[1]
            /\ \A i \in 1 .. n : i # 1 => f[i] = f[i - 1] \o s[i]
            /\ FlattenSeq(s) = f[n]
    BY <1>3, FlattenIs
  <2> DEFINE Good(i) ==
        /\ Len(f[i]) = off[i + 1]
        /\ \A j \in 1 .. i : \A k \in 1 .. Len(s[j]) :
              off[j] + k \in 1 .. off[i + 1] /\ f[i][off[j] + k] = s[j][k]
      Holds == {i \in Nat : i \in 1 .. n => Good(i)}
  <2> HIDE DEF n, Good
  <2>2. 0 \in Holds
    OBVIOUS
  <2>3. ASSUME NEW i \in Nat, i \in Holds PROVE i + 1 \in Holds
    <3>1. SUFFICES ASSUME i + 1 \in 1 .. n PROVE Good(i + 1)
      OBVIOUS
    <3> USE DEF Good
    <3>2. CASE i = 0
      <4>1. off[2] = Len(s[1]) /\ Len(s[1]) \in Nat /\ f[1] = s[1]
        <5>1. 1 \in 1 .. n
          BY <3>1, <3>2
        <5>2. off[1 + 1] = off[1] + Len(s[1]) /\ Len(s[1]) \in Nat
          BY <1>1, <1>9, <5>1
        <5> QED
          BY <2>1, <5>2
      <4>2. Len(f[1]) = off[2]
        BY <4>1
      <4>3. ASSUME NEW j \in 1 .. 1, NEW k \in 1 .. Len(s[j])
            PROVE  off[j] + k \in 1 .. off[2] /\ f[1][off[j] + k] = s[j][k]
        BY <4>1
      <4>4. i + 1 = 1 /\ (i + 1) + 1 = 2
        BY <3>2
      <4> QED
        BY <4>2, <4>3, <4>4
    <3>3. CASE i # 0
      <4>1. i \in 1 .. n /\ i + 1 # 1 /\ (i + 1) - 1 = i /\ (i + 1) + 1 = i + 2
        BY <1>1, <3>1, <3>3
      <4>2. Good(i)
        BY <2>3, <4>1
      <4>3. f[i + 1] = f[i] \o s[i + 1] /\ f[i] \in Seq(T) /\ s[i + 1] \in Seq(T)
        BY <1>1, <2>1, <3>1, <4>1
      <4>4. off[i + 2] = off[i + 1] + Len(s[i + 1]) /\ off[i + 1] \in Nat
            /\ off[i + 2] \in Nat /\ Len(s[i + 1]) \in Nat
        BY <1>1, <1>9, <3>1, <4>1
      <4>5. Len(f[i]) = off[i + 1]
        BY <4>2
      <4>6. /\ Len(f[i + 1]) = off[i + 2]
            /\ \A p \in 1 .. off[i + 1] : f[i + 1][p] = f[i][p]
            /\ \A p \in 1 .. Len(s[i + 1]) : f[i + 1][off[i + 1] + p] = s[i + 1][p]
        <5>1. Joins(f[i + 1], f[i], s[i + 1])
          BY ONLY <4>3, Joined
        <5> QED
          BY ONLY <4>4, <4>5, <5>1 DEF Joins
      <4>7. ASSUME NEW j \in 1 .. i + 1, NEW k \in 1 .. Len(s[j])
            PROVE  off[j] + k \in 1 .. off[i + 2] /\ f[i + 1][off[j] + k] = s[j][k]
        <5>1. CASE j = i + 1
          BY ONLY <4>4, <4>6, <5>1, <4>7, i \in Nat, SMTT(30)
        <5>2. CASE j # i + 1
          <6>1. j \in 1 .. i
            BY <5>2
          <6>2. off[j] + k \in 1 .. off[i + 1] /\ f[i][off[j] + k] = s[j][k]
            BY <4>2, <6>1
          <6>3. 1 .. off[i + 1] \subseteq 1 .. off[i + 2]
            BY ONLY <4>4
          <6>4. f[i + 1][off[j] + k] = f[i][off[j] + k]
            BY ONLY <4>6, <6>2
          <6> QED
            BY <6>2, <6>3, <6>4
        <5> QED
          BY <5>1, <5>2
      <4> QED
        BY <4>1, <4>6, <4>7
    <3> QED
      BY <3>2, <3>3
  <2>4. \A i \in Nat : i \in Holds
    <3> HIDE DEF Holds
    <3> QED
      BY <2>2, <2>3, Induction
  <2>5. Good(n)
    <3>1. n \in Nat /\ n \in 1 .. n
      BY <1>1, <1>3
    <3> QED
      BY <2>4, <3>1
  <2>6. Len(f[n]) = off[n + 1]
    BY <2>5 DEF Good
  <2>7. \A j \in 1 .. n : \A k \in 1 .. Len(s[j]) :
            off[j] + k \in 1 .. off[n + 1] /\ f[n][off[j] + k] = s[j][k]
    BY <2>5 DEF Good
  <2>8. FlattenSeq(s) \in Seq(T)
    BY <1>1, <1>3, <2>1
  <2> QED
    BY <2>1, <2>6, <2>7, <2>8 DEF n, Puts
<1> QED
  BY <1>1, <1>2, <1>3

-----------------------------------------------------------------------------
(* Blocks of the same length, and rounding.                                *)

\* A quotient and a remainder.
LEMMA DivMod ==
  ASSUME NEW a \in Nat, NEW m \in Nat \ {0}
  PROVE  a \div m \in Nat /\ a % m \in 0 .. m - 1 /\ a = (a \div m) * m + (a % m)
<1>1. a \div m \in Int /\ a % m \in 0 .. m - 1
  OBVIOUS
<1>2. a = (a \div m) * m + (a % m)
  OBVIOUS
<1>3. a \div m >= 0
  BY <1>1, <1>2
<1> QED
  BY <1>1, <1>2, <1>3

\* A quotient is found again.
LEMMA DivIs ==
  ASSUME NEW q \in Nat, NEW m \in Nat \ {0}, NEW r \in Nat, r < m
  PROVE  (q * m + r) \div m = q
<1> DEFINE a == q * m + r
<1>1. a \in Nat
  OBVIOUS
<1>2. PICK d \in Nat : d = a \div m /\ d * m <= a /\ a < (d + 1) * m
  BY <1>1
<1>3. CASE d < q
  <2>1. (d + 1) * m <= q * m
    BY <1>3
  <2> QED
    BY <1>2, <2>1
<1>4. CASE d > q
  <2>1. (q + 1) * m <= d * m
    BY <1>4
  <2> QED
    BY <1>2, <2>1
<1> QED
  BY <1>2, <1>3, <1>4

\* RoundDown gives the multiple that is not above and less than m below.
LEMMA RoundDownIs ==
  ASSUME NEW v \in Nat, NEW m \in Nat \ {0}
  PROVE  /\ RoundDown(v, m) \in Nat /\ RoundDown(v, m) <= v /\ v < RoundDown(v, m) + m
         /\ \E q \in Nat : RoundDown(v, m) = q * m
<1> DEFINE q == v \div m
           r == v % m
           d == RoundDown(v, m)
<1>1. q \in Nat /\ r \in 0 .. m - 1 /\ v = q * m + r
  BY DivMod
<1>2. d = q * m
  BY DEF RoundDown
<1> HIDE DEF q, r, d
<1>3. q * m \in Nat
  BY <1>1
<1>4. d \in Nat /\ d <= v /\ v < d + m
  BY <1>1, <1>2, <1>3
<1> QED
  BY <1>1, <1>2, <1>4 DEF d

\* RoundUp gives the multiple that is not below and less than m above.
LEMMA RoundUpIs ==
  ASSUME NEW v \in Nat, NEW m \in Nat \ {0}
  PROVE  /\ RoundUp(v, m) \in Nat /\ v <= RoundUp(v, m) /\ RoundUp(v, m) < v + m
         /\ \E q \in Nat : RoundUp(v, m) = q * m
<1>1. v + m - 1 \in Nat
  OBVIOUS
<1> DEFINE d == RoundDown(v + m - 1, m)
<1>2. d \in Nat /\ v + m - 1 < d + m /\ d <= v + m - 1 /\ \E q \in Nat : d = q * m
  BY <1>1, RoundDownIs
<1> HIDE DEF d
<1>3. d \in Nat /\ v <= d /\ d < v + m
  BY <1>2
<1> QED
  BY <1>2, <1>3 DEF d, RoundUp

\* A multiple is rounded to itself.
LEMMA RoundUpExact ==
  ASSUME NEW q \in Nat, NEW m \in Nat \ {0}
  PROVE  RoundUp(q * m, m) = q * m /\ RoundUp(q * m, m) \div m = q
<1>1. (q * m + (m - 1)) \div m = q
  BY DivIs
<1>2. q * m + m - 1 = q * m + (m - 1) /\ q * m = q * m + 0
  OBVIOUS
<1>3. (q * m) \div m = q
  BY <1>2, DivIs
<1> QED
  BY <1>1, <1>2, <1>3 DEF RoundUp, RoundDown

\* A sector is in some block, in some place of it.
LEMMA BlockOf ==
  ASSUME NEW n \in Nat, NEW k \in Nat \ {0}, NEW p \in 1 .. n * k
  PROVE  \E i \in 1 .. n : \E j \in 1 .. k : p = (i - 1) * k + j
<1> DEFINE q == (p - 1) \div k
           r == (p - 1) % k
<1>1. p - 1 \in Nat
  OBVIOUS
<1>2. q \in Nat /\ r \in 0 .. k - 1 /\ p - 1 = q * k + r
  BY <1>1, DivMod
<1> HIDE DEF q, r
<1>3. q < n
  <2>1. CASE q >= n
    <3>1. q * k >= n * k
      BY <1>2, <2>1
    <3> QED
      BY <1>2, <3>1
  <2> QED
    BY <1>2, <2>1
<1>4. q + 1 \in 1 .. n /\ r + 1 \in 1 .. k /\ p = ((q + 1) - 1) * k + (r + 1)
  BY <1>2, <1>3
<1> QED
  BY <1>4

\* Where the blocks of a sequence of blocks are.
LEMMA FlattenBlocks ==
  ASSUME NEW T, NEW s \in Seq(Seq(T)), NEW k \in Nat,
         \A i \in 1 .. Len(s) : Len(s[i]) = k
  PROVE  /\ FlattenSeq(s) \in Seq(T)
         /\ Len(FlattenSeq(s)) = Len(s) * k
         /\ \A i \in 1 .. Len(s) : \A j \in 1 .. k :
               /\ (i - 1) * k + j \in 1 .. Len(s) * k
               /\ FlattenSeq(s)[(i - 1) * k + j] = s[i][j]
<1> DEFINE n == Len(s)
           off == [i \in 1 .. n + 1 |-> (i - 1) * k]
<1>1. n \in Nat
  BY LenProperties
<1>2. \A i \in 1 .. n + 1 : (i - 1) * k \in Nat
  BY <1>1
<1>3. off \in [1 .. n + 1 -> Nat]
  BY <1>2
<1>4. off[1] = 0 /\ off[n + 1] = n * k
  BY <1>1
<1>5. \A i \in 1 .. n : off[i] = (i - 1) * k /\ off[i + 1] = off[i] + Len(s[i])
  <2> TAKE i \in 1 .. n
  <2>1. off[i] = (i - 1) * k /\ off[i + 1] = ((i + 1) - 1) * k /\ Len(s[i]) = k
    BY <1>1
  <2>2. ((i + 1) - 1) * k = (i - 1) * k + k
    BY <1>1
  <2> HIDE DEF off
  <2> QED
    BY <2>1, <2>2
<1> HIDE DEF off
<1>6. /\ FlattenSeq(s) \in Seq(T)
      /\ Len(FlattenSeq(s)) = off[n + 1]
      /\ \A i \in 1 .. n : \A j \in 1 .. Len(s[i]) :
            off[i] + j \in 1 .. off[n + 1] /\ FlattenSeq(s)[off[i] + j] = s[i][j]
  <2>1. \A i \in 1 .. n : off[i + 1] = off[i] + Len(s[i])
    BY <1>5
  <2> QED
    <3>1. Puts(FlattenSeq(s), T, s, off)
      BY <1>3, <1>4, <2>1, FlattenAt
    <3> QED
      BY ONLY <3>1 DEF Puts, n
<1> HIDE DEF n
<1>7. \A i \in 1 .. n : \A j \in 1 .. k :
        /\ (i - 1) * k + j \in 1 .. n * k
        /\ FlattenSeq(s)[(i - 1) * k + j] = s[i][j]
  BY <1>4, <1>5, <1>6 DEF n
<1> QED
  BY <1>4, <1>6, <1>7 DEF n

-----------------------------------------------------------------------------
(* Disks put together.                                                     *)

\* The sectors of a range, by comparison.
LEMMA InCovers ==
  ASSUME NEW a \in Nat, NEW n \in Nat
  PROVE  \A s : s \in Covers(a, n) <=> s \in Nat /\ a <= s /\ s < a + n
BY DEF Covers

\* After bytes are written over a disk, it holds them where they were written
\* and what it held before elsewhere.
Holds(disk, start, bytes, before) ==
  /\ DOMAIN disk = Covers(start, Len(bytes)) \cup DOMAIN before
  /\ \A s \in Covers(start, Len(bytes)) : disk[s] = bytes[s - start + 1]
  /\ \A s \in DOMAIN before : s \notin Covers(start, Len(bytes)) => disk[s] = before[s]

\* The sectors that At has, and what is in them.
LEMMA AtIs ==
  ASSUME NEW start, NEW bytes
  PROVE  /\ DOMAIN At(start, bytes) = Covers(start, Len(bytes))
         /\ \A s \in Covers(start, Len(bytes)) : At(start, bytes)[s] = bytes[s - start + 1]
<1> DEFINE D == Covers(start, Len(bytes))
<1> HIDE DEF D
<1>1. At(start, bytes) = [s \in D |-> bytes[s - start + 1]]
  BY DEF At, D
<1>2. DOMAIN At(start, bytes) = D /\ \A s \in D : At(start, bytes)[s] = bytes[s - start + 1]
  BY <1>1
<1> QED
  BY <1>2 DEF D

\* What is written covers, and leaves the rest.
LEMMA OverIs ==
  ASSUME NEW new, NEW old
  PROVE  /\ DOMAIN Over(new, old) = DOMAIN new \cup DOMAIN old
         /\ \A s \in DOMAIN new : Over(new, old)[s] = new[s]
         /\ \A s \in DOMAIN old : s \notin DOMAIN new => Over(new, old)[s] = old[s]
BY DEF Over

\* A write leaves the bytes in their place, and elsewhere what was before.
LEMMA OverHolds ==
  ASSUME NEW start, NEW bytes, NEW old
  PROVE  Holds(Over(At(start, bytes), old), start, bytes, old)
<1> DEFINE a == At(start, bytes)
           D == Covers(start, Len(bytes))
           o == Over(a, old)
<1>1. DOMAIN a = D /\ \A s \in D : a[s] = bytes[s - start + 1]
  BY AtIs
<1>2. /\ DOMAIN o = DOMAIN a \cup DOMAIN old
      /\ \A s \in DOMAIN a : o[s] = a[s]
      /\ \A s \in DOMAIN old : s \notin DOMAIN a => o[s] = old[s]
  BY OverIs
<1> HIDE DEF a, D, o
<1>3. /\ DOMAIN o = D \cup DOMAIN old
      /\ \A s \in D : o[s] = bytes[s - start + 1]
      /\ \A s \in DOMAIN old : s \notin D => o[s] = old[s]
  BY <1>1, <1>2
<1> QED
  BY <1>3 DEF Holds, a, D, o

\* A run of zero sectors.
LEMMA ZerosAre ==
  ASSUME NEW n \in Nat
  PROVE  Len(Zeros(n)) = n /\ Zeros(n) \in Seq({Zero}) /\ \A i \in 1 .. n : Zeros(n)[i] = Zero
BY DEF Zeros

-----------------------------------------------------------------------------
(* The layout of the installed disk.                                       *)

\* What the sizes leave room for.
LEMMA Room ==
  /\ LeadingGap \in Nat /\ TrailingGap \in Nat
  /\ EspSectors \in Nat \ {0} /\ EntrySectors \in Nat \ {0}
  /\ BlockSectors \in Nat \ {0} /\ MaxExtent \in Nat \ {0}
  /\ LeadingGap >= EntrySectors + 3 /\ TrailingGap >= EntrySectors + 2
<1>1. /\ LeadingGap \in Nat /\ TrailingGap \in Nat
      /\ EspSectors \in Nat \ {0} /\ EntrySectors \in Nat \ {0}
      /\ BlockSectors \in Nat \ {0} /\ MaxExtent \in Nat \ {0}
      /\ LeadingGap >= EntrySectors + 2 + BlockSectors
      /\ TrailingGap >= EntrySectors + 1 + BlockSectors
  BY GapsHoldTheTables
<1> QED
  BY <1>1

\* The sizes of a layout, and of its parts in blocks.
LEMMA LayoutIs ==
  ASSUME NEW n \in Nat
  PROVE  LET l == InstalledGptLayout(n)
         IN  /\ l.esp.start = LeadingGap /\ l.esp.len = EspSectors
             /\ l.root.start = LeadingGap + EspSectors /\ l.root.len = n
             /\ l.image = LeadingGap + EspSectors + n + TrailingGap
             /\ l.image \in Nat
BY GapsHoldTheTables DEF InstalledGptLayout

\* What leaves no remainder is a multiple.
LEMMA Multiple ==
  ASSUME NEW v \in Nat, NEW m \in Nat \ {0}, v % m = 0
  PROVE  \E q \in Nat : v = q * m
<1>1. v \div m \in Nat /\ v = (v \div m) * m + (v % m)
  BY DivMod
<1>2. v = (v \div m) * m
  BY <1>1
<1> QED
  BY <1>1, <1>2

\* A graph that can be read has a root of whole blocks, and so has the image.
LEMMA WholeBlocks ==
  ASSUME NEW esp, NEW root, Len(root) \in Nat \ {0},
         GraphReads(InstalledGptLayout(Len(root)), esp, root)
  PROVE  LET l == InstalledGptLayout(Len(root))
         IN  /\ Blocks(l) \in Nat \ {0}
             /\ l.image = Blocks(l) * BlockSectors
             /\ Len(esp) = EspSectors
<1> DEFINE l == InstalledGptLayout(Len(root))
           n == Len(root)
           B == BlockSectors
<1>1. /\ l.esp.start = LeadingGap /\ l.esp.len = EspSectors
      /\ l.root.start = LeadingGap + EspSectors /\ l.root.len = n
      /\ l.image = LeadingGap + EspSectors + n + TrailingGap
      /\ l.image \in Nat
  BY LayoutIs
<1>2. /\ LeadingGap \in Nat /\ EspSectors \in Nat \ {0} /\ TrailingGap \in Nat
      /\ B \in Nat \ {0} /\ n \in Nat \ {0}
      /\ TrailingGap >= B + 2
      /\ \A size \in {LeadingGap, EspSectors, TrailingGap} : size % B = 0
  BY GapsHoldTheTables
<1> HIDE DEF B
<1>3. PICK p \in Nat : LeadingGap = p * B
  BY <1>2, Multiple
<1>4. PICK q \in Nat : EspSectors = q * B
  BY <1>2, Multiple
<1>5. PICK t \in Nat : TrailingGap = t * B
  BY <1>2, Multiple
<1>6. /\ Len(esp) = l.esp.len
      /\ \A b \in 0 .. Blocks(l) - 1 : ~ReadFails(b, l.root, root)
  BY DEF GraphReads
<1> DEFINE G == RoundUp(l.image, B)
           c == p + q
           x == l.root.start + n - 1
<1>7. PICK g \in Nat : G = g * B /\ l.image <= G /\ G < l.image + B
  BY <1>1, <1>2, RoundUpIs
<1>8. Blocks(l) = g
  <2>1. g * B = g * B + 0 /\ 0 < B
    BY <1>2
  <2>2. (g * B + 0) \div B = g
    BY <1>2, <2>1, DivIs
  <2> QED
    BY <1>7, <2>1, <2>2 DEF Blocks, B
<1> HIDE DEF l, n, G
<1>9. l.root.start = c * B /\ x \in Nat /\ x = c * B + n - 1 /\ x >= c * B /\ c * B \in Nat
  <2>1. c * B = p * B + q * B /\ c * B \in Nat
    BY <1>2
  <2>2. l.root.start = c * B
    BY <1>1, <1>3, <1>4, <2>1
  <2> HIDE DEF c
  <2> QED
    BY <1>2, <2>1, <2>2
<1> HIDE DEF c, x
<1>10. PICK b \in Nat, r \in 0 .. B - 1 : x = b * B + r
  <2>1. x \div B \in Nat /\ x % B \in 0 .. B - 1 /\ x = (x \div B) * B + (x % B)
    BY <1>2, <1>9, DivMod
  <2> QED
    BY <2>1
<1>11. b < g
  <2>1. b * B <= x /\ x < l.image
    BY <1>1, <1>2, <1>10 DEF x
  <2>2. b * B < g * B
    BY <1>7, <2>1, <1>1, <1>2, <1>10
  <2>3. CASE b >= g
    <3>1. b * B >= g * B
      BY <1>2, <2>3
    <3> QED
      BY <2>2, <3>1, <1>2
  <2> QED
    BY <2>3
<1>12. ~ReadFails(b, l.root, root)
  BY <1>6, <1>8, <1>11
<1>13. c * B < b * B + B /\ b * B < c * B + n
  <2>1. b * B \in Nat
    BY <1>2
  <2> QED
    BY <1>2, <1>9, <1>10, <2>1
<1>14. b * B + B <= c * B + n
  <2>1. Overlaps(b * B, B, l.root.start, l.root.len)
    BY <1>1, <1>9, <1>13 DEF Overlaps
  <2>2. ~(b * B + B > l.root.start + Len(root))
    BY <1>12, <2>1 DEF ReadFails, B
  <2>3. b * B \in Nat /\ c * B \in Nat
    BY <1>2 DEF c
  <2> QED
    BY <1>2, <1>9, <2>2, <2>3 DEF n
<1>15. n = (b + 1 - c) * B /\ b + 1 - c \in Int
  <2>1. c \in Nat /\ c * B \in Nat /\ b * B \in Nat
    BY <1>2 DEF c
  <2>2. c * B + n = b * B + B
    BY <1>2, <1>9, <1>10, <1>14, <2>1
  <2>3. (b + 1 - c) * B = b * B + B - c * B
    BY <1>2, <2>1
  <2> QED
    BY <1>2, <2>1, <2>2, <2>3
<1>16. l.image = (b + 1 + t) * B
  <2>1. l.image = c * B + n + t * B
    BY <1>1, <1>2, <1>5, <1>9
  <2>2. c \in Nat /\ c * B \in Nat /\ b * B \in Nat /\ t * B \in Nat
    BY <1>2 DEF c
  <2>3. (b + 1 + t) * B = b * B + B + t * B
    BY <1>2
  <2>4. (b + 1 - c) * B = b * B + B - c * B
    BY <1>2, <2>2
  <2> QED
    BY <1>15, <2>1, <2>2, <2>3, <2>4, <1>2
<1>17. g = b + 1 + t
  <2>1. G = (b + 1 + t) * B
    <3>1. b + 1 + t \in Nat
      OBVIOUS
    <3> QED
      BY <1>2, <1>16, <3>1, RoundUpExact DEF G
  <2>2. b + 1 + t \in Nat
    OBVIOUS
  <2>3. CASE g < b + 1 + t
    <3>1. (g + 1) * B <= (b + 1 + t) * B /\ (g + 1) * B = g * B + B /\ g * B \in Nat
      BY <1>2, <2>2, <2>3
    <3> QED
      BY <1>2, <1>7, <2>1, <3>1
  <2>4. CASE g > b + 1 + t
    <3>1. (b + 1 + t + 1) * B <= g * B /\ (b + 1 + t + 1) * B = (b + 1 + t) * B + B
          /\ (b + 1 + t) * B \in Nat
      BY <1>2, <2>2, <2>4
    <3> QED
      BY <1>2, <1>7, <2>1, <3>1
  <2> QED
    BY <2>2, <2>3, <2>4
<1>18. Blocks(l) \in Nat \ {0} /\ l.image = Blocks(l) * B /\ Len(esp) = EspSectors
  BY <1>1, <1>6, <1>8, <1>16, <1>17
<1> QED
  BY <1>18 DEF l, n, B

-----------------------------------------------------------------------------
(* The sectors of the installed disk, as a file and as a graph.            *)

\* The one sector of the entry array that is not zero.
Table(l) == [entries |-> gpt_entries(l)]

\* The entry array is the table in its first sector and zeros.
LEMMA EntriesAre ==
  ASSUME NEW l
  PROVE  LET array == encode_gpt_entries(l)
         IN  /\ array \in Seq({Zero, Table(l)}) /\ Len(array) = EntrySectors
             /\ array[1] = Table(l)
             /\ \A i \in 2 .. EntrySectors : array[i] = Zero
<1> DEFINE n == EntrySectors - 1
           z == Zeros(n)
           S == {Zero, Table(l)}
           first == <<Table(l)>>
<1>1. n \in Nat /\ EntrySectors = n + 1
  BY GapsHoldTheTables
<1>2. z \in Seq(S) /\ Len(z) = n /\ \A i \in 1 .. n : z[i] = Zero
  BY <1>1, ZerosAre
<1>3. first \in Seq(S) /\ Len(first) = 1 /\ first[1] = Table(l)
  OBVIOUS
<1>4. encode_gpt_entries(l) = first \o z
  BY DEF encode_gpt_entries, Table
<1> HIDE DEF n, z, S, first
<1>5. first \o z \in Seq(S) /\ Joins(first \o z, first, z)
  BY <1>2, <1>3, Joined
<1>6. (first \o z)[1] = Table(l)
  BY <1>3, <1>5 DEF Joins
<1>7. ASSUME NEW i \in 2 .. EntrySectors PROVE (first \o z)[i] = Zero
  <2>1. i - 1 \in 1 .. n /\ 1 + (i - 1) = i
    BY <1>1
  <2>2. (first \o z)[1 + (i - 1)] = z[i - 1]
    BY <1>2, <1>3, <1>5, <2>1 DEF Joins
  <2> QED
    BY <1>2, <2>1, <2>2
<1> QED
  BY <1>1, <1>2, <1>3, <1>4, <1>5, <1>6, <1>7 DEF S, Joins

\* The run of the first table: a sector each for the protective MBR and the
\* header, the entries, zeros up to a block.
LEMMA HeadRun ==
  ASSUME NEW l
  PROVE  LET run == gpt_required_extent_bytes(l)[1]
         IN  /\ run.start = 0
             /\ Len(run.bytes) \in Nat
             /\ EntrySectors + 2 <= Len(run.bytes) /\ Len(run.bytes) <= LeadingGap
             /\ run.bytes[1] = ProtectiveMbr(l) /\ run.bytes[2] = PrimaryHeader(l)
             /\ \A i \in 1 .. EntrySectors : run.bytes[2 + i] = encode_gpt_entries(l)[i]
             /\ \A i \in EntrySectors + 3 .. Len(run.bytes) : run.bytes[i] = Zero
<1> DEFINE array == encode_gpt_entries(l)
           S == {ProtectiveMbr(l), PrimaryHeader(l), Zero, Table(l)}
           two == <<ProtectiveMbr(l), PrimaryHeader(l)>>
           used == two \o array
           m == RoundUp(Len(used), BlockSectors) - Len(used)
           z == Zeros(m)
           bytes == used \o z
<1>1. two \in Seq(S) /\ Len(two) = 2 /\ two[1] = ProtectiveMbr(l) /\ two[2] = PrimaryHeader(l)
  OBVIOUS
<1>2. array \in Seq(S) /\ Len(array) = EntrySectors
  <2>1. array \in Seq({Zero, Table(l)}) /\ Len(array) = EntrySectors
    BY EntriesAre
  <2> HIDE DEF array
  <2>2. {Zero, Table(l)} \subseteq S
    OBVIOUS
  <2> QED
    BY ONLY <2>1, <2>2, SeqMonotonic
<1> HIDE DEF two, array, S
<1>3. /\ used \in Seq(S) /\ Len(used) = 2 + EntrySectors
      /\ used[1] = ProtectiveMbr(l) /\ used[2] = PrimaryHeader(l)
      /\ \A i \in 1 .. EntrySectors : used[2 + i] = array[i]
  <2>1. used \in Seq(S) /\ Joins(used, two, array)
    BY ONLY <1>1, <1>2, Joined
  <2> HIDE DEF used
  <2> QED
    BY <1>1, <1>2, <2>1 DEF Joins
<1> HIDE DEF used
<1>4. m \in Nat /\ 2 + EntrySectors + m <= LeadingGap
  <2>1. 2 + EntrySectors \in Nat /\ BlockSectors \in Nat \ {0} /\ LeadingGap \in Nat
        /\ EntrySectors \in Nat /\ LeadingGap >= EntrySectors + 2 + BlockSectors
    BY GapsHoldTheTables
  <2> DEFINE u == RoundUp(2 + EntrySectors, BlockSectors)
  <2>2. u \in Nat /\ 2 + EntrySectors <= u /\ u < 2 + EntrySectors + BlockSectors
    BY <2>1, RoundUpIs
  <2>3. m = u - (2 + EntrySectors)
    BY <1>3
  <2> HIDE DEF u, m
  <2> QED
    BY <2>1, <2>2, <2>3
<1> HIDE DEF m
<1>5. z \in Seq(S) /\ Len(z) = m /\ \A i \in 1 .. m : z[i] = Zero
  <2>1. z \in Seq({Zero}) /\ Len(z) = m /\ \A i \in 1 .. m : z[i] = Zero
    BY <1>4, ZerosAre
  <2>2. {Zero} \subseteq S
    BY DEF S
  <2> HIDE DEF z
  <2> QED
    BY ONLY <2>1, <2>2, SeqMonotonic
<1> HIDE DEF z
<1>6. /\ Len(bytes) = 2 + EntrySectors + m
      /\ \A i \in 1 .. 2 + EntrySectors : bytes[i] = used[i]
      /\ \A i \in 1 .. m : bytes[2 + EntrySectors + i] = Zero
  <2>1. Joins(bytes, used, z)
    BY ONLY <1>3, <1>5, Joined
  <2> HIDE DEF bytes
  <2> QED
    BY <1>3, <1>5, <2>1 DEF Joins
<1>7. gpt_required_extent_bytes(l)[1] = [start |-> 0, bytes |-> bytes]
  BY DEF gpt_required_extent_bytes, Extent, used, two, array, m, z
<1> HIDE DEF bytes
<1>8. EntrySectors \in Nat \ {0}
  BY GapsHoldTheTables
<1>9. bytes[1] = ProtectiveMbr(l)
  BY <1>3, <1>6, <1>8
<1>10. bytes[2] = PrimaryHeader(l)
  BY <1>3, <1>6, <1>8
<1>11. ASSUME NEW i \in 1 .. EntrySectors PROVE bytes[2 + i] = array[i]
  <2>1. 2 + i \in 1 .. 2 + EntrySectors
    BY <1>8
  <2> QED
    BY <1>3, <1>6, <2>1
<1>12. ASSUME NEW i \in EntrySectors + 3 .. 2 + EntrySectors + m PROVE bytes[i] = Zero
  <2>1. i - (2 + EntrySectors) \in 1 .. m /\ 2 + EntrySectors + (i - (2 + EntrySectors)) = i
    BY <1>4, <1>8
  <2> QED
    BY <1>6, <2>1
<1>13. EntrySectors + 2 <= Len(bytes) /\ Len(bytes) <= LeadingGap /\ Len(bytes) \in Nat
  BY <1>4, <1>6, <1>8
<1> QED
  BY <1>6, <1>7, <1>9, <1>10, <1>11, <1>12, <1>13 DEF array

\* The run of the second table: zeros from the start of a block, the entries,
\* the header in the last sector of the disk.
LEMMA TailRun ==
  ASSUME NEW l, l.image \in Nat, l.image >= TrailingGap
  PROVE  LET run == gpt_required_extent_bytes(l)[2]
             lba == BackupEntriesLba(l)
         IN  /\ run.start \in Nat /\ lba \in Nat
             /\ l.image - TrailingGap <= run.start /\ run.start <= lba
             /\ Len(run.bytes) \in Nat
             /\ run.start + Len(run.bytes) = l.image
             /\ \A i \in 1 .. lba - run.start : run.bytes[i] = Zero
             /\ \A i \in 1 .. EntrySectors :
                   run.bytes[lba - run.start + i] = encode_gpt_entries(l)[i]
             /\ run.bytes[Len(run.bytes)] = BackupHeader(l)
<1> DEFINE array == encode_gpt_entries(l)
           lba == BackupEntriesLba(l)
           backup == RoundDown(lba, BlockSectors)
           m == lba - backup
           S == {BackupHeader(l), Zero, Table(l)}
           one == <<BackupHeader(l)>>
           z == Zeros(m)
           bytes == z \o array \o one
<1>1. /\ EntrySectors \in Nat \ {0} /\ BlockSectors \in Nat \ {0} /\ TrailingGap \in Nat
      /\ TrailingGap >= EntrySectors + 1 + BlockSectors
  BY GapsHoldTheTables
<1>2. lba \in Nat /\ lba = l.image - 1 - EntrySectors
  BY <1>1 DEF BackupEntriesLba, LastLba
<1>3. backup \in Nat /\ backup <= lba /\ lba < backup + BlockSectors
  <2> HIDE DEF lba
  <2> QED
    BY <1>1, <1>2, RoundDownIs
<1>4. gpt_required_extent_bytes(l)[2] = [start |-> backup, bytes |-> bytes]
  BY DEF gpt_required_extent_bytes, Extent
<1> HIDE DEF lba, backup
<1>5. m \in Nat /\ l.image - TrailingGap <= backup
  BY <1>1, <1>2, <1>3
<1> HIDE DEF m
<1>6. z \in Seq(S) /\ Len(z) = m /\ \A i \in 1 .. m : z[i] = Zero
  <2>1. z \in Seq({Zero}) /\ Len(z) = m /\ \A i \in 1 .. m : z[i] = Zero
    BY <1>5, ZerosAre
  <2>2. {Zero} \subseteq S
    OBVIOUS
  <2> HIDE DEF z, S
  <2> QED
    BY ONLY <2>1, <2>2, SeqMonotonic
<1>7. array \in Seq(S) /\ Len(array) = EntrySectors
  <2>1. array \in Seq({Zero, Table(l)}) /\ Len(array) = EntrySectors
    BY EntriesAre
  <2>2. {Zero, Table(l)} \subseteq S
    OBVIOUS
  <2> HIDE DEF array, S
  <2> QED
    BY ONLY <2>1, <2>2, SeqMonotonic
<1>8. one \in Seq(S) /\ Len(one) = 1 /\ one[1] = BackupHeader(l)
  OBVIOUS
<1> HIDE DEF z, array, one, S
<1> DEFINE body == z \o array
<1>9. /\ body \in Seq(S) /\ Len(body) = m + EntrySectors
      /\ \A i \in 1 .. m : body[i] = Zero
      /\ \A i \in 1 .. EntrySectors : body[m + i] = array[i]
  <2>1. body \in Seq(S) /\ Joins(body, z, array)
    BY ONLY <1>6, <1>7, Joined
  <2> HIDE DEF body
  <2> QED
    BY <1>6, <1>7, <2>1 DEF Joins
<1> HIDE DEF body
<1>10. /\ Len(bytes) = m + EntrySectors + 1
       /\ \A i \in 1 .. m + EntrySectors : bytes[i] = body[i]
       /\ bytes[m + EntrySectors + 1] = BackupHeader(l)
  <2>1. Joins(body \o one, body, one)
    BY ONLY <1>8, <1>9, Joined
  <2>2. bytes = body \o one
    BY DEF body
  <2> HIDE DEF bytes
  <2>3. Joins(bytes, body, one) /\ 1 \in 1 .. Len(one)
    BY <1>8, <2>1, <2>2
  <2>4. bytes[Len(body) + 1] = one[1]
    BY <2>3 DEF Joins
  <2> QED
    BY <1>8, <1>9, <2>3, <2>4 DEF Joins
<1> HIDE DEF bytes
<1>11. Len(bytes) \in Nat /\ backup + Len(bytes) = l.image
  <2>1. m = lba - backup
    BY DEF m
  <2>2. Len(bytes) = m + EntrySectors + 1
    BY <1>10
  <2> DEFINE n == Len(bytes)
             x == l.image
             k == EntrySectors
  <2>3. n = m + k + 1 /\ lba = x - 1 - k /\ x \in Nat /\ k \in Nat /\ m = lba - backup
        /\ lba \in Nat /\ backup \in Nat /\ backup <= lba
    BY <1>1, <1>2, <1>3, <2>1, <2>2
  <2> HIDE DEF n, x, k
  <2>4. n \in Nat /\ backup + n = x
    BY ONLY <2>3
  <2> QED
    BY <2>4 DEF n, x
<1>12. ASSUME NEW i \in 1 .. m PROVE bytes[i] = Zero
  <2>1. i \in 1 .. m + EntrySectors
    BY <1>1, <1>5
  <2> QED
    BY <1>9, <1>10, <2>1
<1>13. ASSUME NEW i \in 1 .. EntrySectors PROVE bytes[m + i] = array[i]
  <2>1. m + i \in 1 .. m + EntrySectors
    BY <1>1, <1>5
  <2> QED
    BY <1>9, <1>10, <2>1
<1>14. bytes[Len(bytes)] = BackupHeader(l)
  BY <1>10
<1> QED
  BY <1>2, <1>3, <1>4, <1>5, <1>10, <1>11, <1>12, <1>13, <1>14 DEF lba, array, m

\* A write puts n sectors of bytes on a disk of so many sectors, the rest stays.
Wrote(new, size, start, bytes, n, old) ==
  /\ DOMAIN new = Covers(0, size)
  /\ \A i \in 1 .. n : new[start + i - 1] = bytes[i]
  /\ \A s \in Nat : s < size /\ (s < start \/ start + n <= s) => new[s] = old[s]

\* A write of n sectors within a disk of some size.
LEMMA WriteWithin ==
  ASSUME NEW size \in Nat, NEW start \in Nat, NEW bytes, NEW n \in Nat, Len(bytes) = n,
         start + n <= size, NEW old, DOMAIN old = Covers(0, size)
  PROVE  Wrote(Over(At(start, bytes), old), size, start, bytes, n, old)
<1> DEFINE new == Over(At(start, bytes), old)
           D == Covers(start, n)
           E == Covers(0, size)
<1>1. /\ DOMAIN new = D \cup E
      /\ \A s \in D : new[s] = bytes[s - start + 1]
      /\ \A s \in E : s \notin D => new[s] = old[s]
  <2>1. Holds(new, start, bytes, old)
    BY OverHolds
  <2> QED
    BY <2>1 DEF Holds
<1>2. /\ \A s : s \in D <=> s \in Nat /\ start <= s /\ s < start + n
      /\ \A s : s \in E <=> s \in Nat /\ 0 <= s /\ s < size
  <2>1. \A s : s \in D <=> s \in Nat /\ start <= s /\ s < start + n
    BY InCovers
  <2>2. \A s : s \in E <=> s \in Nat /\ 0 <= s /\ s < 0 + size
    <3>1. 0 \in Nat
      OBVIOUS
    <3> QED
      BY ONLY <3>1, size \in Nat, InCovers DEF E
  <2> QED
    BY <2>1, <2>2
<1> HIDE DEF new, D, E
<1>3. D \subseteq E
  BY <1>2
<1>4. ASSUME NEW i \in 1 .. n PROVE new[start + i - 1] = bytes[i]
  <2>1. start + i - 1 \in D /\ (start + i - 1) - start + 1 = i
    BY <1>2
  <2> QED
    BY <1>1, <2>1
<1>5. ASSUME NEW s \in Nat, s < size, s < start \/ start + n <= s PROVE new[s] = old[s]
  <2>1. s \in E /\ s \notin D
    BY <1>2, <1>5
  <2> QED
    BY <1>1, <2>1
<1>6. DOMAIN new = Covers(0, size)
  BY <1>1, <1>3 DEF E
<1> QED
  BY <1>4, <1>5, <1>6 DEF Wrote, new

\* The disk before the files: the tables at its ends, zeros between them.
Tables(disk, l) ==
  /\ DOMAIN disk = Covers(0, l.image)
  /\ disk[0] = ProtectiveMbr(l)
  /\ disk[1] = PrimaryHeader(l)
  /\ disk[l.image - 1] = BackupHeader(l)
  /\ \A i \in 1 .. EntrySectors : disk[1 + i] = encode_gpt_entries(l)[i]
  /\ \A i \in 1 .. EntrySectors : disk[BackupEntriesLba(l) + i - 1] = encode_gpt_entries(l)[i]
  /\ \A s \in Nat : EntrySectors + 2 <= s /\ s < BackupEntriesLba(l) => disk[s] = Zero

\* A layout as its lemmas need it: the gaps hold the tables.
Roomy(l) ==
  /\ l.image \in Nat /\ l.image >= LeadingGap + TrailingGap

\* write_installed_gpt_image leaves both copies of the tables in the file before
\* it copies the two files in.
LEMMA TablesOfTheFile ==
  ASSUME NEW l, Roomy(l)
  PROVE  LET empty == At(0, Zeros(l.image))
             mbr == Over(At(0, <<ProtectiveMbr(l)>>), empty)
             primary == Over(At(2, encode_gpt_entries(l)), Over(At(1, <<PrimaryHeader(l)>>), mbr))
         IN  Tables(Over(At(LastLba(l), <<BackupHeader(l)>>),
                         Over(At(BackupEntriesLba(l), encode_gpt_entries(l)), primary)), l)
<1> DEFINE I == l.image
           e == EntrySectors
           lba == BackupEntriesLba(l)
           P == <<ProtectiveMbr(l)>>
           H == <<PrimaryHeader(l)>>
           B == <<BackupHeader(l)>>
           array == encode_gpt_entries(l)
           d0 == At(0, Zeros(I))
           d1 == Over(At(0, P), d0)
           d2 == Over(At(1, H), d1)
           d3 == Over(At(2, array), d2)
           d4 == Over(At(lba, array), d3)
           d5 == Over(At(I - 1, B), d4)
<1>1. I \in Nat /\ e \in Nat \ {0} /\ lba \in Nat /\ lba = I - 1 - e /\ 2 + e < lba
  BY GapsHoldTheTables DEF Roomy, BackupEntriesLba, LastLba
<1>2. Len(P) = 1 /\ P[1] = ProtectiveMbr(l) /\ Len(H) = 1 /\ H[1] = PrimaryHeader(l)
      /\ Len(B) = 1 /\ B[1] = BackupHeader(l)
  OBVIOUS
<1>3. Len(array) = e
  BY EntriesAre
<1>4. DOMAIN d0 = Covers(0, I) /\ \A s \in Nat : s < I => d0[s] = Zero
  <2>1. Len(Zeros(I)) = I /\ \A i \in 1 .. I : Zeros(I)[i] = Zero
    BY <1>1, ZerosAre
  <2> DEFINE z == Zeros(I)
  <2>2. DOMAIN d0 = Covers(0, Len(z)) /\ \A s \in Covers(0, Len(z)) : d0[s] = z[s - 0 + 1]
    BY AtIs
  <2> HIDE DEF z, I
  <2>3. ASSUME NEW s \in Nat, s < I PROVE z[s - 0 + 1] = Zero /\ s \in Covers(0, I)
    <3>1. s - 0 + 1 \in 1 .. I
      BY <1>1, <2>3
    <3>2. 0 \in Nat /\ 0 <= s /\ s < 0 + I
      BY <1>1, <2>3
    <3>3. s \in Covers(0, I)
      BY ONLY <1>1, <3>2, s \in Nat, InCovers
    <3> QED
      BY <2>1, <3>1, <3>3 DEF z
  <2> QED
    BY <2>1, <2>2, <2>3 DEF z
<1> HIDE DEF I, e, lba, P, H, B, array, d0
<1>5. Wrote(d1, I, 0, P, 1, d0)
  <2>1. 0 \in Nat /\ 1 \in Nat /\ 0 + 1 <= I
    BY <1>1
  <2> QED
    BY <1>1, <1>2, <1>4, <2>1, WriteWithin
<1> HIDE DEF d1
<1>6. Wrote(d2, I, 1, H, 1, d1)
  <2>1. 1 \in Nat /\ 1 + 1 <= I /\ DOMAIN d1 = Covers(0, I)
    BY <1>1, <1>5 DEF Wrote
  <2> QED
    BY <1>1, <1>2, <2>1, WriteWithin
<1> HIDE DEF d2
<1>7. Wrote(d3, I, 2, array, e, d2)
  <2>1. 2 \in Nat /\ e \in Nat /\ 2 + e <= I /\ DOMAIN d2 = Covers(0, I)
    BY <1>1, <1>6 DEF Wrote
  <2> QED
    BY <1>1, <1>3, <2>1, WriteWithin
<1> HIDE DEF d3
<1>8. Wrote(d4, I, lba, array, e, d3)
  <2>1. e \in Nat /\ lba + e <= I /\ DOMAIN d3 = Covers(0, I)
    BY <1>1, <1>7 DEF Wrote
  <2> QED
    BY <1>1, <1>3, <2>1, WriteWithin
<1> HIDE DEF d4
<1>9. Wrote(d5, I, I - 1, B, 1, d4)
  <2>1. 1 \in Nat /\ I - 1 \in Nat /\ I - 1 + 1 <= I /\ DOMAIN d4 = Covers(0, I)
    BY <1>1, <1>8 DEF Wrote
  <2> QED
    BY <1>1, <1>2, <2>1, WriteWithin
<1> HIDE DEF d5
<1>10. DOMAIN d5 = Covers(0, I)
  BY <1>9 DEF Wrote
<1>11. d5[0] = ProtectiveMbr(l)
  <2>1. d1[0] = P[1]
    <3>1. 1 \in 1 .. 1 /\ 0 + 1 - 1 = 0
      OBVIOUS
    <3> QED
      BY <1>5, <3>1 DEF Wrote
  <2>2. d2[0] = d1[0] /\ d3[0] = d2[0]
    BY <1>1, <1>6, <1>7 DEF Wrote
  <2>3. d4[0] = d3[0] /\ d5[0] = d4[0]
    BY <1>1, <1>8, <1>9 DEF Wrote
  <2> QED
    BY <1>2, <2>1, <2>2, <2>3
<1>12. d5[1] = PrimaryHeader(l)
  <2>1. d2[1] = H[1]
    <3>1. 1 \in 1 .. 1 /\ 1 + 1 - 1 = 1
      OBVIOUS
    <3> QED
      BY <1>6, <3>1 DEF Wrote
  <2>2. d3[1] = d2[1]
    BY <1>1, <1>7 DEF Wrote
  <2>3. d4[1] = d3[1] /\ d5[1] = d4[1]
    BY <1>1, <1>8, <1>9 DEF Wrote
  <2> QED
    BY <1>2, <2>1, <2>2, <2>3
<1>13. d5[I - 1] = BackupHeader(l)
  <2>1. 1 \in 1 .. 1 /\ (I - 1) + 1 - 1 = I - 1
    BY <1>1
  <2> QED
    BY <1>2, <1>9, <2>1 DEF Wrote
<1>14. ASSUME NEW i \in 1 .. e PROVE d5[1 + i] = array[i]
  <2>1. 2 + i - 1 = 1 + i /\ 1 + i \in Nat /\ 1 + i < lba /\ 1 + i < I /\ 1 + i < I - 1
    BY <1>1
  <2>2. d3[1 + i] = array[i]
    BY <1>7, <2>1 DEF Wrote
  <2>3. d4[1 + i] = d3[1 + i]
    BY <1>8, <2>1 DEF Wrote
  <2>4. d5[1 + i] = d4[1 + i]
    BY <1>9, <2>1 DEF Wrote
  <2> QED
    BY <2>2, <2>3, <2>4
<1>15. ASSUME NEW i \in 1 .. e PROVE d5[lba + i - 1] = array[i]
  <2>1. lba + i - 1 \in Nat /\ lba + i - 1 < I - 1 /\ lba + i - 1 < I
    BY <1>1
  <2>2. d4[lba + i - 1] = array[i]
    BY <1>8 DEF Wrote
  <2>3. d5[lba + i - 1] = d4[lba + i - 1]
    BY <1>9, <2>1 DEF Wrote
  <2> QED
    BY <2>2, <2>3
<1>16. ASSUME NEW s \in Nat, e + 2 <= s, s < lba PROVE d5[s] = Zero
  <2>1. s < I /\ s < I - 1 /\ 2 + e <= s /\ 1 + 1 <= s /\ 0 + 1 <= s
    BY <1>1, <1>16
  <2>2. d0[s] = Zero
    BY <1>4, <2>1
  <2>3. d1[s] = d0[s]
    BY <1>5, <2>1 DEF Wrote
  <2>4. d2[s] = d1[s]
    BY <1>6, <2>1 DEF Wrote
  <2>5. d3[s] = d2[s]
    BY <1>7, <2>1 DEF Wrote
  <2>6. d4[s] = d3[s]
    BY <1>8, <1>16, <2>1 DEF Wrote
  <2>7. d5[s] = d4[s]
    BY <1>9, <2>1 DEF Wrote
  <2> QED
    BY <2>2, <2>3, <2>4, <2>5, <2>6, <2>7
<1>17. Tables(d5, l)
  BY <1>10, <1>11, <1>12, <1>13, <1>14, <1>15, <1>16 DEF Tables, I, e, lba, array
<1> QED
  BY <1>17 DEF d0, d1, d2, d3, d4, d5, I, P, H, B, array, lba, LastLba

\* The two runs of gpt_required_extent_bytes hold the same tables.
LEMMA TablesOfTheGraph ==
  ASSUME NEW l, Roomy(l)
  PROVE  LET gpt == gpt_required_extent_bytes(l)
         IN  Tables(Over(At(gpt[2].start, gpt[2].bytes),
                         Over(At(gpt[1].start, gpt[1].bytes), At(0, Zeros(l.image)))), l)
<1> DEFINE I == l.image
           e == EntrySectors
           lba == BackupEntriesLba(l)
           array == encode_gpt_entries(l)
           gpt == gpt_required_extent_bytes(l)
           head == gpt[1].bytes
           h == Len(head)
           tail == gpt[2].bytes
           a == gpt[2].start
           t == Len(tail)
           d0 == At(0, Zeros(I))
           d1 == Over(At(0, head), d0)
           d2 == Over(At(a, tail), d1)
<1>1. I \in Nat /\ e \in Nat \ {0} /\ lba \in Nat /\ lba = I - 1 - e
      /\ I >= LeadingGap + TrailingGap /\ LeadingGap \in Nat /\ TrailingGap \in Nat
      /\ LeadingGap >= 2 + e
  BY GapsHoldTheTables DEF Roomy, BackupEntriesLba, LastLba
<1>2. /\ gpt[1].start = 0
      /\ h \in Nat /\ e + 2 <= h /\ h <= LeadingGap
      /\ head[1] = ProtectiveMbr(l) /\ head[2] = PrimaryHeader(l)
      /\ \A i \in 1 .. e : head[2 + i] = array[i]
      /\ \A i \in e + 3 .. h : head[i] = Zero
  BY HeadRun
<1>3. /\ a \in Nat /\ I - TrailingGap <= a /\ a <= lba
      /\ t \in Nat /\ a + t = I
      /\ \A i \in 1 .. lba - a : tail[i] = Zero
      /\ \A i \in 1 .. e : tail[lba - a + i] = array[i]
      /\ tail[t] = BackupHeader(l)
  <2>1. l.image \in Nat /\ l.image >= TrailingGap
    BY <1>1
  <2> QED
    BY <2>1, TailRun
<1>4. DOMAIN d0 = Covers(0, I) /\ \A s \in Nat : s < I => d0[s] = Zero
  <2>1. Len(Zeros(I)) = I /\ \A i \in 1 .. I : Zeros(I)[i] = Zero
    BY <1>1, ZerosAre
  <2> DEFINE z == Zeros(I)
  <2>2. DOMAIN d0 = Covers(0, Len(z)) /\ \A s \in Covers(0, Len(z)) : d0[s] = z[s - 0 + 1]
    BY AtIs
  <2> HIDE DEF z, I
  <2>3. ASSUME NEW s \in Nat, s < I PROVE z[s - 0 + 1] = Zero /\ s \in Covers(0, I)
    <3>1. s - 0 + 1 \in 1 .. I
      BY <1>1, <2>3
    <3>2. 0 \in Nat /\ 0 <= s /\ s < 0 + I
      BY <1>1, <2>3
    <3>3. s \in Covers(0, I)
      BY ONLY <1>1, <3>2, s \in Nat, InCovers
    <3> QED
      BY <2>1, <3>1, <3>3 DEF z
  <2> QED
    BY <2>1, <2>2, <2>3 DEF z
<1>5. Over(At(gpt[2].start, gpt[2].bytes), Over(At(gpt[1].start, gpt[1].bytes), At(0, Zeros(I))))
         = d2
  BY <1>2
<1> HIDE DEF gpt
<1> HIDE DEF I, e, lba, array, head, h, tail, a, t, d0
<1>6. Wrote(d1, I, 0, head, h, d0)
  <2>1. 0 \in Nat /\ h \in Nat /\ Len(head) = h /\ 0 + h <= I
    BY <1>1, <1>2 DEF h
  <2> QED
    BY <1>1, <1>4, <2>1, WriteWithin
<1> HIDE DEF d1
<1>7. Wrote(d2, I, a, tail, t, d1)
  <2>1. a \in Nat /\ t \in Nat /\ Len(tail) = t /\ a + t <= I /\ DOMAIN d1 = Covers(0, I)
    BY <1>1, <1>3, <1>6 DEF t, Wrote
  <2> QED
    BY <1>1, <2>1, WriteWithin
<1> HIDE DEF d2
<1>8. h <= a
  BY <1>1, <1>2, <1>3
\* what the runs hold
<1>9. \A i \in 1 .. h : d2[i - 1] = head[i]
  <2> TAKE i \in 1 .. h
  <2>1. i - 1 \in Nat /\ i - 1 < I /\ i - 1 < a /\ 0 + i - 1 = i - 1
    BY <1>2, <1>3, <1>8
  <2>2. d1[0 + i - 1] = head[i]
    BY <1>6 DEF Wrote
  <2>3. d2[i - 1] = d1[i - 1]
    BY <1>7, <2>1 DEF Wrote
  <2> QED
    BY <2>1, <2>2, <2>3
<1>10. \A i \in 1 .. t : d2[a + i - 1] = tail[i]
  BY <1>7 DEF Wrote
<1>11. DOMAIN d2 = Covers(0, I)
  BY <1>7 DEF Wrote
<1>12. d2[0] = ProtectiveMbr(l)
  <2>1. 1 \in 1 .. h /\ 1 - 1 = 0
    BY <1>1, <1>2
  <2> QED
    BY <1>2, <1>9, <2>1
<1>13. d2[1] = PrimaryHeader(l)
  <2>1. 2 \in 1 .. h /\ 2 - 1 = 1
    BY <1>1, <1>2
  <2> QED
    BY <1>2, <1>9, <2>1
<1>14. d2[I - 1] = BackupHeader(l)
  <2>1. t \in 1 .. t /\ a + t - 1 = I - 1
    BY <1>1, <1>3
  <2> QED
    BY <1>3, <1>10, <2>1
<1>15. ASSUME NEW i \in 1 .. e PROVE d2[1 + i] = array[i]
  <2>1. 2 + i \in 1 .. h /\ 2 + i - 1 = 1 + i
    BY <1>1, <1>2
  <2> QED
    BY <1>2, <1>9, <2>1
<1>16. ASSUME NEW i \in 1 .. e PROVE d2[lba + i - 1] = array[i]
  <2>1. lba - a + i \in 1 .. t /\ a + (lba - a + i) - 1 = lba + i - 1
    BY <1>1, <1>3
  <2> QED
    BY <1>3, <1>10, <2>1
<1>17. ASSUME NEW s \in Nat, e + 2 <= s, s < lba PROVE d2[s] = Zero
  <2>1. CASE s < h
    <3>1. s + 1 \in 1 .. h /\ s + 1 \in e + 3 .. h /\ s + 1 - 1 = s
      BY <1>1, <1>2, <1>17, <2>1
    <3> QED
      BY <1>2, <1>9, <3>1
  <2>2. CASE h <= s /\ s < a
    <3>1. 0 + h <= s /\ s < I
      BY <1>1, <1>2, <1>17, <2>2
    <3>2. d0[s] = Zero
      BY <1>4, <3>1
    <3>3. d1[s] = d0[s]
      BY <1>6, <3>1 DEF Wrote
    <3>4. d2[s] = d1[s]
      BY <1>7, <2>2, <3>1 DEF Wrote
    <3> QED
      BY <3>2, <3>3, <3>4
  <2>3. CASE a <= s
    <3>1. s - a + 1 \in 1 .. lba - a /\ s - a + 1 \in 1 .. t /\ a + (s - a + 1) - 1 = s
      BY <1>1, <1>3, <1>17, <2>3
    <3> QED
      BY <1>3, <1>10, <3>1
  <2> QED
    BY <1>2, <1>3, <2>1, <2>2, <2>3
<1>18. Tables(d2, l)
  BY <1>11, <1>12, <1>13, <1>14, <1>15, <1>16, <1>17 DEF Tables, I, e, lba, array
<1> QED
  BY <1>5, <1>18 DEF I, gpt

\* The disk as it is installed, on a disk that may be larger.
Installed(disk, l, esp, root) ==
  /\ \A s \in Nat : s < l.image => s \in DOMAIN disk
  /\ disk[0] = ProtectiveMbr(l)
  /\ disk[1] = PrimaryHeader(l)
  /\ disk[l.image - 1] = BackupHeader(l)
  /\ \A i \in 1 .. EntrySectors : disk[1 + i] = encode_gpt_entries(l)[i]
  /\ \A i \in 1 .. EntrySectors : disk[BackupEntriesLba(l) + i - 1] = encode_gpt_entries(l)[i]
  /\ \A s \in Nat : EntrySectors + 2 <= s /\ s < LeadingGap => disk[s] = Zero
  /\ \A i \in 1 .. l.esp.len : disk[l.esp.start + i - 1] = esp[i]
  /\ \A i \in 1 .. l.root.len : disk[l.root.start + i - 1] = root[i]
  /\ \A s \in Nat : l.image - TrailingGap <= s /\ s < BackupEntriesLba(l) => disk[s] = Zero

\* The two files are written between the tables.
LEMMA FilesOverTables ==
  ASSUME NEW esp, NEW root, Len(root) \in Nat, Len(esp) = EspSectors, NEW tables,
         Tables(tables, InstalledGptLayout(Len(root)))
  PROVE  LET l == InstalledGptLayout(Len(root))
             disk == Over(At(l.root.start, root), Over(At(l.esp.start, esp), tables))
         IN  DOMAIN disk = Covers(0, l.image) /\ Installed(disk, l, esp, root)
<1> DEFINE l == InstalledGptLayout(Len(root))
           I == l.image
           e == EntrySectors
           lba == BackupEntriesLba(l)
           array == encode_gpt_entries(l)
           n == Len(root)
           k == EspSectors
           p == l.esp.start
           q == l.root.start
           d0 == tables
           d1 == Over(At(p, esp), d0)
           d2 == Over(At(q, root), d1)
<1>1. /\ l.esp.start = LeadingGap /\ l.esp.len = EspSectors
      /\ l.root.start = LeadingGap + EspSectors /\ l.root.len = n
      /\ l.image = LeadingGap + EspSectors + n + TrailingGap /\ l.image \in Nat
  BY LayoutIs
<1>2. /\ k \in Nat /\ n \in Nat /\ p \in Nat /\ q \in Nat /\ I \in Nat /\ e \in Nat \ {0}
      /\ p = LeadingGap /\ q = p + k /\ I = q + n + TrailingGap
      /\ TrailingGap \in Nat /\ TrailingGap >= e + 2 /\ p >= e + 2
      /\ lba \in Nat /\ lba = I - 1 - e /\ l.esp.len = k /\ l.root.len = n
  <2>1. /\ LeadingGap \in Nat /\ EspSectors \in Nat /\ TrailingGap \in Nat
        /\ EntrySectors \in Nat \ {0} /\ BlockSectors \in Nat \ {0}
        /\ LeadingGap >= EntrySectors + 2 + BlockSectors
        /\ TrailingGap >= EntrySectors + 1 + BlockSectors
    BY GapsHoldTheTables
  <2>2. lba = I - 1 - e
    BY DEF BackupEntriesLba, LastLba
  <2> HIDE DEF l, lba
  <2> QED
    BY <1>1, <2>1, <2>2
<1>3. /\ DOMAIN d0 = Covers(0, I)
      /\ d0[0] = ProtectiveMbr(l) /\ d0[1] = PrimaryHeader(l) /\ d0[I - 1] = BackupHeader(l)
      /\ \A i \in 1 .. e : d0[1 + i] = array[i]
      /\ \A i \in 1 .. e : d0[lba + i - 1] = array[i]
      /\ \A s \in Nat : e + 2 <= s /\ s < lba => d0[s] = Zero
  BY DEF Tables
<1> HIDE DEF l, I, e, lba, array, n, k, p, q, d0
<1>4. Wrote(d1, I, p, esp, k, d0)
  <2>1. p + k <= I /\ Len(esp) = k
    BY <1>2 DEF k
  <2> QED
    BY <1>2, <1>3, <2>1, WriteWithin
<1> HIDE DEF d1
<1>5. Wrote(d2, I, q, root, n, d1)
  <2>1. q + n <= I /\ Len(root) = n /\ DOMAIN d1 = Covers(0, I)
    BY <1>2, <1>4 DEF n, Wrote
  <2> QED
    BY <1>2, <2>1, WriteWithin
<1> HIDE DEF d2
<1>6. ASSUME NEW s \in Nat, s < p \/ q + n <= s, s < I PROVE d2[s] = d0[s]
  <2>1. (s < p \/ p + k <= s) /\ (s < q \/ q + n <= s)
    BY <1>2, <1>6
  <2>2. d1[s] = d0[s]
    BY <1>4, <1>6, <2>1 DEF Wrote
  <2>3. d2[s] = d1[s]
    BY <1>5, <1>6, <2>1 DEF Wrote
  <2> QED
    BY <2>2, <2>3
<1>7. DOMAIN d2 = Covers(0, I)
  BY <1>5 DEF Wrote
<1>8. \A s \in Nat : s < I => s \in DOMAIN d2
  <2> TAKE s \in Nat
  <2>1. 0 \in Nat /\ 0 <= s /\ (s < I => s < 0 + I)
    BY <1>2
  <2>2. s < 0 + I => s \in Covers(0, I)
    BY ONLY <1>2, <2>1, s \in Nat, InCovers
  <2> QED
    BY <1>7, <2>1, <2>2
<1>9. d2[0] = ProtectiveMbr(l) /\ d2[1] = PrimaryHeader(l) /\ d2[I - 1] = BackupHeader(l)
  <2>1. 0 \in Nat /\ 0 < p /\ 0 < I /\ 1 \in Nat /\ 1 < p /\ 1 < I
        /\ I - 1 \in Nat /\ q + n <= I - 1 /\ I - 1 < I
    BY <1>2
  <2> QED
    BY <1>3, <1>6, <2>1
<1>10. ASSUME NEW i \in 1 .. e PROVE d2[1 + i] = array[i]
  <2>1. 1 + i \in Nat /\ 1 + i < p /\ 1 + i < I
    BY <1>2
  <2> QED
    BY <1>3, <1>6, <2>1
<1>11. ASSUME NEW i \in 1 .. e PROVE d2[lba + i - 1] = array[i]
  <2>1. lba + i - 1 \in Nat /\ q + n <= lba + i - 1 /\ lba + i - 1 < I
    BY <1>2
  <2> QED
    BY <1>3, <1>6, <2>1
<1>12. ASSUME NEW s \in Nat, e + 2 <= s, s < p PROVE d2[s] = Zero
  <2>1. s < lba /\ s < I
    BY <1>2, <1>12
  <2> QED
    BY <1>3, <1>6, <1>12, <2>1
<1>13. ASSUME NEW s \in Nat, I - TrailingGap <= s, s < lba PROVE d2[s] = Zero
  <2>1. e + 2 <= s /\ q + n <= s /\ s < I
    BY <1>2, <1>13
  <2> QED
    BY <1>3, <1>6, <1>13, <2>1
<1>14. ASSUME NEW i \in 1 .. k PROVE d2[p + i - 1] = esp[i]
  <2>1. p + i - 1 \in Nat /\ p + i - 1 < I /\ p + i - 1 < q
    BY <1>2
  <2>2. d1[p + i - 1] = esp[i]
    BY <1>4 DEF Wrote
  <2>3. d2[p + i - 1] = d1[p + i - 1]
    BY <1>5, <2>1 DEF Wrote
  <2> QED
    BY <2>2, <2>3
<1>15. \A i \in 1 .. n : d2[q + i - 1] = root[i]
  BY <1>5 DEF Wrote
<1>16. Installed(d2, l, esp, root)
  BY <1>2, <1>8, <1>9, <1>10, <1>11, <1>12, <1>13, <1>14, <1>15
     DEF Installed, I, e, lba, array, p, q
<1> QED
  BY <1>7, <1>16 DEF d0, d1, d2, l, p, q, I

\* The flat file is the installed disk.
LEMMA FileIsInstalled ==
  ASSUME NEW esp, NEW root, Len(root) \in Nat, Len(esp) = EspSectors
  PROVE  LET l == InstalledGptLayout(Len(root))
             image == write_installed_gpt_image(l, esp, root)
         IN  DOMAIN image = Covers(0, l.image) /\ Installed(image, l, esp, root)
<1> DEFINE l == InstalledGptLayout(Len(root))
<1>1. Roomy(l)
  BY LayoutIs, GapsHoldTheTables, SMTT(30) DEF Roomy
<1> DEFINE empty == At(0, Zeros(l.image))
           mbr == Over(At(0, <<ProtectiveMbr(l)>>), empty)
           primary == Over(At(2, encode_gpt_entries(l)), Over(At(1, <<PrimaryHeader(l)>>), mbr))
           tables == Over(At(LastLba(l), <<BackupHeader(l)>>),
                         Over(At(BackupEntriesLba(l), encode_gpt_entries(l)), primary))
<1>2. Tables(tables, l)
  <2> HIDE DEF l
  <2> QED
    BY <1>1, TablesOfTheFile
<1>3. write_installed_gpt_image(l, esp, root)
        = Over(At(l.root.start, root), Over(At(l.esp.start, esp), tables))
  BY DEF write_installed_gpt_image
<1> HIDE DEF tables
<1> QED
  BY <1>2, <1>3, FilesOverTables

\* Two installed disks of the same files agree on every sector of the image.
LEMMA SameSectors ==
  ASSUME NEW esp, NEW root, Len(root) \in Nat,
         NEW one, Installed(one, InstalledGptLayout(Len(root)), esp, root),
         NEW other, Installed(other, InstalledGptLayout(Len(root)), esp, root)
  PROVE  \A s \in Nat : s < InstalledGptLayout(Len(root)).image => one[s] = other[s]
<1> DEFINE l == InstalledGptLayout(Len(root))
           I == l.image
           e == EntrySectors
           lba == BackupEntriesLba(l)
           n == Len(root)
           k == EspSectors
           p == l.esp.start
           q == l.root.start
           Is(d) ==
             /\ d[0] = ProtectiveMbr(l) /\ d[1] = PrimaryHeader(l) /\ d[I - 1] = BackupHeader(l)
             /\ \A i \in 1 .. e : d[1 + i] = encode_gpt_entries(l)[i]
             /\ \A i \in 1 .. e : d[lba + i - 1] = encode_gpt_entries(l)[i]
             /\ \A s \in Nat : e + 2 <= s /\ s < p => d[s] = Zero
             /\ \A i \in 1 .. k : d[p + i - 1] = esp[i]
             /\ \A i \in 1 .. n : d[q + i - 1] = root[i]
             /\ \A s \in Nat : I - TrailingGap <= s /\ s < lba => d[s] = Zero
<1>1. /\ p = LeadingGap /\ l.esp.len = k /\ q = p + k /\ l.root.len = n
      /\ I = q + n + TrailingGap /\ I \in Nat /\ lba = I - 1 - e
  <2>1. /\ l.esp.start = LeadingGap /\ l.esp.len = EspSectors
        /\ l.root.start = LeadingGap + EspSectors /\ l.root.len = n
        /\ l.image = LeadingGap + EspSectors + n + TrailingGap /\ l.image \in Nat
    BY LayoutIs
  <2>2. lba = I - 1 - e
    BY DEF BackupEntriesLba, LastLba
  <2> HIDE DEF l, lba
  <2> QED
    BY <2>1, <2>2
<1>2. /\ p \in Nat /\ k \in Nat /\ n \in Nat /\ TrailingGap \in Nat /\ e \in Nat
      /\ p >= e + 2 /\ TrailingGap >= e + 1
  BY <1>1, Room
<1>3. Is(one) /\ Is(other)
  <2> HIDE DEF l
  <2>1. Is(one)
    BY <1>1 DEF Installed, l
  <2>2. Is(other)
    BY <1>1 DEF Installed, l
  <2> QED
    BY <2>1, <2>2
<1> HIDE DEF l, I, e, lba, n, k, p, q
<1> SUFFICES ASSUME NEW s \in Nat, s < I PROVE one[s] = other[s]
  BY DEF I, l
<1> HIDE DEF Is
<1>4. CASE s = 0 \/ s = 1 \/ s = I - 1
  BY <1>3, <1>4 DEF Is
<1>5. CASE 1 < s /\ s < e + 2
  <2>1. s - 1 \in 1 .. e /\ 1 + (s - 1) = s
    BY <1>2, <1>5
  <2> QED
    BY <1>3, <2>1 DEF Is
<1>6. CASE e + 2 <= s /\ s < p
  BY <1>3, <1>6 DEF Is
<1>7. CASE p <= s /\ s < q
  <2>1. s - p + 1 \in 1 .. k /\ p + (s - p + 1) - 1 = s
    BY <1>1, <1>2, <1>7
  <2> QED
    BY <1>3, <2>1 DEF Is
<1>8. CASE q <= s /\ s < q + n
  <2>1. s - q + 1 \in 1 .. n /\ q + (s - q + 1) - 1 = s
    BY <1>1, <1>2, <1>8
  <2> QED
    BY <1>3, <2>1 DEF Is
<1>9. CASE q + n <= s /\ s < lba
  <2>1. I - TrailingGap <= s
    BY <1>1, <1>2, <1>9
  <2> QED
    BY <1>3, <1>9, <2>1 DEF Is
<1>10. CASE lba <= s /\ s < I - 1
  <2>1. s - lba + 1 \in 1 .. e /\ lba + (s - lba + 1) - 1 = s
    BY <1>1, <1>2, <1>10
  <2> QED
    BY <1>3, <2>1 DEF Is
<1>11. \/ s = 0 \/ s = 1 \/ s = I - 1
       \/ 1 < s /\ s < e + 2
       \/ e + 2 <= s /\ s < p
       \/ p <= s /\ s < q
       \/ q <= s /\ s < q + n
       \/ q + n <= s /\ s < lba
       \/ lba <= s /\ s < I - 1
  BY <1>1, <1>2
<1> QED
  BY <1>4, <1>5, <1>6, <1>7, <1>8, <1>9, <1>10, <1>11

\* The blocks of a graph that can be read are those of the flat file.
LEMMA BlocksOfTheFile ==
  ASSUME NEW esp, NEW root, Len(root) \in Nat \ {0},
         GraphReads(InstalledGptLayout(Len(root)), esp, root)
  PROVE  LET l == InstalledGptLayout(Len(root))
         IN  \A b \in 1 .. Blocks(l) : \A i \in 1 .. BlockSectors :
                /\ DOMAIN block_bytes_at(l, esp, root)[b] = 1 .. BlockSectors
                /\ (b - 1) * BlockSectors + i - 1 \in 0 .. l.image - 1
                /\ block_bytes_at(l, esp, root)[b][i]
                      = write_installed_gpt_image(l, esp, root)[(b - 1) * BlockSectors + i - 1]
<1> DEFINE l == InstalledGptLayout(Len(root))
           image == write_installed_gpt_image(l, esp, root)
           gpt == gpt_required_extent_bytes(l)
           tables == Over(At(gpt[2].start, gpt[2].bytes),
                          Over(At(gpt[1].start, gpt[1].bytes), At(0, Zeros(l.image))))
           sectors == Over(At(l.root.start, root), Over(At(l.esp.start, esp), tables))
<1>1. Blocks(l) \in Nat \ {0} /\ l.image = Blocks(l) * BlockSectors /\ Len(esp) = EspSectors
  BY WholeBlocks
<1>2. Roomy(l)
  <2>1. l.image = LeadingGap + EspSectors + Len(root) + TrailingGap /\ l.image \in Nat
    BY LayoutIs
  <2> QED
    BY <2>1, Room DEF Roomy
<1>3. Tables(tables, l)
  <2> HIDE DEF l
  <2> QED
    BY <1>2, TablesOfTheGraph
<1>4. Installed(sectors, l, esp, root)
  <2> HIDE DEF tables
  <2> QED
    BY <1>1, <1>3, FilesOverTables
<1>5. Installed(image, l, esp, root)
  BY <1>1, FileIsInstalled
<1>6. \A s \in Nat : s < l.image => sectors[s] = image[s]
  <2> HIDE DEF sectors, image
  <2> QED
    BY <1>4, <1>5, SameSectors
<1>7. block_bytes_at(l, esp, root)
        = [b \in 1 .. Blocks(l) |->
              [i \in 1 .. BlockSectors |-> sectors[(b - 1) * BlockSectors + i - 1]]]
  BY DEF block_bytes_at
<1>8. BlockSectors \in Nat \ {0}
  BY GapsHoldTheTables
<1> DEFINE g == Blocks(l)
           B == BlockSectors
<1> HIDE DEF l, image, gpt, tables, sectors
<1>9. ASSUME NEW b \in 1 .. g, NEW i \in 1 .. B
      PROVE  /\ DOMAIN block_bytes_at(l, esp, root)[b] = 1 .. B
             /\ (b - 1) * B + i - 1 \in Nat /\ (b - 1) * B + i - 1 < l.image
             /\ block_bytes_at(l, esp, root)[b][i] = image[(b - 1) * B + i - 1]
  <2> HIDE DEF g, B
  <2>1. (b - 1) * B + i - 1 \in Nat
    BY <1>8 DEF B
  <2>2. (b - 1) * B + B <= g * B
    <3>1. (b - 1) * B + B = b * B
      BY <1>8 DEF B
    <3>2. b * B <= g * B
      BY <1>1, <1>8 DEF B, g
    <3> QED
      BY <3>1, <3>2
  <2>3. (b - 1) * B + i - 1 < l.image
    <3>1. g * B = l.image /\ g * B \in Nat /\ (b - 1) * B \in Nat /\ B \in Nat
      BY <1>1, <1>8 DEF g, B
    <3> QED
      BY <2>1, <2>2, <3>1
  <2>4. block_bytes_at(l, esp, root)[b][i] = sectors[(b - 1) * B + i - 1]
        /\ DOMAIN block_bytes_at(l, esp, root)[b] = 1 .. B
    BY <1>7 DEF g, B
  <2> QED
    BY <1>6, <2>1, <2>3, <2>4
<1>10. l.image \in Nat
  BY <1>2 DEF Roomy
<1>11. ASSUME NEW b \in 1 .. g, NEW i \in 1 .. B PROVE (b - 1) * B + i - 1 \in 0 .. l.image - 1
  <2>1. (b - 1) * B + i - 1 \in Nat /\ (b - 1) * B + i - 1 < l.image
    BY <1>9
  <2> QED
    BY <1>10, <2>1
<1> QED
  BY <1>9, <1>11 DEF g, B, l, image

\* The GPT of an installed disk, however large, reads back as the layout.
LEMMA GptReadsBack ==
  ASSUME NEW esp, NEW root, Len(root) \in Nat \ {0}, NEW disk,
         Installed(disk, InstalledGptLayout(Len(root)), esp, root)
  PROVE  LET l == InstalledGptLayout(Len(root))
         IN  parse_gpt_physical(disk) = [partitions |-> gpt_entries(l), span |-> l.image]
<1> DEFINE l == InstalledGptLayout(Len(root))
           I == l.image
           n == Len(root)
           e == EntrySectors
           lba == BackupEntriesLba(l)
           array == encode_gpt_entries(l)
           p == disk[1]
           b == disk[p.alternate]
<1>1. /\ l.esp.start = LeadingGap /\ l.esp.len = EspSectors
      /\ l.root.start = LeadingGap + EspSectors /\ l.root.len = n
      /\ I = LeadingGap + EspSectors + n + TrailingGap /\ I \in Nat
  BY LayoutIs
<1>2. /\ LeadingGap \in Nat /\ EspSectors \in Nat \ {0} /\ TrailingGap \in Nat /\ n \in Nat \ {0}
      /\ e \in Nat \ {0} /\ LeadingGap >= e + 2 /\ TrailingGap >= e + 1
  BY Room
<1>3. lba = I - 1 - e /\ LastLba(l) = I - 1
  BY DEF BackupEntriesLba, LastLba
<1>4. p = [current |-> 1, alternate |-> I - 1, first |-> e + 2, last |-> I - 1 - (e + 1),
           entries |-> 2, crc |-> array]
  BY DEF Installed, PrimaryHeader, encode_gpt_header, LastLba
<1>5. b = [current |-> I - 1, alternate |-> 1, first |-> e + 2, last |-> I - 1 - (e + 1),
           entries |-> lba, crc |-> array]
  <2>1. disk[I - 1] = BackupHeader(l)
    BY DEF Installed
  <2>2. p.alternate = I - 1
    BY <1>4
  <2> QED
    BY <2>1, <2>2 DEF BackupHeader, encode_gpt_header, LastLba
<1>6. \A s \in Nat : s < I => s \in DOMAIN disk
  BY DEF Installed
<1>7. Len(array) = e /\ array \in Seq({Zero, Table(l)}) /\ array[1] = Table(l)
  BY EntriesAre
<1>8. Entries(disk, 2) = array
  <2>1. \A i \in 1 .. e : disk[1 + i] = array[i]
    BY DEF Installed
  <2>2. \A i \in 1 .. e : 2 + i - 1 = 1 + i
    OBVIOUS
  <2>3. Entries(disk, 2) = [i \in 1 .. e |-> disk[2 + i - 1]]
    BY DEF Entries
  <2>4. array = [i \in 1 .. e |-> array[i]]
    BY <1>7
  <2> HIDE DEF array, e
  <2> QED
    BY <2>1, <2>2, <2>3, <2>4
<1>9. Entries(disk, lba) = array
  <2>1. \A i \in 1 .. e : disk[lba + i - 1] = array[i]
    BY DEF Installed
  <2>2. Entries(disk, lba) = [i \in 1 .. e |-> disk[lba + i - 1]]
    BY DEF Entries
  <2>3. array = [i \in 1 .. e |-> array[i]]
    BY <1>7
  <2> HIDE DEF array, e, lba
  <2> QED
    BY <2>1, <2>2, <2>3
<1>10. array[1].entries = gpt_entries(l)
  BY <1>7 DEF Table
<1>11. gpt_entries(l) =
          << [start |-> LeadingGap, end |-> LeadingGap + EspSectors - 1],
             [start |-> LeadingGap + EspSectors, end |-> LeadingGap + EspSectors + n - 1] >>
  BY <1>1 DEF gpt_entries
<1> HIDE DEF l, I, n, e, lba, array, p, b
<1>12. Header(disk, 1) /\ p.current = 1
  <2>1. 1 \in DOMAIN disk
    BY <1>1, <1>2, <1>6
  <2>2. "alternate" \in DOMAIN p
    BY <1>4
  <2> QED
    BY <1>4, <2>1, <2>2 DEF Header, p
<1>13. p.alternate \in DOMAIN disk /\ Header(disk, p.alternate)
  <2>1. p.alternate = I - 1 /\ I - 1 \in Nat /\ I - 1 < I
    BY <1>1, <1>2, <1>4
  <2>2. "alternate" \in DOMAIN b
    BY <1>5
  <2> QED
    BY <1>6, <2>1, <2>2 DEF Header, b
<1>14. b.current = p.alternate /\ b.alternate = 1
  BY <1>4, <1>5
<1>15. p.first <= p.last /\ b.first = p.first /\ b.last = p.last
  <2>1. p.first = e + 2 /\ p.last = I - 1 - (e + 1) /\ b.first = e + 2 /\ b.last = I - 1 - (e + 1)
    BY <1>4, <1>5
  <2>2. e + 2 <= I - 1 - (e + 1)
    BY <1>1, <1>2
  <2> QED
    BY <2>1, <2>2
<1>16. p.entries = 2 /\ 2 + e <= p.alternate + 1
  <2>1. p.entries = 2 /\ p.alternate = I - 1
    BY <1>4
  <2>2. 2 + e <= I - 1 + 1
    BY <1>1, <1>2
  <2> QED
    BY <2>1, <2>2
<1>17. Entries(disk, p.entries) = array /\ p.crc = array
  BY <1>4, <1>8
<1>18. b.entries + e = p.alternate /\ Entries(disk, b.entries) = b.crc /\ b.crc = array
  <2>1. b.entries = lba /\ p.alternate = I - 1 /\ b.crc = array
    BY <1>4, <1>5
  <2>2. lba + e = I - 1
    BY <1>1, <1>2, <1>3
  <2> QED
    BY <1>9, <2>1, <2>2
<1>19. \A i \in DOMAIN array[1].entries :
          LET x == array[1].entries[i]
          IN  p.first <= x.start /\ x.start <= x.end /\ x.end <= p.last /\ x.end <= p.alternate
  <2>1. p.first = e + 2 /\ p.last = I - 1 - (e + 1) /\ p.alternate = I - 1
    BY <1>4
  <2> DEFINE x1 == [start |-> LeadingGap, end |-> LeadingGap + EspSectors - 1]
             x2 == [start |-> LeadingGap + EspSectors, end |-> LeadingGap + EspSectors + n - 1]
             Fits(x) == p.first <= x.start /\ x.start <= x.end /\ x.end <= p.last
                        /\ x.end <= p.alternate
  <2>2. Fits(x1)
    <3>1. x1.start = LeadingGap /\ x1.end = LeadingGap + EspSectors - 1
      OBVIOUS
    <3> HIDE DEF x1
    <3> QED
      BY <1>1, <1>2, <2>1, <3>1
  <2>3. Fits(x2)
    <3>1. x2.start = LeadingGap + EspSectors /\ x2.end = LeadingGap + EspSectors + n - 1
      OBVIOUS
    <3> HIDE DEF x2
    <3> QED
      BY <1>1, <1>2, <2>1, <3>1
  <2>4. array[1].entries = <<x1, x2>>
    BY <1>10, <1>11
  <2> HIDE DEF x1, x2, Fits
  <2>5. \A i \in DOMAIN array[1].entries : Fits(array[1].entries[i])
    BY <2>2, <2>3, <2>4
  <2> QED
    BY <2>5 DEF Fits
<1>20. parse_gpt_physical(disk) = [partitions |-> array[1].entries, span |-> p.alternate + 1]
  BY <1>12, <1>13, <1>14, <1>15, <1>16, <1>17, <1>18, <1>19
     DEF parse_gpt_physical, p, b, e
<1>21. p.alternate + 1 = I
  BY <1>1, <1>4
<1> QED
  BY <1>10, <1>20, <1>21 DEF l, I

-----------------------------------------------------------------------------
(* The extents of the graph.                                               *)

\* Extents of blocks.
Extents(V) == [offset : Nat, bytes : Seq(V), kind : {"zero", "data"}]

\* An extent of the first n blocks: no longer than it may be, of one kind.
Describes(x, blocks, n) ==
  /\ 0 < Len(x.bytes) /\ Len(x.bytes) <= MaxExtent
  /\ x.offset + Len(x.bytes) <= n
  /\ \A k \in 1 .. Len(x.bytes) :
        /\ x.bytes[k] = blocks[x.offset + k]
        /\ x.bytes[k] = ZeroBlock <=> x.kind = "zero"

\* Extents one behind the other, from the first block to the n-th.
Covering(extents, blocks, n) ==
  /\ Len(extents) # 0
  /\ \A i \in 1 .. Len(extents) : Describes(extents[i], blocks, n)
  /\ extents[1].offset = 0
  /\ \A i \in 1 .. Len(extents) - 1 :
        extents[i + 1].offset = extents[i].offset + Len(extents[i].bytes)
  /\ extents[Len(extents)].offset + Len(extents[Len(extents)].bytes) = n

\* The next block goes to the last extent.
Grown(y, x, V, block) ==
  /\ y \in Seq(Extents(V)) /\ Len(y) = Len(x)
  /\ \A i \in 1 .. Len(x) - 1 : y[i] = x[i]
  /\ y[Len(x)].offset = x[Len(x)].offset /\ y[Len(x)].kind = x[Len(x)].kind
  /\ y[Len(x)].bytes = Append(x[Len(x)].bytes, block)

\* The next block begins an extent.
Begun(y, x, V, block) ==
  /\ y \in Seq(Extents(V)) /\ Len(y) = Len(x) + 1
  /\ \A i \in 1 .. Len(x) : y[i] = x[i]
  /\ y[Len(x) + 1].offset
        = IF x = <<>> THEN 0 ELSE x[Len(x)].offset + Len(x[Len(x)].bytes)
  /\ y[Len(x) + 1].kind = IF block = ZeroBlock THEN "zero" ELSE "data"
  /\ y[Len(x) + 1].bytes = <<block>>

\* AddBlock extends the last extent if that is of the block's kind and has room,
\* and begins one otherwise.
LEMMA AddBlockIs ==
  ASSUME NEW V, NEW x \in Seq(Extents(V)), NEW block \in V
  PROVE  \/ /\ x # <<>> /\ x[Len(x)].kind = (IF block = ZeroBlock THEN "zero" ELSE "data")
            /\ Len(x[Len(x)].bytes) + 1 <= MaxExtent
            /\ Grown(AddBlock(x, block), x, V, block)
         \/ Begun(AddBlock(x, block), x, V, block)
<1> DEFINE n == Len(x)
           prior == x[n]
           kind == IF block = ZeroBlock THEN "zero" ELSE "data"
           y == AddBlock(x, block)
           E == Extents(V)
<1>1. n \in Nat /\ (x # <<>> => n \in 1 .. n /\ n - 1 \in Nat)
  BY LenProperties, EmptySeq
<1>2. x # <<>> => /\ prior \in E /\ prior.offset \in Nat /\ prior.bytes \in Seq(V)
                  /\ Len(prior.bytes) \in Nat
  <2> SUFFICES ASSUME x # <<>> PROVE /\ prior \in E /\ prior.offset \in Nat
                                     /\ prior.bytes \in Seq(V) /\ Len(prior.bytes) \in Nat
    OBVIOUS
  <2>1. prior \in E
    BY <1>1, ElementOfSeq
  <2>2. prior.offset \in Nat /\ prior.bytes \in Seq(V)
    BY <2>1 DEF Extents
  <2> HIDE DEF prior
  <2> QED
    BY <2>1, <2>2, LenProperties
<1>3. CASE x # <<>> /\ prior.kind = kind /\ Len(prior.bytes) + 1 <= MaxExtent
  <2> DEFINE grown == [prior EXCEPT !.bytes = Append(@, block)]
             front == SubSeq(x, 1, n - 1)
  <2>1. y = front \o <<grown>>
    BY <1>3 DEF AddBlock, Last, Front
  <2>2. Append(prior.bytes, block) \in Seq(V)
    BY <1>2, <1>3, AppendProperties
  <2>3. /\ grown \in E /\ grown.offset = prior.offset /\ grown.kind = prior.kind
        /\ grown.bytes = Append(prior.bytes, block)
    <3> HIDE DEF prior
    <3> QED
      BY <1>2, <1>3, <2>2 DEF Extents
  <2>4. front \in Seq(E) /\ Len(front) = n - 1 /\ \A i \in 1 .. n - 1 : front[i] = x[i]
    <3>1. 1 \in Int /\ n - 1 \in Int /\ (\A i \in 1 .. n - 1 : x[i] \in E)
      BY <1>1, ElementOfSeq
    <3> DEFINE m == n - 1
    <3>2. m \in Nat /\ m \in Int /\ \A i \in 1 .. m : x[i] \in E
      BY <1>1, <1>3, <3>1
    <3> HIDE DEF E, m, n
    <3>3. /\ SubSeq(x, 1, m) \in Seq(E) /\ Len(SubSeq(x, 1, m)) = IF 1 <= m THEN m - 1 + 1 ELSE 0
          /\ \A i \in 1 .. m - 1 + 1 : SubSeq(x, 1, m)[i] = x[1 + i - 1]
      BY <3>1, <3>2, SubSeqProperties
    <3>4. m - 1 + 1 = m /\ (IF 1 <= m THEN m - 1 + 1 ELSE 0) = m
          /\ \A i \in 1 .. m : 1 + i - 1 = i
      BY <3>2
    <3> QED
      BY <3>3, <3>4 DEF m
  <2> HIDE DEF prior, grown, front, E
  <2>5. <<grown>> \in Seq(E) /\ Len(<<grown>>) = 1 /\ <<grown>>[1] = grown
    BY <2>3
  <2>6. y \in Seq(E) /\ Joins(y, front, <<grown>>)
    BY <2>1, <2>4, <2>5, Joined
  <2> HIDE DEF y, n
  <2>7. Len(y) = n /\ (\A i \in 1 .. n - 1 : y[i] = x[i]) /\ y[n] = grown
    <3>1. Len(y) = n
      BY <1>1, <1>3, <2>4, <2>5, <2>6 DEF Joins
    <3>2. \A i \in 1 .. n - 1 : y[i] = x[i]
      BY <2>4, <2>6 DEF Joins
    <3>3. 1 \in 1 .. Len(<<grown>>) /\ n - 1 + 1 = n
      BY <1>1, <1>3
    <3>4. y[Len(front) + 1] = <<grown>>[1]
      BY <2>6, <3>3 DEF Joins
    <3>5. y[n] = grown
      BY <2>4, <2>5, <3>3, <3>4
    <3> QED
      BY <3>1, <3>2, <3>5
  <2>8. Grown(y, x, V, block)
    BY <2>3, <2>6, <2>7 DEF Grown, n, prior, E
  <2> QED
    BY <1>3, <2>8 DEF y, n, prior
<1>4. CASE ~(x # <<>> /\ prior.kind = kind /\ Len(prior.bytes) + 1 <= MaxExtent)
  <2> DEFINE new == [offset |-> IF x = <<>> THEN 0 ELSE prior.offset + Len(prior.bytes),
                     bytes |-> <<block>>, kind |-> kind]
  <2>1. y = Append(x, new)
    BY <1>4 DEF AddBlock, Last
  <2>2. new \in E
    <3>1. (IF x = <<>> THEN 0 ELSE prior.offset + Len(prior.bytes)) \in Nat
      <4> HIDE DEF prior
      <4> QED
        BY <1>2
    <3>2. <<block>> \in Seq(V) /\ kind \in {"zero", "data"}
      OBVIOUS
    <3> HIDE DEF prior, kind
    <3> QED
      BY <3>1, <3>2 DEF Extents
  <2>3. /\ new.offset = IF x = <<>> THEN 0 ELSE prior.offset + Len(prior.bytes)
        /\ new.kind = kind /\ new.bytes = <<block>>
    OBVIOUS
  <2> HIDE DEF new, E
  <2>4. y \in Seq(E) /\ Len(y) = n + 1 /\ (\A i \in 1 .. n : y[i] = x[i]) /\ y[n + 1] = new
    BY <2>1, <2>2, AppendProperties DEF E
  <2> HIDE DEF y
  <2>5. Begun(y, x, V, block)
    BY <2>3, <2>4 DEF Begun, E
  <2> QED
    BY <2>5 DEF y
<1> QED
  BY <1>3, <1>4

\* Extents that cover all blocks before this one cover this one afterwards.
LEMMA AddBlockCovers ==
  ASSUME NEW V, NEW n \in Nat, NEW blocks \in [1 .. n -> V], NEW b \in 1 .. n,
         NEW x \in Seq(Extents(V)), b = 1 => x = <<>>, b # 1 => Covering(x, blocks, b - 1)
  PROVE  Covering(AddBlock(x, blocks[b]), blocks, b)
<1> DEFINE block == blocks[b]
           kind == IF block = ZeroBlock THEN "zero" ELSE "data"
           y == AddBlock(x, block)
           m == Len(x)
<1>1. block \in V /\ MaxExtent \in Nat \ {0}
  BY Room
<1>2. m \in Nat /\ (x = <<>> <=> m = 0)
  BY LenProperties, EmptySeq
<1>3. b # 1 <=> x # <<>>
  BY EmptySeq DEF Covering
<1>4. \/ /\ x # <<>> /\ x[m].kind = kind /\ Len(x[m].bytes) + 1 <= MaxExtent
         /\ Grown(y, x, V, block)
      \/ Begun(y, x, V, block)
  BY <1>1, AddBlockIs
<1>5. \A i \in 1 .. m : x[i].offset \in Nat /\ x[i].bytes \in Seq(V) /\ Len(x[i].bytes) \in Nat
  <2> TAKE i \in 1 .. m
  <2>1. x[i] \in Extents(V)
    BY ElementOfSeq
  <2>2. x[i].offset \in Nat /\ x[i].bytes \in Seq(V)
    BY <2>1 DEF Extents
  <2> QED
    BY <2>2, LenProperties
<1> HIDE DEF y, m
<1>6. CASE x # <<>> /\ x[m].kind = kind /\ Len(x[m].bytes) + 1 <= MaxExtent
           /\ Grown(y, x, V, block)
  <2>1. Covering(x, blocks, b - 1) /\ m # 0 /\ m \in 1 .. m
    BY <1>2, <1>3, <1>6
  <2>2. /\ Len(y) = m /\ \A i \in 1 .. m - 1 : y[i] = x[i]
        /\ y[m].offset = x[m].offset /\ y[m].kind = x[m].kind
        /\ y[m].bytes = Append(x[m].bytes, block)
    BY <1>6 DEF Grown, m
  <2>3. x[m].offset + Len(x[m].bytes) = b - 1
    BY <2>1 DEF Covering, m
  <2> DEFINE bytes == x[m].bytes
             k == Len(bytes)
             off == x[m].offset
  <2>4. bytes \in Seq(V) /\ k \in Nat /\ off \in Nat /\ off + k = b - 1
    BY <1>5, <2>1, <2>3
  <2>5. /\ Len(y[m].bytes) = k + 1 /\ \A i \in 1 .. k : y[m].bytes[i] = bytes[i]
        /\ y[m].bytes[k + 1] = block
    <3> HIDE DEF bytes
    <3> QED
      BY <1>1, <2>2, <2>4, AppendProperties DEF bytes
  <2>6. Describes(x[m], blocks, b - 1)
    BY <2>1 DEF Covering, m
  <2> HIDE DEF bytes, k, off
  <2>7. Describes(y[m], blocks, b)
    <3>1. 0 < Len(y[m].bytes) /\ Len(y[m].bytes) <= MaxExtent
      BY <1>6, <2>4, <2>5 DEF k, bytes
    <3>2. y[m].offset = off /\ off + (k + 1) = b /\ y[m].offset + Len(y[m].bytes) <= b
      <4>1. y[m].offset = off
        BY <2>2 DEF off
      <4>2. off + (k + 1) = b
        BY ONLY <2>4, b \in 1 .. n, n \in Nat
      <4> QED
        BY <2>5, <4>1, <4>2
    <3>3. ASSUME NEW i \in 1 .. k + 1
          PROVE  /\ y[m].bytes[i] = blocks[y[m].offset + i]
                 /\ y[m].bytes[i] = ZeroBlock <=> y[m].kind = "zero"
      <4>1. CASE i = k + 1
        <5>1. y[m].bytes[i] = block /\ y[m].offset + i = b
          BY <2>5, <3>2, <4>1
        <5>2. y[m].kind = kind
          BY <1>6, <2>2
        <5> QED
          BY <5>1, <5>2
      <4>2. CASE i # k + 1
        <5>1. i \in 1 .. k
          BY <2>4, <4>2
        <5>2. x[m].bytes[i] = blocks[x[m].offset + i]
              /\ (x[m].bytes[i] = ZeroBlock <=> x[m].kind = "zero")
          BY <2>6, <5>1 DEF Describes, k, bytes
        <5> QED
          BY <2>2, <2>5, <5>1, <5>2 DEF bytes, off
      <4> QED
        BY <4>1, <4>2
    <3> QED
      BY <2>5, <3>1, <3>2, <3>3 DEF Describes
  <2>8. ASSUME NEW i \in 1 .. m PROVE Describes(y[i], blocks, b)
    <3>1. CASE i = m
      BY <2>7, <3>1
    <3>2. CASE i # m
      <4>1. y[i] = x[i] /\ Describes(x[i], blocks, b - 1)
        BY <1>2, <2>1, <2>2, <3>2 DEF Covering, m
      <4>2. x[i].offset + Len(x[i].bytes) <= b
        <5>1. x[i].offset + Len(x[i].bytes) <= b - 1
          BY <4>1 DEF Describes
        <5>2. x[i].offset \in Nat /\ Len(x[i].bytes) \in Nat
          BY <1>5
        <5> DEFINE u == x[i].offset
                   v == Len(x[i].bytes)
        <5>3. u + v <= b - 1 /\ u \in Nat /\ v \in Nat
          BY <5>1, <5>2
        <5> HIDE DEF u, v
        <5>4. u + v <= b
          BY ONLY <5>3, b \in 1 .. n, n \in Nat
        <5> QED
          BY <5>4 DEF u, v
      <4> QED
        BY <4>1, <4>2 DEF Describes
    <3> QED
      BY <3>1, <3>2
  <2>9. y[1].offset = 0
    <3>1. x[1].offset = 0
      BY <2>1 DEF Covering
    <3>2. CASE m = 1
      BY <2>2, <3>1, <3>2
    <3>3. CASE m # 1
      <4>1. 1 \in 1 .. m - 1
        BY <1>2, <2>1, <3>3
      <4> QED
        BY <2>2, <3>1, <4>1
    <3> QED
      BY <3>2, <3>3
  <2>10. ASSUME NEW i \in 1 .. m - 1 PROVE y[i + 1].offset = y[i].offset + Len(y[i].bytes)
    <3>1. y[i] = x[i] /\ x[i + 1].offset = x[i].offset + Len(x[i].bytes)
      BY <2>1, <2>2 DEF Covering, m
    <3>2. y[i + 1].offset = x[i + 1].offset
      <4>1. CASE i + 1 = m
        BY <2>2, <4>1
      <4>2. CASE i + 1 # m
        <5>1. i + 1 \in 1 .. m - 1
          BY <1>2, <4>2
        <5> QED
          BY <2>2, <5>1
      <4> QED
        BY <4>1, <4>2
    <3> QED
      BY <3>1, <3>2
  <2>11. y[m].offset + Len(y[m].bytes) = b
    <3>1. off + (k + 1) = b
      BY ONLY <2>4, b \in 1 .. n, n \in Nat
    <3>2. y[m].offset = off
      BY <2>2 DEF off
    <3> QED
      BY <2>5, <3>1, <3>2
  <2> QED
    BY <2>1, <2>2, <2>8, <2>9, <2>10, <2>11 DEF Covering, y
<1>7. CASE Begun(y, x, V, block)
  <2>1. /\ Len(y) = m + 1 /\ \A i \in 1 .. m : y[i] = x[i]
        /\ y[m + 1].offset = IF x = <<>> THEN 0 ELSE x[m].offset + Len(x[m].bytes)
        /\ y[m + 1].kind = kind /\ y[m + 1].bytes = <<block>>
    BY <1>7 DEF Begun, m
  <2>2. x # <<>> => Covering(x, blocks, b - 1) /\ m \in 1 .. m
    BY <1>2, <1>3
  <2>3. y[m + 1].offset = b - 1
    <3>1. CASE x = <<>>
      BY <1>3, <2>1, <3>1
    <3>2. CASE x # <<>>
      BY <2>1, <2>2, <3>2 DEF Covering, m
    <3> QED
      BY <3>1, <3>2
  <2>4. Len(y[m + 1].bytes) = 1 /\ y[m + 1].bytes[1] = block
    BY <2>1
  <2>5. Describes(y[m + 1], blocks, b)
    <3>1. b - 1 + 1 = b /\ 0 < 1 /\ 1 <= MaxExtent
      BY <1>1
    <3>2. \A k \in 1 .. 1 : y[m + 1].bytes[k] = blocks[b - 1 + k]
                            /\ (y[m + 1].bytes[k] = ZeroBlock <=> y[m + 1].kind = "zero")
      BY <2>1, <2>4, <3>1
    <3> QED
      BY <2>3, <2>4, <3>1, <3>2 DEF Describes
  <2>6. ASSUME NEW i \in 1 .. m PROVE Describes(x[i], blocks, b)
    <3>1. Describes(x[i], blocks, b - 1)
      <4>1. x # <<>>
        BY <1>2
      <4> QED
        BY <2>2, <4>1 DEF Covering, m
    <3>2. x[i].offset + Len(x[i].bytes) <= b
      <4>1. x[i].offset + Len(x[i].bytes) <= b - 1
        BY <3>1 DEF Describes
      <4>2. x[i].offset \in Nat /\ Len(x[i].bytes) \in Nat
        BY <1>5
      <4> QED
        BY ONLY <4>1, <4>2, b \in 1 .. n, n \in Nat
    <3> QED
      BY <3>1, <3>2 DEF Describes
  <2>7. ASSUME NEW i \in 1 .. m + 1 PROVE Describes(y[i], blocks, b)
    <3>1. CASE i = m + 1
      BY <2>5, <3>1
    <3>2. CASE i # m + 1
      <4>1. i \in 1 .. m
        BY <1>2, <3>2
      <4> QED
        BY <2>1, <2>6, <4>1
    <3> QED
      BY <3>1, <3>2
  <2>8. y[1].offset = 0
    <3>1. CASE x = <<>>
      <4>1. m + 1 = 1
        BY <1>2, <3>1
      <4> QED
        BY <2>1, <3>1, <4>1
    <3>2. CASE x # <<>>
      <4>1. 1 \in 1 .. m /\ x[1].offset = 0
        BY <2>2, <3>2 DEF Covering
      <4> QED
        BY <2>1, <4>1
    <3> QED
      BY <3>1, <3>2
  <2>9. ASSUME NEW i \in 1 .. m PROVE y[i + 1].offset = y[i].offset + Len(y[i].bytes)
    <3>1. x # <<>> /\ y[i] = x[i]
      BY <1>2, <2>1
    <3>2. CASE i = m
      BY <2>1, <3>1, <3>2
    <3>3. CASE i # m
      <4>1. i \in 1 .. m - 1 /\ i + 1 \in 1 .. m
        BY <1>2, <3>3
      <4>2. x[i + 1].offset = x[i].offset + Len(x[i].bytes)
        BY <2>2, <3>1, <4>1 DEF Covering, m
      <4> QED
        BY <2>1, <3>1, <4>1, <4>2
    <3> QED
      BY <3>2, <3>3
  <2>10. y[m + 1].offset + Len(y[m + 1].bytes) = b
    BY <2>3, <2>4
  <2>11. Len(y) - 1 = m /\ Len(y) # 0
    BY <1>2, <2>1
  <2> QED
    BY <2>1, <2>7, <2>8, <2>9, <2>10, <2>11 DEF Covering, y
<1> QED
  BY <1>4, <1>6, <1>7

\* The extents of the graph cover its blocks one behind the other.
LEMMA ExtentsAre ==
  ASSUME NEW l, NEW esp, NEW root, Blocks(l) \in Nat \ {0},
         NEW V, block_bytes_at(l, esp, root) \in [1 .. Blocks(l) -> V]
  PROVE  /\ for_each_extent(l, esp, root) \in Seq(Extents(V))
         /\ Covering(for_each_extent(l, esp, root), block_bytes_at(l, esp, root), Blocks(l))
<1> DEFINE blocks == block_bytes_at(l, esp, root)
           n == Blocks(l)
           S == Seq(Extents(V))
           step == [b \in 1 .. n |-> [x \in S |-> AddBlock(x, blocks[b])]]
           Solves(f) == f = [b \in 1 .. n |-> AddBlock(IF b = 1 THEN <<>> ELSE f[b - 1], blocks[b])]
<1>1. n \in Nat \ {0} /\ blocks \in [1 .. n -> V]
  OBVIOUS
<1>2. for_each_extent(l, esp, root) = (CHOOSE f : Solves(f))[n]
  BY DEF for_each_extent
<1>3. \A b \in 1 .. n : \A x \in S : AddBlock(x, blocks[b]) \in S
  <2> SUFFICES ASSUME NEW b \in 1 .. n, NEW x \in S PROVE AddBlock(x, blocks[b]) \in S
    OBVIOUS
  <2>1. blocks[b] \in V
    BY <1>1
  <2> HIDE DEF blocks, n
  <2>2. Grown(AddBlock(x, blocks[b]), x, V, blocks[b]) \/ Begun(AddBlock(x, blocks[b]), x, V, blocks[b])
    BY <2>1, AddBlockIs
  <2> QED
    BY <2>2 DEF Grown, Begun
<1>4. step \in [1 .. n -> [S -> S]]
  BY <1>3
<1>5. <<>> \in S
  BY EmptySeq
<1>6. PICK g : Steps(g, n, S, <<>>, step)
  <2> HIDE DEF n, S, step
  <2> QED
    BY <1>1, <1>4, <1>5, Recursion
<1> HIDE DEF blocks, n, S
<1>7. \A b \in 1 .. n : g[b] = AddBlock(IF b = 1 THEN <<>> ELSE g[b - 1], blocks[b])
  <2> TAKE b \in 1 .. n
  <2>1. g \in [1 .. n -> S] /\ g[b] = step[b][IF b = 1 THEN <<>> ELSE g[b - 1]]
    BY <1>6 DEF Steps
  <2>2. (IF b = 1 THEN <<>> ELSE g[b - 1]) \in S
    <3> HIDE DEF step
    <3>1. CASE b = 1
      BY <1>5, <3>1
    <3>2. CASE b # 1
      <4>1. b - 1 \in 1 .. n
        BY <1>1, <3>2
      <4> QED
        BY <2>1, <3>2, <4>1
    <3> QED
      BY <3>1, <3>2
  <2> QED
    BY <2>1, <2>2
<1>8. Solves(g)
  <2>1. g \in [1 .. n -> S]
    BY <1>6 DEF Steps
  <2> QED
    BY <1>7, <2>1
<1>9. PICK f : Solves(f) /\ for_each_extent(l, esp, root) = f[n]
  BY <1>2, <1>8
<1> DEFINE Built(b) == f[b] \in S /\ Covering(f[b], blocks, b)
           Done == {b \in Nat : b \in 1 .. n => Built(b)}
<1>10. 0 \in Done
  OBVIOUS
<1>11. ASSUME NEW b \in Nat, b \in Done PROVE b + 1 \in Done
  <2>1. SUFFICES ASSUME b + 1 \in 1 .. n PROVE Built(b + 1)
    OBVIOUS
  <2> DEFINE x == IF b + 1 = 1 THEN <<>> ELSE f[b]
  <2>2. f[b + 1] = AddBlock(x, blocks[b + 1])
    <3>1. (b + 1) - 1 = b
      OBVIOUS
    <3> HIDE DEF x, Done
    <3>2. f[b + 1] = AddBlock(IF b + 1 = 1 THEN <<>> ELSE f[(b + 1) - 1], blocks[b + 1])
      BY <1>9, <2>1
    <3> QED
      BY <3>1, <3>2 DEF x
  <2>3. b + 1 # 1 => b \in 1 .. n /\ Built(b)
    BY <1>1, <1>11, <2>1
  <2> HIDE DEF Done, Solves, step
  <2>4. x \in S /\ (b + 1 = 1 => x = <<>>) /\ (b + 1 # 1 => Covering(x, blocks, (b + 1) - 1))
    BY <1>5, <2>3
  <2>5. x \in Seq(Extents(V)) /\ b + 1 \in 1 .. n /\ n \in Nat
    BY <1>1, <2>1, <2>4 DEF S
  <2> HIDE DEF x
  <2>6. Covering(AddBlock(x, blocks[b + 1]), blocks, b + 1)
    BY <1>1, <2>4, <2>5, AddBlockCovers
  <2>7. AddBlock(x, blocks[b + 1]) \in S
    BY <1>3, <2>1, <2>4
  <2> QED
    BY <2>2, <2>6, <2>7
<1>12. n \in Done
  <2>1. \A b \in Nat : b \in Done
    <3> HIDE DEF Done
    <3> QED
      BY <1>10, <1>11, Induction
  <2> HIDE DEF Done
  <2> QED
    BY <1>1, <2>1
<1>13. Built(n)
  <2>1. n \in Nat /\ n \in 1 .. n
    BY <1>1
  <2> QED
    BY <1>12, <2>1
<1> QED
  BY <1>9, <1>13 DEF S, blocks, n

==============================================================================
