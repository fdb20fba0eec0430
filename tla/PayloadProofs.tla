---------------------------- MODULE PayloadProofs ----------------------------
(***************************************************************************)
(* The safety of the payload container, for every size, every file and     *)
(* every medium: what is described is the image, what is accepted covers   *)
(* the target, what is reported written is what was packed.                *)
(***************************************************************************)
EXTENDS Payload, DiskImagesProofs

-----------------------------------------------------------------------------
(* Sums and offsets.                                                       *)

\* The sums of a sequence of sizes, before each of them and at the end.
Sums(sums, sizes, n) ==
  /\ sums \in [1 .. n + 1 -> Nat]
  /\ sums[1] = 0
  /\ \A i \in 1 .. n : sums[i + 1] = sums[i] + sizes[i]

\* Sizes have sums.
LEMMA SumsExist ==
  ASSUME NEW n \in Nat, NEW sizes \in [1 .. n -> Nat]
  PROVE  \E sums : Sums(sums, sizes, n)
<1> DEFINE step == [i \in 1 .. n |-> [v \in Nat |-> v + sizes[i]]]
<1>1. step \in [1 .. n -> [Nat -> Nat]] /\ 0 \in Nat
  OBVIOUS
<1>2. PICK f : Steps(f, n, Nat, 0, step)
  <2> HIDE DEF step
  <2> QED
    BY <1>1, Recursion
<1>3. f \in [1 .. n -> Nat]
  BY <1>2 DEF Steps
<1>4. \A i \in 1 .. n : f[i] = (IF i = 1 THEN 0 ELSE f[i - 1]) + sizes[i]
  <2> TAKE i \in 1 .. n
  <2>1. f[i] = step[i][IF i = 1 THEN 0 ELSE f[i - 1]]
    BY <1>2 DEF Steps
  <2>2. (IF i = 1 THEN 0 ELSE f[i - 1]) \in Nat
    BY <1>3
  <2> QED
    BY <2>1, <2>2
<1> DEFINE sums == [i \in 1 .. n + 1 |-> IF i = 1 THEN 0 ELSE f[i - 1]]
<1>5. sums \in [1 .. n + 1 -> Nat]
  <2>1. ASSUME NEW i \in 1 .. n + 1 PROVE (IF i = 1 THEN 0 ELSE f[i - 1]) \in Nat
    <3>1. i # 1 => i - 1 \in 1 .. n
      OBVIOUS
    <3> QED
      BY <1>3, <3>1
  <2> QED
    BY <2>1
<1>6. sums[1] = 0
  OBVIOUS
<1>7. ASSUME NEW i \in 1 .. n PROVE sums[i + 1] = sums[i] + sizes[i]
  <2>1. i + 1 \in 1 .. n + 1 /\ i + 1 # 1 /\ (i + 1) - 1 = i /\ i \in 1 .. n + 1
    OBVIOUS
  <2>2. sums[i + 1] = f[i]
    BY <2>1
  <2>3. sums[i] = IF i = 1 THEN 0 ELSE f[i - 1]
    BY <2>1
  <2> QED
    BY <1>4, <2>2, <2>3
<1> HIDE DEF sums
<1> QED
  BY <1>5, <1>6, <1>7 DEF Sums

\* Total is the last of the sums.
LEMMA TotalIs ==
  ASSUME NEW n \in Nat, NEW sizes \in [1 .. n -> Nat], NEW sums, Sums(sums, sizes, n)
  PROVE  Total(sizes) = sums[n + 1]
<1> DEFINE Solves(f) ==
      f = [i \in DOMAIN sizes |-> (IF i = 1 THEN 0 ELSE f[i - 1]) + sizes[i]]
<1>1. sums[1] = 0 /\ \A i \in 1 .. n : sums[i + 1] = sums[i] + sizes[i]
  BY DEF Sums
<1>2. Len(sizes) = n /\ (sizes = <<>> <=> n = 0)
  <2>1. sizes \in Seq(Nat) /\ Len(sizes) = n
    OBVIOUS
  <2> QED
    BY <2>1, EmptySeq
<1>3. Total(sizes) = IF sizes = <<>> THEN 0 ELSE (CHOOSE f : Solves(f))[Len(sizes)]
  BY DEF Total
<1>4. CASE n = 0
  <2>1. n + 1 = 1
    BY <1>4
  <2> QED
    BY <1>1, <1>2, <1>3, <1>4, <2>1
<1>5. CASE n # 0
  <2> DEFINE g == [i \in 1 .. n |-> sums[i + 1]]
  <2>1. ASSUME NEW i \in 1 .. n PROVE g[i] = (IF i = 1 THEN 0 ELSE g[i - 1]) + sizes[i]
    <3>1. g[i] = sums[i] + sizes[i]
      BY <1>1
    <3>2. i # 1 => i - 1 \in 1 .. n /\ (i - 1) + 1 = i
      OBVIOUS
    <3>3. i # 1 => g[i - 1] = sums[i]
      BY <3>2
    <3> QED
      BY <1>1, <3>1, <3>3
  <2>2. Solves(g)
    <3>1. DOMAIN sizes = 1 .. n /\ g = [i \in 1 .. n |-> g[i]]
      OBVIOUS
    <3> HIDE DEF g
    <3> QED
      BY <2>1, <3>1
  <2>3. PICK f : Solves(f) /\ Total(sizes) = f[n]
    BY <1>2, <1>3, <1>5, <2>2
  <2>4. \A i \in 1 .. n : f[i] = (IF i = 1 THEN 0 ELSE f[i - 1]) + sizes[i]
    BY <2>3
  <2> HIDE DEF Solves, g
  <2> DEFINE Same == {i \in Nat : i \in 1 .. n => f[i] = sums[i + 1]}
  <2>5. 0 \in Same
    OBVIOUS
  <2>6. ASSUME NEW i \in Nat, i \in Same PROVE i + 1 \in Same
    <3>1. SUFFICES ASSUME i + 1 \in 1 .. n PROVE f[i + 1] = sums[(i + 1) + 1]
      OBVIOUS
    <3>2. f[i + 1] = (IF i + 1 = 1 THEN 0 ELSE f[(i + 1) - 1]) + sizes[i + 1]
      BY <2>4, <3>1
    <3>3. sums[(i + 1) + 1] = sums[i + 1] + sizes[i + 1]
      BY <1>1, <3>1
    <3>4. CASE i = 0
      <4>1. i + 1 = 1
        BY <3>4
      <4> QED
        BY <1>1, <3>2, <3>3, <4>1
    <3>5. CASE i # 0
      <4>1. i + 1 # 1 /\ (i + 1) - 1 = i /\ i \in 1 .. n
        BY <3>1, <3>5
      <4>2. f[i] = sums[i + 1]
        BY <2>6, <4>1
      <4> QED
        BY <3>2, <3>3, <4>1, <4>2
    <3> QED
      BY <3>4, <3>5
  <2>7. n \in Same /\ n \in 1 .. n
    <3>1. \A i \in Nat : i \in Same
      <4> HIDE DEF Same
      <4> QED
        BY <2>5, <2>6, Induction
    <3> QED
      BY <1>5, <3>1
  <2> QED
    BY <2>3, <2>7
<1> QED
  BY <1>4, <1>5

\* Numbers that do not fall from one position to the next do not fall at all.
LEMMA Rising ==
  ASSUME NEW n \in Nat, NEW f \in [1 .. n -> Int], \A i \in 1 .. n - 1 : f[i] <= f[i + 1]
  PROVE  \A i, j \in 1 .. n : i <= j => f[i] <= f[j]
<1> SUFFICES ASSUME NEW i \in 1 .. n PROVE \A j \in 1 .. n : i <= j => f[i] <= f[j]
  OBVIOUS
<1> DEFINE Above == {j \in Nat : j \in 1 .. n /\ i <= j => f[i] <= f[j]}
<1>1. 0 \in Above
  OBVIOUS
<1>2. ASSUME NEW j \in Nat, j \in Above PROVE j + 1 \in Above
  <2>1. SUFFICES ASSUME j + 1 \in 1 .. n, i <= j + 1 PROVE f[i] <= f[j + 1]
    OBVIOUS
  <2>2. CASE i = j + 1
    BY <2>2
  <2>3. CASE i # j + 1
    <3>1. j \in 1 .. n /\ i <= j /\ j \in 1 .. n - 1
      BY <2>1, <2>3
    <3>2. f[i] <= f[j] /\ f[j] <= f[j + 1]
      BY <1>2, <3>1
    <3>3. f[i] \in Int /\ f[j] \in Int /\ f[j + 1] \in Int
      BY <2>1, <3>1
    <3> HIDE DEF Above
    <3> QED
      BY ONLY <3>2, <3>3
  <2> QED
    BY <2>2, <2>3
<1>3. \A j \in Nat : j \in Above
  <2> HIDE DEF Above
  <2> QED
    BY <1>1, <1>2, Induction
<1> QED
  BY <1>3

\* Between rising offsets that begin at zero there is a place for every number.
LEMMA Between ==
  ASSUME NEW n \in Nat, NEW off \in [1 .. n + 1 -> Nat], off[1] = 0
  PROVE  \A b \in Nat : b < off[n + 1] => \E i \in 1 .. n : off[i] <= b /\ b < off[i + 1]
<1> SUFFICES ASSUME NEW b \in Nat
             PROVE  b < off[n + 1] => \E i \in 1 .. n : off[i] <= b /\ b < off[i + 1]
  OBVIOUS
<1> DEFINE Found == {k \in Nat : k \in 1 .. n + 1 /\ b < off[k] =>
                        \E i \in 1 .. n : off[i] <= b /\ b < off[i + 1]}
<1>1. 0 \in Found
  OBVIOUS
<1>2. ASSUME NEW k \in Nat, k \in Found PROVE k + 1 \in Found
  <2>1. SUFFICES ASSUME k + 1 \in 1 .. n + 1, b < off[k + 1]
                 PROVE  \E i \in 1 .. n : off[i] <= b /\ b < off[i + 1]
    OBVIOUS
  <2>2. k # 0
    BY <2>1
  <2>3. k \in 1 .. n /\ k \in 1 .. n + 1 /\ off[k] \in Nat
    BY <2>1, <2>2
  <2>4. CASE b < off[k]
    BY <1>2, <2>3, <2>4
  <2>5. CASE off[k] <= b
    BY <2>1, <2>3, <2>5
  <2> QED
    BY <2>3, <2>4, <2>5
<1>3. \A k \in Nat : k \in Found
  <2> HIDE DEF Found
  <2> QED
    BY <1>1, <1>2, Induction
<1>4. n + 1 \in Nat /\ n + 1 \in 1 .. n + 1
  OBVIOUS
<1> QED
  BY <1>3, <1>4

-----------------------------------------------------------------------------
(* A table that is accepted.                                               *)

\* Every extent begins where the one before ends, and the last ends the image.
Tiled(table, blocks) ==
  /\ table \in Seq(ToSet(table)) /\ blocks \in Nat
  /\ \A i \in 1 .. Len(table) :
        /\ table[i].len \in Nat \ {0} /\ table[i].offset \in Nat
        /\ table[i].offset = IF i = 1 THEN 0 ELSE table[i - 1].offset + table[i - 1].len
  /\ blocks = IF table = <<>> THEN 0
              ELSE table[Len(table)].offset + table[Len(table)].len

\* Blobs do not overlap and end before the blob area does.
Apart(table) ==
  /\ BlobEnd(table) \in Nat
  /\ \A i \in 1 .. Len(table) :
        Nonzero(table[i]) =>
          /\ {table[i].encoded_len, table[i].blob_offset} \subseteq Nat
          /\ table[i].blob_offset + table[i].encoded_len <= BlobEnd(table)
          /\ \A j \in 1 .. Len(table) :
                i < j /\ Nonzero(table[j])
                   => table[i].blob_offset + table[i].encoded_len <= table[j].blob_offset

\* Entries of the three kinds; what is raw is as long as it is.
Kinds(table) ==
  \A i \in 1 .. Len(table) :
    /\ table[i].kind \in {"zero", "raw", "zstd"}
    /\ table[i].kind = "raw" => table[i].encoded_len = table[i].len

\* Where the extents of such a table begin, and where the last one ends.
Offsets(off, table, blocks) ==
  /\ off \in [1 .. Len(table) + 1 -> Nat]
  /\ off[1] = 0 /\ off[Len(table) + 1] = blocks
  /\ \A i \in 1 .. Len(table) :
        /\ table[i].offset = off[i] /\ off[i + 1] = off[i] + table[i].len
        /\ table[i].len \in Nat \ {0}

\* A sequence, its length and its members.
LEMMA SeqOfItself ==
  ASSUME NEW s, s \in Seq(ToSet(s))
  PROVE  /\ Len(s) \in Nat /\ DOMAIN s = 1 .. Len(s) /\ (s = <<>> <=> Len(s) = 0)
         /\ \A i \in 1 .. Len(s) : s[i] \in ToSet(s)
         /\ \A e \in ToSet(s) : \E i \in 1 .. Len(s) : e = s[i]
<1> DEFINE S == ToSet(s)
<1>1. \A e \in S : \E i \in DOMAIN s : e = s[i]
  BY DEF ToSet
<1> HIDE DEF S
<1>2. s \in Seq(S)
  BY DEF S
<1>3. Len(s) \in Nat /\ DOMAIN s = 1 .. Len(s) /\ \A i \in 1 .. Len(s) : s[i] \in S
  BY <1>2, LenProperties, ElementOfSeq
<1>4. s = <<>> <=> Len(s) = 0
  BY <1>2, EmptySeq
<1> QED
  BY <1>1, <1>3, <1>4 DEF S

\* A table without gaps has offsets.
LEMMA TiledOffsets ==
  ASSUME NEW table, NEW blocks, Tiled(table, blocks)
  PROVE  \E off : Offsets(off, table, blocks)
<1> DEFINE n == Len(table)
           off == [i \in 1 .. n + 1 |-> IF i = n + 1 THEN blocks ELSE table[i].offset]
<1>1. n \in Nat /\ blocks \in Nat /\ (table = <<>> <=> n = 0)
  BY SeqOfItself DEF Tiled
<1>2. \A i \in 1 .. n :
        /\ table[i].len \in Nat \ {0} /\ table[i].offset \in Nat
        /\ table[i].offset = IF i = 1 THEN 0 ELSE table[i - 1].offset + table[i - 1].len
  BY DEF Tiled
<1>3. blocks = IF n = 0 THEN 0 ELSE table[n].offset + table[n].len
  BY <1>1 DEF Tiled
<1> HIDE DEF n
<1>4. off \in [1 .. n + 1 -> Nat]
  <2>1. ASSUME NEW i \in 1 .. n + 1
        PROVE (IF i = n + 1 THEN blocks ELSE table[i].offset) \in Nat
    <3>1. i # n + 1 => i \in 1 .. n
      BY <1>1
    <3> QED
      BY <1>1, <1>2, <3>1
  <2> QED
    BY <2>1
<1>5. off[n + 1] = blocks /\ \A i \in 1 .. n : off[i] = table[i].offset
  <2>1. n + 1 \in 1 .. n + 1 /\ \A i \in 1 .. n : i \in 1 .. n + 1 /\ i # n + 1
    BY <1>1
  <2> QED
    BY <2>1
<1> HIDE DEF off
<1>6. off[1] = 0
  <2>1. CASE n = 0
    <3>1. n + 1 = 1
      BY <2>1
    <3> QED
      BY <1>3, <1>5, <2>1, <3>1
  <2>2. CASE n # 0
    <3>1. 1 \in 1 .. n
      BY <1>1, <2>2
    <3> QED
      BY <1>2, <1>5, <3>1
  <2> QED
    BY <2>1, <2>2
<1>7. ASSUME NEW i \in 1 .. n PROVE off[i + 1] = off[i] + table[i].len
  <2>1. CASE i = n
    <3>1. n # 0 /\ i + 1 = n + 1
      BY <1>1, <2>1
    <3> QED
      BY <1>3, <1>5, <2>1, <3>1
  <2>2. CASE i # n
    <3>1. i + 1 \in 1 .. n /\ i + 1 # 1 /\ (i + 1) - 1 = i
      BY <1>1, <2>2
    <3>2. table[i + 1].offset = table[i].offset + table[i].len
      BY <1>2, <3>1
    <3> QED
      BY <1>5, <3>1, <3>2
  <2> QED
    BY <2>1, <2>2
<1>8. Offsets(off, table, blocks)
  BY <1>2, <1>4, <1>5, <1>6, <1>7 DEF Offsets, n
<1> QED
  BY <1>8

\* The blobs of the entries before an entry end at the sum of their lengths.
EncodedLens(table) ==
  [i \in DOMAIN table |-> IF Nonzero(table[i]) THEN table[i].encoded_len ELSE 0]

\* The blobs before an entry end where its own begins.
LEMMA BlobEndBefore ==
  ASSUME NEW S, NEW table \in Seq(S), NEW sums, Sums(sums, EncodedLens(table), Len(table)),
         EncodedLens(table) \in [1 .. Len(table) -> Nat], NEW i \in 1 .. Len(table)
  PROVE  BlobEnd(Before(table, i)) = sums[i]
<1> DEFINE b == SubSeq(table, 1, i - 1)
           enc == EncodedLens(table)
           part == EncodedLens(b)
           m == i - 1
           upto == [k \in 1 .. m + 1 |-> sums[k]]
           n == Len(table)
<1>1. n \in Nat /\ m \in Nat /\ m + 1 = i /\ m + 1 <= n /\ DOMAIN table = 1 .. n
  BY LenProperties
<1>2. b \in Seq(S) /\ Len(b) = m /\ DOMAIN b = 1 .. m /\ \A k \in 1 .. m : b[k] = table[k]
  <2>1. 1 \in Int /\ m \in Int /\ \A k \in 1 .. m : table[k] \in S
    BY <1>1, ElementOfSeq
  <2> HIDE DEF m
  <2>2. /\ SubSeq(table, 1, m) \in Seq(S) /\ Len(SubSeq(table, 1, m)) = IF 1 <= m THEN m - 1 + 1 ELSE 0
        /\ \A k \in 1 .. m - 1 + 1 : SubSeq(table, 1, m)[k] = table[1 + k - 1]
    BY <2>1, SubSeqProperties
  <2>3. m - 1 + 1 = m /\ (IF 1 <= m THEN m - 1 + 1 ELSE 0) = m
        /\ \A k \in 1 .. m : 1 + k - 1 = k
    BY <1>1
  <2>4. b = SubSeq(table, 1, m)
    BY DEF m
  <2> HIDE DEF b
  <2>5. b \in Seq(S) /\ Len(b) = m /\ \A k \in 1 .. m : b[k] = table[k]
    BY <2>2, <2>3, <2>4
  <2> QED
    BY <2>5, LenProperties
<1>3. \A k \in 1 .. n : sums[k] \in Nat /\ sums[k + 1] = sums[k] + enc[k] /\ enc[k] \in Nat
  <2>1. /\ sums \in [1 .. n + 1 -> Nat] /\ enc \in [1 .. n -> Nat]
        /\ \A k \in 1 .. n : sums[k + 1] = sums[k] + enc[k]
    BY DEF Sums
  <2> HIDE DEF n, enc
  <2>2. \A k \in 1 .. n : k \in 1 .. n + 1
    BY <1>1
  <2> QED
    BY <2>1, <2>2
<1>4. sums[1] = 0
  BY DEF Sums
<1>5. \A k \in 1 .. n : enc[k] = IF Nonzero(table[k]) THEN table[k].encoded_len ELSE 0
  BY <1>1 DEF EncodedLens
<1> HIDE DEF b, m, n, enc
<1>6. part = [k \in 1 .. m |-> IF Nonzero(b[k]) THEN b[k].encoded_len ELSE 0]
  BY <1>2 DEF EncodedLens
<1>7. \A k \in 1 .. m : part[k] = enc[k] /\ part[k] \in Nat
  <2> TAKE k \in 1 .. m
  <2>1. k \in 1 .. n
    BY <1>1
  <2>2. part[k] = IF Nonzero(b[k]) THEN b[k].encoded_len ELSE 0
    BY <1>6
  <2> HIDE DEF part
  <2> QED
    BY <1>2, <1>3, <1>5, <2>1, <2>2
<1>8. part \in [1 .. m -> Nat]
  <2> HIDE DEF part
  <2> QED
    BY <1>6, <1>7
<1> HIDE DEF part
<1>9. Sums(upto, part, m)
  <2>1. upto \in [1 .. m + 1 -> Nat]
    <3>1. \A k \in 1 .. m + 1 : k \in 1 .. n
      BY <1>1
    <3> QED
      BY <1>3, <3>1
  <2>2. upto[1] = 0
    <3>1. 1 \in 1 .. m + 1
      BY <1>1
    <3> QED
      BY <1>4, <3>1
  <2>3. ASSUME NEW k \in 1 .. m PROVE upto[k + 1] = upto[k] + part[k]
    <3>1. k \in 1 .. m + 1 /\ k + 1 \in 1 .. m + 1 /\ k \in 1 .. n
      BY <1>1
    <3>2. upto[k] = sums[k] /\ upto[k + 1] = sums[k + 1]
      BY <3>1
    <3> QED
      BY <1>3, <1>7, <3>1, <3>2
  <2> HIDE DEF upto
  <2> QED
    BY <2>1, <2>2, <2>3 DEF Sums
<1>10. Total(part) = upto[m + 1]
  <2> HIDE DEF upto
  <2> QED
    BY <1>1, <1>8, <1>9, TotalIs
<1>11. upto[m + 1] = sums[i]
  <2>1. m + 1 \in 1 .. m + 1
    BY <1>1
  <2> QED
    BY <1>1, <2>1
<1>12. BlobEnd(Before(table, i)) = Total(part)
  BY DEF BlobEnd, Before, EncodedLens, part, b
<1> QED
  BY <1>10, <1>11, <1>12

\* What is accepted tiles the image, with blobs apart.
LEMMA AcceptedTables ==
  ASSUME NEW table, NEW p, table \in Seq(ToSet(table)),
         \A i \in 1 .. Len(table) :
            {table[i].offset, table[i].len, table[i].encoded_len} \subseteq Nat,
         p.target \in Nat,
         p.omitted = saturating_sub(p.target, p.planned), p.omitted = 0,
         validate_entries_metadata(table, p)
  PROVE  Tiled(table, p.target) /\ Apart(table) /\ Kinds(table)
<1> DEFINE n == Len(table)
           lens == [i \in DOMAIN table |-> table[i].len]
           enc == EncodedLens(table)
<1>1. n \in Nat /\ DOMAIN table = 1 .. n /\ (table = <<>> <=> n = 0)
  BY SeqOfItself
<1>2. \A i \in 1 .. n : table[i].offset \in Nat /\ table[i].len \in Nat /\ table[i].encoded_len \in Nat
  OBVIOUS
<1>3. ASSUME NEW i \in 1 .. n
      PROVE  /\ EntryIsSound(table[i], p) /\ Ascends(table, i)
             /\ Nonzero(table[i]) => table[i].blob_offset = BlobEnd(Before(table, i))
  BY <1>1 DEF validate_entries_metadata
<1>4. Planned(table) = p.planned
  BY DEF validate_entries_metadata
<1>5. lens \in [1 .. n -> Nat] /\ \A i \in 1 .. n : lens[i] = table[i].len
  BY <1>1, <1>2
<1>6. enc \in [1 .. n -> Nat]
      /\ \A i \in 1 .. n : enc[i] = IF Nonzero(table[i]) THEN table[i].encoded_len ELSE 0
  BY <1>1, <1>2 DEF EncodedLens
<1>7. Planned(table) = Total(lens) /\ BlobEnd(table) = Total(enc)
  BY DEF Planned, BlobEnd, EncodedLens
<1> HIDE DEF n, lens, enc
<1>8. PICK sums : Sums(sums, lens, n)
  BY <1>1, <1>5, SumsExist
<1>9. PICK ends : Sums(ends, enc, n)
  BY <1>1, <1>6, SumsExist
<1>10. Total(lens) = sums[n + 1] /\ Total(enc) = ends[n + 1]
  BY <1>1, <1>5, <1>6, <1>8, <1>9, TotalIs
<1>11. /\ sums[1] = 0 /\ sums[n + 1] \in Nat
       /\ \A i \in 1 .. n : sums[i] \in Nat /\ sums[i + 1] = sums[i] + table[i].len
  BY <1>1, <1>5, <1>8 DEF Sums
<1>12. p.target <= sums[n + 1]
  <2>1. saturating_sub(p.target, p.planned) = 0 /\ p.planned = sums[n + 1]
    BY <1>4, <1>7, <1>10
  <2>2. ~(p.target > p.planned)
    BY <1>11, <2>1 DEF saturating_sub
  <2> QED
    BY <1>11, <2>1, <2>2
<1>13. \A i \in 1 .. n : 0 < table[i].len /\ table[i].offset + table[i].len <= p.target
  BY <1>3 DEF EntryIsSound
<1>14. \A i \in 1 .. n : i # 1 => table[i - 1].offset + table[i - 1].len <= table[i].offset
  BY <1>3 DEF Ascends
\* no gap before any of them
<1>15. \A i \in 1 .. n : table[i].offset = sums[i]
  <2>1. SUFFICES ASSUME NEW i \in 1 .. n PROVE table[i].offset = sums[i]
    OBVIOUS
  <2> DEFINE gap == [k \in 1 .. n |-> table[k].offset - sums[k]]
  <2>2. gap \in [1 .. n -> Int]
    <3>1. ASSUME NEW k \in 1 .. n PROVE table[k].offset - sums[k] \in Int
      <4>1. table[k].offset \in Nat /\ sums[k] \in Nat
        BY <1>2, <1>11
      <4> QED
        BY ONLY <4>1
    <3> QED
      BY ONLY <3>1
  <2>3. \A k \in 1 .. n : gap[k] = table[k].offset - sums[k]
    OBVIOUS
  <2> HIDE DEF gap
  <2>4. \A k \in 1 .. n - 1 : gap[k] <= gap[k + 1]
    <3> TAKE k \in 1 .. n - 1
    <3>1. k \in 1 .. n /\ k + 1 \in 1 .. n /\ k + 1 # 1 /\ (k + 1) - 1 = k
      BY <1>1
    <3>2. table[k].offset + table[k].len <= table[k + 1].offset
      BY <1>14, <3>1
    <3>3. sums[k + 1] = sums[k] + table[k].len
      BY <1>11, <3>1
    <3>4. gap[k] = table[k].offset - sums[k] /\ gap[k + 1] = table[k + 1].offset - sums[k + 1]
      BY <2>3, <3>1
    <3>5. table[k].offset \in Nat /\ table[k].len \in Nat /\ sums[k] \in Nat /\ sums[k + 1] \in Nat
          /\ table[k + 1].offset \in Nat
      BY <1>2, <1>11, <3>1
    <3> QED
      BY ONLY <3>2, <3>3, <3>4, <3>5
  <2>5. 1 \in 1 .. n /\ n \in 1 .. n /\ 1 <= i /\ i <= n
    BY <1>1
  <2>6. gap[1] <= gap[i] /\ gap[i] <= gap[n]
    BY <1>1, <2>2, <2>4, <2>5, Rising
  <2>7. gap[1] >= 0
    <3>1. gap[1] = table[1].offset - sums[1] /\ table[1].offset \in Nat /\ sums[1] = 0
      BY <1>2, <1>11, <2>3, <2>5
    <3> QED
      BY ONLY <3>1
  <2>8. gap[n] <= 0
    <3>1. gap[n] = table[n].offset - sums[n] /\ sums[n + 1] = sums[n] + table[n].len
          /\ table[n].offset + table[n].len <= p.target
      BY <1>11, <1>13, <2>3, <2>5
    <3>2. table[n].offset \in Nat /\ table[n].len \in Nat /\ sums[n] \in Nat /\ sums[n + 1] \in Nat
      BY <1>2, <1>11, <2>5
    <3> QED
      BY ONLY <1>12, <3>1, <3>2, p.target \in Nat
  <2>9. gap[i] = table[i].offset - sums[i] /\ gap[1] \in Int /\ gap[n] \in Int
        /\ table[i].offset \in Nat /\ sums[i] \in Nat
    BY <1>2, <1>11, <2>2, <2>3, <2>5
  <2> QED
    BY ONLY <2>6, <2>7, <2>8, <2>9
<1>16. Tiled(table, p.target)
  <2>1. ASSUME NEW i \in 1 .. n
        PROVE  /\ table[i].len \in Nat \ {0} /\ table[i].offset \in Nat
               /\ table[i].offset = IF i = 1 THEN 0 ELSE table[i - 1].offset + table[i - 1].len
    <3>1. table[i].len \in Nat \ {0} /\ table[i].offset \in Nat
      BY <1>2, <1>13
    <3>2. CASE i = 1
      BY <1>11, <1>15, <3>1, <3>2
    <3>3. CASE i # 1
      <4>1. i - 1 \in 1 .. n /\ (i - 1) + 1 = i
        BY ONLY <1>1, <3>3, i \in 1 .. n
      <4>2. sums[i] = sums[i - 1] + table[i - 1].len
        BY <1>11, <4>1
      <4> QED
        BY <1>15, <3>1, <3>3, <4>1, <4>2
    <3> QED
      BY <3>2, <3>3
  <2>2. p.target = IF table = <<>> THEN 0 ELSE table[n].offset + table[n].len
    <3>1. CASE n = 0
      <4>1. n + 1 = 1
        BY <3>1
      <4>2. p.target <= 0
        BY <1>11, <1>12, <4>1
      <4> QED
        BY <1>1, <3>1, <4>2
    <3>2. CASE n # 0
      <4>1. n \in 1 .. n
        BY <1>1, <3>2
      <4>2. table[n].offset + table[n].len = sums[n + 1]
            /\ table[n].offset + table[n].len <= p.target
        BY <1>11, <1>13, <1>15, <4>1
      <4>3. sums[n + 1] = p.target
        BY ONLY <1>11, <1>12, <4>2, p.target \in Nat
      <4> QED
        BY <1>1, <3>2, <4>2, <4>3
    <3> QED
      BY <3>1, <3>2
  <2> QED
    BY <2>1, <2>2 DEF Tiled, n
<1>17. Apart(table)
  <2>0. BlobEnd(table) \in Nat
    <3>1. n + 1 \in 1 .. n + 1 /\ ends \in [1 .. n + 1 -> Nat]
      BY <1>1, <1>9 DEF Sums
    <3>2. ends[n + 1] \in Nat
      BY <3>1
    <3> QED
      BY <1>7, <1>10, <3>2
  <2>1. SUFFICES ASSUME NEW i \in 1 .. n, Nonzero(table[i])
                 PROVE  /\ table[i].encoded_len \in Nat /\ table[i].blob_offset \in Nat
                        /\ table[i].blob_offset + table[i].encoded_len <= BlobEnd(table)
                        /\ \A j \in 1 .. n :
                              i < j /\ Nonzero(table[j])
                                 => table[i].blob_offset + table[i].encoded_len
                                      <= table[j].blob_offset
    BY <2>0 DEF Apart, n
  <2>2. \A k \in 1 .. n : Nonzero(table[k]) => table[k].blob_offset = ends[k]
    <3> TAKE k \in 1 .. n
    <3>1. BlobEnd(Before(table, k)) = ends[k]
      BY <1>6, <1>9, BlobEndBefore DEF n, enc
    <3> QED
      BY <1>3, <3>1
  <2>3. ends \in [1 .. n + 1 -> Nat] /\ \A k \in 1 .. n : ends[k + 1] = ends[k] + enc[k]
    BY <1>9 DEF Sums
  <2>4. \A j, k \in 1 .. n + 1 : j <= k => ends[j] <= ends[k]
    <3>1. n + 1 \in Nat /\ ends \in [1 .. n + 1 -> Int]
      BY <1>1, <2>3
    <3>2. \A k \in 1 .. (n + 1) - 1 : ends[k] <= ends[k + 1]
      <4> TAKE k \in 1 .. (n + 1) - 1
      <4>1. k \in 1 .. n /\ k \in 1 .. n + 1
        BY <1>1
      <4>2. ends[k + 1] = ends[k] + enc[k] /\ enc[k] \in Nat /\ ends[k] \in Nat
        BY <1>6, <2>3, <4>1
      <4> QED
        BY ONLY <4>2
    <3> DEFINE m == n + 1
    <3>3. m \in Nat /\ ends \in [1 .. m -> Int] /\ \A k \in 1 .. m - 1 : ends[k] <= ends[k + 1]
      BY <3>1, <3>2
    <3> HIDE DEF m
    <3>4. \A j, k \in 1 .. m : j <= k => ends[j] <= ends[k]
      BY <3>3, Rising
    <3> QED
      BY <3>4 DEF m
  <2>5. /\ table[i].blob_offset = ends[i] /\ enc[i] = table[i].encoded_len
        /\ ends[i + 1] = ends[i] + table[i].encoded_len /\ ends[i] \in Nat
    BY <1>1, <1>6, <2>1, <2>2, <2>3, SMTT(30)
  <2>6. i + 1 \in 1 .. n + 1 /\ n + 1 \in 1 .. n + 1 /\ i + 1 <= n + 1
    BY <1>1
  <2>7. ends[i + 1] <= ends[n + 1]
    BY <2>4, <2>6
  <2>8. ASSUME NEW j \in 1 .. n, i < j, Nonzero(table[j]) PROVE ends[i + 1] <= table[j].blob_offset
    <3>1. j \in 1 .. n + 1 /\ i + 1 <= j
      BY <1>1, <2>8
    <3> QED
      BY <2>2, <2>4, <2>6, <2>8, <3>1
  <2>9. BlobEnd(table) = ends[n + 1]
    BY <1>7, <1>10
  <2> QED
    BY <1>2, <2>5, <2>7, <2>8, <2>9
<1>18. Kinds(table)
  <2>1. ASSUME NEW i \in 1 .. n
        PROVE  /\ table[i].kind \in {"zero", "raw", "zstd"}
               /\ table[i].kind = "raw" => table[i].encoded_len = table[i].len
    BY <1>3 DEF EntryIsSound
  <2> QED
    BY <2>1 DEF Kinds, n
<1> QED
  BY <1>16, <1>17, <1>18

-----------------------------------------------------------------------------
(* Blocks of bytes.                                                        *)

\* The sectors of some blocks.
Sectors(bytes) == {b[s] : b \in ToSet(bytes), s \in 1 .. BlockSectors}
\* Blocks, of which no sector is what was on the target.
AreBlocks(bytes) ==
  bytes \in Seq([1 .. BlockSectors -> Sectors(bytes)]) /\ Old \notin Sectors(bytes)

\* A sequence of blocks over any such set of sectors.
LEMMA BlocksOf ==
  ASSUME NEW T, Old \notin T, NEW bytes \in Seq([1 .. BlockSectors -> T])
  PROVE  AreBlocks(bytes)
<1> DEFINE S == Sectors(bytes)
           B == 1 .. BlockSectors
<1>1. Len(bytes) \in Nat /\ DOMAIN bytes = 1 .. Len(bytes)
      /\ \A i \in 1 .. Len(bytes) : bytes[i] \in [B -> T]
  BY LenProperties, ElementOfSeq
<1>2. \A b \in ToSet(bytes) : b \in [B -> T]
  BY <1>1 DEF ToSet
<1>3. Old \notin S
  <2>1. \A b \in ToSet(bytes) : \A s \in B : b[s] \in T
    BY <1>2
  <2> QED
    BY <2>1 DEF Sectors
<1>4. \A i \in 1 .. Len(bytes) : bytes[i] \in [B -> S]
  <2> TAKE i \in 1 .. Len(bytes)
  <2>1. bytes[i] \in ToSet(bytes)
    BY <1>1 DEF ToSet
  <2>2. \A s \in B : bytes[i][s] \in S
    BY <2>1 DEF Sectors
  <2>3. bytes[i] \in [B -> T]
    BY <1>1
  <2> HIDE DEF S, B
  <2> QED
    BY <2>2, <2>3
<1> DEFINE F == [B -> S]
<1>5. bytes \in Seq(F)
  <2> HIDE DEF F
  <2>1. \A i \in 1 .. Len(bytes) : bytes[i] \in F
    BY <1>4 DEF F
  <2>2. bytes = [i \in 1 .. Len(bytes) |-> bytes[i]]
    BY <1>1
  <2> QED
    BY <1>1, <2>1, <2>2
<1> QED
  BY <1>3, <1>5 DEF AreBlocks

\* The sectors of a sequence of blocks, one behind the other.
Flat(bytes, n) ==
  /\ Len(bytes) = n /\ n \in Nat
  /\ FlattenSeq(bytes) \in Seq(Sectors(bytes)) /\ Len(FlattenSeq(bytes)) = n * BlockSectors
  /\ \A i \in 1 .. n : \A j \in 1 .. BlockSectors :
        /\ bytes[i][j] # Old
        /\ (i - 1) * BlockSectors + j \in 1 .. n * BlockSectors
        /\ FlattenSeq(bytes)[(i - 1) * BlockSectors + j] = bytes[i][j]

\* FlattenSeq puts every block where its number says.
LEMMA BlocksAreFlat ==
  ASSUME NEW bytes, AreBlocks(bytes)
  PROVE  /\ Flat(bytes, Len(bytes)) /\ bytes \in Seq(Seq(Sectors(bytes)))
         /\ DOMAIN bytes = 1 .. Len(bytes)
         /\ \A i \in 1 .. Len(bytes) : DOMAIN bytes[i] = 1 .. BlockSectors
<1> DEFINE S == Sectors(bytes)
           F == [1 .. BlockSectors -> S]
           n == Len(bytes)
           k == BlockSectors
<1>1. bytes \in Seq(F) /\ Old \notin S /\ k \in Nat \ {0}
  BY Room DEF AreBlocks
<1>2. \A b \in F : b \in Seq(S) /\ Len(b) = k /\ DOMAIN b = 1 .. k
  <2> HIDE DEF S
  <2>1. \A b \in F : b \in [1 .. k -> S]
    BY DEF F
  <2> QED
    BY <1>1, <2>1
<1> HIDE DEF S, F
<1>3. F \subseteq Seq(S)
  BY <1>2
<1>4. bytes \in Seq(Seq(S))
  BY <1>1, <1>3, SeqMonotonic
<1>5. n \in Nat /\ DOMAIN bytes = 1 .. n /\ \A i \in 1 .. n : bytes[i] \in F
  BY <1>1, LenProperties, ElementOfSeq
<1>6. \A i \in 1 .. n : Len(bytes[i]) = k
  BY <1>2, <1>5
<1>7. /\ FlattenSeq(bytes) \in Seq(S)
      /\ Len(FlattenSeq(bytes)) = n * k
      /\ \A i \in 1 .. n : \A j \in 1 .. k :
            /\ (i - 1) * k + j \in 1 .. n * k
            /\ FlattenSeq(bytes)[(i - 1) * k + j] = bytes[i][j]
  <2>1. k \in Nat
    BY <1>1
  <2> QED
    BY <1>4, <1>6, <2>1, FlattenBlocks
<1>8. \A i \in 1 .. n : \A j \in 1 .. k : bytes[i][j] # Old
  <2> TAKE i \in 1 .. n
  <2> TAKE j \in 1 .. k
  <2>1. bytes[i] \in Seq(S) /\ Len(bytes[i]) = k
    BY <1>2, <1>5
  <2>2. bytes[i][j] \in S
    BY <2>1, ElementOfSeq
  <2> QED
    BY <1>1, <2>2
<1>9. Flat(bytes, n)
  BY <1>5, <1>7, <1>8 DEF Flat, S
<1> QED
  BY <1>2, <1>4, <1>5, <1>9 DEF S

\* The sequence of so many equal blocks.
LEMMA Repeated ==
  ASSUME NEW n \in Nat, NEW T, Old \notin T, NEW block \in [1 .. BlockSectors -> T]
  PROVE  AreBlocks([i \in 1 .. n |-> block]) /\ Len([i \in 1 .. n |-> block]) = n
<1> DEFINE F == [1 .. BlockSectors -> T]
           bytes == [i \in 1 .. n |-> block]
<1>1. block \in F
  OBVIOUS
<1> HIDE DEF F
<1>2. bytes \in Seq(F) /\ Len(bytes) = n
  BY <1>1
<1> HIDE DEF bytes
<1>3. AreBlocks(bytes)
  BY <1>2, BlocksOf DEF F
<1> QED
  BY <1>2, <1>3 DEF bytes

\* Noise and zeros are not what was on the target.
LEMMA NoiseIsNotOld ==
  /\ Old \notin {Noise} /\ Old \notin {Zero}
  /\ NoiseBlock \in [1 .. BlockSectors -> {Noise}] /\ ZeroBlock \in [1 .. BlockSectors -> {Zero}]
<1>1. Old # Noise /\ Old # Zero
  <2>1. DOMAIN Old = {"old"} /\ DOMAIN Noise = {"noise"} /\ DOMAIN Zero = {"zero"}
    BY DEF Old, Noise, Zero
  <2>2. "old" # "noise" /\ "old" # "zero"
    OBVIOUS
  <2>3. {"old"} # {"noise"} /\ {"old"} # {"zero"}
    BY <2>2
  <2> QED
    BY <2>1, <2>3
<1>2. NoiseBlock \in [1 .. BlockSectors -> {Noise}] /\ ZeroBlock \in [1 .. BlockSectors -> {Zero}]
  BY DEF NoiseBlock, ZeroBlock, Zeros
<1> QED
  BY <1>1, <1>2

-----------------------------------------------------------------------------
(* The graph of the two files.                                             *)

\* The two files are sequences of sectors with data.
LEMMA FilesAre ==
  ASSUME NEW file \in EspFiles \cup RootFiles
  PROVE  Len(file) \in Nat \ {0} /\ \A i \in 1 .. Len(file) : file[i] # Old
<1> DEFINE S == ToSet(file) \ {Old}
<1>1. file \in Seq(S) /\ file # <<>>
  BY FilesHoldData
<1>2. Old \notin S
  OBVIOUS
<1> HIDE DEF S
<1>3. Len(file) \in Nat /\ Len(file) # 0 /\ \A i \in 1 .. Len(file) : file[i] \in S
  BY <1>1, LenProperties, ElementOfSeq, EmptySeq
<1> QED
  BY <1>2, <1>3

\* Nothing of the installed disk is what was on the target.
LEMMA ImageIsNotOld ==
  ASSUME NEW e \in EspFiles, NEW r \in RootFiles, Len(e) = EspSectors, NEW disk,
         Installed(disk, InstalledGptLayout(Len(r)), e, r)
  PROVE  \A s \in Nat : s < InstalledGptLayout(Len(r)).image => disk[s] # Old
<1> DEFINE l == InstalledGptLayout(Len(r))
           I == l.image
           x == EntrySectors
           lba == BackupEntriesLba(l)
           array == encode_gpt_entries(l)
           n == Len(r)
           k == EspSectors
           p == l.esp.start
           q == l.root.start
           Is ==
             /\ disk[0] # Old /\ disk[1] # Old /\ disk[I - 1] # Old
             /\ \A i \in 1 .. x : disk[1 + i] # Old
             /\ \A i \in 1 .. x : disk[lba + i - 1] # Old
             /\ \A s \in Nat : x + 2 <= s /\ s < p => disk[s] # Old
             /\ \A i \in 1 .. k : disk[p + i - 1] # Old
             /\ \A i \in 1 .. n : disk[q + i - 1] # Old
             /\ \A s \in Nat : I - TrailingGap <= s /\ s < lba => disk[s] # Old
<1>0. Len(r) \in Nat /\ (\A i \in 1 .. n : r[i] # Old) /\ (\A i \in 1 .. k : e[i] # Old)
  BY FilesAre
<1>1. /\ p = LeadingGap /\ l.esp.len = k /\ q = p + k /\ l.root.len = n
      /\ I = q + n + TrailingGap /\ I \in Nat /\ lba = I - 1 - x
  <2>1. /\ l.esp.start = LeadingGap /\ l.esp.len = EspSectors
        /\ l.root.start = LeadingGap + EspSectors /\ l.root.len = n
        /\ l.image = LeadingGap + EspSectors + n + TrailingGap /\ l.image \in Nat
    BY <1>0, LayoutIs
  <2>2. lba = I - 1 - x
    BY DEF BackupEntriesLba, LastLba
  <2> HIDE DEF l, lba
  <2> QED
    BY <2>1, <2>2
<1>2. /\ p \in Nat /\ k \in Nat /\ n \in Nat /\ TrailingGap \in Nat /\ x \in Nat
      /\ p >= x + 2 /\ TrailingGap >= x + 1
  BY <1>0, <1>1, Room
<1>3. Is
  <2> HIDE DEF l
  <2>1. ProtectiveMbr(l) # Old /\ PrimaryHeader(l) # Old /\ BackupHeader(l) # Old
        /\ Table(l) # Old /\ Zero # Old
    <3>1. DOMAIN Old = {"old"} /\ DOMAIN Zero = {"zero"} /\ DOMAIN Table(l) = {"entries"}
          /\ DOMAIN ProtectiveMbr(l) = {"pmbr"}
      BY DEF Old, Zero, Table, ProtectiveMbr
    <3>2. "crc" \in DOMAIN PrimaryHeader(l) /\ "crc" \in DOMAIN BackupHeader(l)
      BY DEF PrimaryHeader, BackupHeader, encode_gpt_header
    <3>3. "crc" \notin {"old"} /\ "old" \notin {"zero"} /\ "old" \notin {"entries"}
          /\ "old" \notin {"pmbr"} /\ "old" \in {"old"}
      OBVIOUS
    <3> QED
      BY <3>1, <3>2, <3>3
  <2>2. \A i \in 1 .. x : array[i] # Old
    <3>1. array \in Seq({Zero, Table(l)}) /\ Len(array) = x
      BY EntriesAre
    <3> HIDE DEF array
    <3> QED
      BY <2>1, <3>1, ElementOfSeq
  <2>3. /\ disk[0] = ProtectiveMbr(l) /\ disk[1] = PrimaryHeader(l)
        /\ disk[I - 1] = BackupHeader(l)
    BY DEF Installed, l
  <2>4. /\ \A i \in 1 .. x : disk[1 + i] = array[i]
        /\ \A i \in 1 .. x : disk[lba + i - 1] = array[i]
    BY DEF Installed, l
  <2>5. /\ \A s \in Nat : x + 2 <= s /\ s < p => disk[s] = Zero
        /\ \A s \in Nat : I - TrailingGap <= s /\ s < lba => disk[s] = Zero
    BY <1>1 DEF Installed, l
  <2>6. /\ \A i \in 1 .. k : disk[p + i - 1] = e[i]
        /\ \A i \in 1 .. n : disk[q + i - 1] = r[i]
    BY <1>1 DEF Installed, l
  <2> HIDE DEF I, x, lba, array, n, k, p, q
  <2>7. disk[0] # Old /\ disk[1] # Old /\ disk[I - 1] # Old
    BY ONLY <2>1, <2>3
  <2>8. /\ \A i \in 1 .. x : disk[1 + i] # Old
        /\ \A i \in 1 .. x : disk[lba + i - 1] # Old
    BY ONLY <2>2, <2>4
  <2>9. /\ \A s \in Nat : x + 2 <= s /\ s < p => disk[s] # Old
        /\ \A s \in Nat : I - TrailingGap <= s /\ s < lba => disk[s] # Old
    BY ONLY <2>1, <2>5
  <2>10. /\ \A i \in 1 .. k : disk[p + i - 1] # Old
         /\ \A i \in 1 .. n : disk[q + i - 1] # Old
    BY ONLY <1>0, <2>6
  <2> QED
    BY ONLY <2>7, <2>8, <2>9, <2>10
<1> HIDE DEF l, I, x, lba, array, n, k, p, q
<1> SUFFICES ASSUME NEW s \in Nat, s < I PROVE disk[s] # Old
  BY DEF I, l
<1> HIDE DEF Is
<1>4. CASE s = 0 \/ s = 1 \/ s = I - 1
  BY <1>3, <1>4 DEF Is
<1>5. CASE 1 < s /\ s < x + 2
  <2>1. s - 1 \in 1 .. x /\ 1 + (s - 1) = s
    BY <1>2, <1>5
  <2> QED
    BY <1>3, <2>1 DEF Is
<1>6. CASE x + 2 <= s /\ s < p
  BY <1>3, <1>6 DEF Is
<1>7. CASE p <= s /\ s < q
  <2>1. s - p + 1 \in 1 .. k /\ p + (s - p + 1) - 1 = s
    BY <1>1, <1>2, <1>7
  <2> QED
    BY <1>3, <2>1 DEF Is
<1>8. CASE q <= s /\ s < q + n
  <2>1. s - q + 1 \in 1 .. n /\ q + (s - q + 1) - 1 = s
    BY <1>1, <1>2, <1>8
  <2> QED
    BY <1>3, <2>1 DEF Is
<1>9. CASE q + n <= s /\ s < lba
  <2>1. I - TrailingGap <= s
    BY <1>1, <1>2, <1>9
  <2> QED
    BY <1>3, <1>9, <2>1 DEF Is
<1>10. CASE lba <= s /\ s < I - 1
  <2>1. s - lba + 1 \in 1 .. x /\ lba + (s - lba + 1) - 1 = s
    BY <1>1, <1>2, <1>10
  <2> QED
    BY <1>3, <2>1 DEF Is
<1>11. \/ s = 0 \/ s = 1 \/ s = I - 1
       \/ 1 < s /\ s < x + 2
       \/ x + 2 <= s /\ s < p
       \/ p <= s /\ s < q
       \/ q <= s /\ s < q + n
       \/ q + n <= s /\ s < lba
       \/ lba <= s /\ s < I - 1
  BY <1>1, <1>2
<1> QED
  BY <1>4, <1>5, <1>6, <1>7, <1>8, <1>9, <1>10, <1>11

\* The extents as they are packed: blocks, all zero or not, of the flat file.
OfTheGraph(x, l, e, r) ==
  /\ x \in Seq(ToSet(x)) /\ Len(x) # 0
  /\ \A i \in 1 .. Len(x) :
        /\ x[i].offset \in Nat /\ AreBlocks(x[i].bytes)
        /\ 0 < Len(x[i].bytes) /\ Len(x[i].bytes) <= MaxExtent
        /\ x[i].kind = "zero" <=> IsZero(x[i].bytes)
        /\ \A k \in 1 .. Len(x[i].bytes) : \A j \in 1 .. BlockSectors :
              x[i].bytes[k][j]
                 = write_installed_gpt_image(l, e, r)[(x[i].offset + k - 1) * BlockSectors + j - 1]

\* for_each_extent gives extents of the image that the flat writer makes.
LEMMA GraphExtents ==
  ASSUME NEW e \in EspFiles, NEW r \in RootFiles,
         GraphReads(InstalledGptLayout(Len(r)), e, r)
  PROVE  LET l == InstalledGptLayout(Len(r))
         IN  OfTheGraph(for_each_extent(l, e, r), l, e, r)
<1> DEFINE l == InstalledGptLayout(Len(r))
           x == for_each_extent(l, e, r)
           blocks == block_bytes_at(l, e, r)
           image == write_installed_gpt_image(l, e, r)
           B == BlockSectors
           T == {image[s] : s \in {v \in Nat : v < l.image}}
           F == [1 .. B -> T]
           n == Blocks(l)
<1>1. Len(r) \in Nat \ {0}
  BY FilesAre
<1>2. n \in Nat \ {0} /\ l.image = n * B /\ Len(e) = EspSectors /\ l.image \in Nat
  BY <1>1, WholeBlocks, LayoutIs
<1>3. Installed(image, l, e, r)
  BY <1>1, <1>2, FileIsInstalled
<1>4. Old \notin T
  <2>1. \A s \in Nat : s < l.image => image[s] # Old
    <3> HIDE DEF image
    <3> QED
      BY <1>2, <1>3, ImageIsNotOld
  <2> HIDE DEF image, l
  <2> QED
    BY <2>1
<1>5. \A b \in 1 .. n : \A i \in 1 .. B :
         /\ DOMAIN blocks[b] = 1 .. B
         /\ (b - 1) * B + i - 1 \in 0 .. l.image - 1
         /\ blocks[b][i] = image[(b - 1) * B + i - 1]
  BY <1>1, BlocksOfTheFile
<1>6. DOMAIN blocks = 1 .. n /\ blocks = [b \in 1 .. n |-> blocks[b]]
      /\ \A b \in 1 .. n : blocks[b] = [i \in 1 .. B |-> blocks[b][i]]
  BY DEF block_bytes_at
<1> HIDE DEF l, blocks, image, n
<1>7. blocks \in [1 .. n -> F]
  <2>1. ASSUME NEW b \in 1 .. n PROVE blocks[b] \in F
    <3>1. \A i \in 1 .. B : blocks[b][i] \in T
      <4> TAKE i \in 1 .. B
      <4> DEFINE s == (b - 1) * B + i - 1
      <4>1. s \in 0 .. l.image - 1 /\ blocks[b][i] = image[s]
        BY <1>5
      <4> HIDE DEF s
      <4>2. s \in Nat /\ s < l.image
        BY <1>2, <4>1
      <4> QED
        BY <4>1, <4>2
    <3>2. blocks[b] = [i \in 1 .. B |-> blocks[b][i]]
      BY <1>6
    <3> HIDE DEF T
    <3> QED
      BY <3>1, <3>2
  <2> HIDE DEF F
  <2> QED
    BY <1>6, <2>1
<1> HIDE DEF T, F
<1>8. x \in Seq(Extents(F)) /\ Covering(x, blocks, n)
  BY <1>2, <1>7, ExtentsAre DEF blocks, n
<1> HIDE DEF x
<1>9. Len(x) # 0 /\ \A i \in 1 .. Len(x) : Describes(x[i], blocks, n)
  BY <1>8 DEF Covering
<1>10. ASSUME NEW i \in 1 .. Len(x)
       PROVE  /\ x[i].offset \in Nat /\ x[i].bytes \in Seq(F) /\ AreBlocks(x[i].bytes)
              /\ Len(x[i].bytes) \in Nat
  <2>1. x[i] \in Extents(F)
    BY <1>8, ElementOfSeq
  <2>2. x[i].offset \in Nat /\ x[i].bytes \in Seq(F)
    BY <2>1 DEF Extents
  <2>3. AreBlocks(x[i].bytes)
    BY <1>4, <2>2, BlocksOf DEF F
  <2> QED
    BY <2>2, <2>3, LenProperties
<1>11. ASSUME NEW i \in 1 .. Len(x) PROVE x[i].kind = "zero" <=> IsZero(x[i].bytes)
  <2> DEFINE bytes == x[i].bytes
  <2>1. 0 < Len(bytes) /\ \A k \in 1 .. Len(bytes) : bytes[k] = ZeroBlock <=> x[i].kind = "zero"
    BY <1>9 DEF Describes
  <2>2. DOMAIN bytes = 1 .. Len(bytes) /\ Len(bytes) \in Nat
    BY <1>10, LenProperties
  <2> HIDE DEF bytes
  <2>3. 1 \in 1 .. Len(bytes)
    BY <2>1, <2>2
  <2>4. IsZero(bytes) <=> \A k \in 1 .. Len(bytes) : bytes[k] = ZeroBlock
    BY <2>2 DEF IsZero
  <2>5. x[i].kind = "zero" <=> IsZero(bytes)
    BY <2>1, <2>3, <2>4
  <2> QED
    BY <2>5 DEF bytes
<1>12. ASSUME NEW i \in 1 .. Len(x), NEW k \in 1 .. Len(x[i].bytes), NEW j \in 1 .. B
       PROVE  x[i].bytes[k][j] = image[(x[i].offset + k - 1) * B + j - 1]
  <2> DEFINE b == x[i].offset + k
  <2>1. x[i].bytes[k] = blocks[b] /\ x[i].offset + Len(x[i].bytes) <= n
    BY <1>9 DEF Describes
  <2>2. x[i].offset \in Nat /\ Len(x[i].bytes) \in Nat
    BY <1>10
  <2>3. b \in 1 .. n
    <3> DEFINE u == x[i].offset
               v == Len(x[i].bytes)
    <3>1. u \in Nat /\ v \in Nat /\ u + v <= n /\ k \in 1 .. v
      BY <2>1, <2>2
    <3> HIDE DEF u, v
    <3>2. u + k \in 1 .. n
      BY ONLY <1>2, <3>1
    <3> QED
      BY <3>2 DEF u
  <2>4. b - 1 = x[i].offset + k - 1
    BY ONLY <2>2, k \in 1 .. Len(x[i].bytes) DEF b
  <2> HIDE DEF b
  <2>5. blocks[b][j] = image[(b - 1) * B + j - 1]
    BY <1>5, <2>3
  <2>6. blocks[b][j] = image[(x[i].offset + k - 1) * B + j - 1]
    BY ONLY <2>4, <2>5
  <2> QED
    BY ONLY <2>1, <2>6
<1>13. x \in Seq(ToSet(x))
  <2>1. x = [i \in 1 .. Len(x) |-> x[i]] /\ Len(x) \in Nat /\ DOMAIN x = 1 .. Len(x)
    BY <1>8
  <2> DEFINE S == ToSet(x)
  <2>2. \A i \in 1 .. Len(x) : x[i] \in S
    BY <2>1 DEF ToSet
  <2> HIDE DEF S
  <2>3. x \in Seq(S)
    BY <2>1, <2>2
  <2> QED
    BY <2>3 DEF S
<1>14. \A i \in 1 .. Len(x) : 0 < Len(x[i].bytes) /\ Len(x[i].bytes) <= MaxExtent
  BY <1>9 DEF Describes
<1>15. OfTheGraph(x, l, e, r)
  BY <1>9, <1>10, <1>11, <1>12, <1>13, <1>14 DEF OfTheGraph, image
<1> QED
  BY <1>15 DEF x, l

-----------------------------------------------------------------------------
(* Encoding an extent, through the cache or not.                           *)

\* An entry of the cache, torn or not, is the encoding of blocks.
CacheHoldsBlocks(entries) ==
  \A e \in entries :
    /\ e = [key |-> e.key, torn |-> e.torn, kind |-> e.kind, encoded |-> e.encoded]
    /\ AreBlocks(e.encoded)

\* What some bytes are encoded as: blocks, that zstd decodes to the bytes.
Encodes(kind, encoded, bytes) ==
  /\ AreBlocks(encoded)
  /\ kind = "zstd" => Decoded(encoded, Len(bytes)) = {bytes}

\* An extent has at least one distinct block.
LEMMA DistinctBlocks ==
  ASSUME NEW S, NEW bytes \in Seq(S), Len(bytes) # 0
  PROVE  Cardinality(ToSet(bytes)) \in Nat \ {0}
<1> DEFINE D == ToSet(bytes)
           n == Len(bytes)
<1>1. n \in Nat /\ DOMAIN bytes = 1 .. n /\ bytes = [i \in 1 .. n |-> bytes[i]]
  OBVIOUS
<1>2. 1 \in DOMAIN bytes
  BY <1>1
<1>3. (\A i \in DOMAIN bytes : bytes[i] \in D) /\ (\A d \in D : \E i \in DOMAIN bytes : bytes[i] = d)
  BY DEF ToSet
<1> HIDE DEF D, n
<1>4. bytes \in Surjection(1 .. n, D)
  <2>1. bytes \in [1 .. n -> D]
    BY <1>1, <1>3
  <2> QED
    BY <1>1, <1>3, <2>1 DEF Surjection
<1>5. IsFiniteSet(D)
  <2>1. ExistsSurjection(1 .. n, D)
    BY <1>4 DEF ExistsSurjection
  <2> QED
    BY <1>1, <2>1, FS_NatSurjection
<1>6. D # {}
  BY <1>2, <1>3
<1>7. Cardinality(D) \in Nat /\ Cardinality(D) # 0
  BY <1>5, <1>6, FS_CardinalityType, FS_EmptySet
<1> QED
  BY <1>7 DEF D

\* What zstd makes of an extent decodes to it, whichever release it is of.
LEMMA CompressedIs ==
  ASSUME NEW bytes, AreBlocks(bytes), Len(bytes) # 0, NEW by
  PROVE  Encodes("zstd", Compressed(bytes, by), bytes)
<1> DEFINE m == Cardinality(ToSet(bytes))
           part(i) == [zstd |-> bytes, by |-> by, part |-> i]
           T == {part(i) : i \in 1 .. m}
           block(i) == [s \in 1 .. BlockSectors |-> part(i)]
           encoded == [i \in 1 .. m |-> block(i)]
           F == [1 .. BlockSectors -> T]
<1>1. m \in Nat \ {0}
  BY DistinctBlocks DEF AreBlocks
<1>2. BlockSectors \in Nat \ {0}
  BY Room
<1>3. Compressed(bytes, by) = encoded
  BY DEF Compressed
<1>4. \A i \in 1 .. m : part(i) # Old /\ part(i) # Noise /\ part(i).zstd = bytes
  <2> TAKE i \in 1 .. m
  <2>1. "zstd" \in DOMAIN part(i)
    OBVIOUS
  <2>2. DOMAIN Old = {"old"} /\ DOMAIN Noise = {"noise"} /\ "zstd" \notin {"old"}
        /\ "zstd" \notin {"noise"}
    BY DEF Old, Noise
  <2>3. part(i).zstd = bytes
    OBVIOUS
  <2> QED
    BY <2>1, <2>2, <2>3
<1> HIDE DEF m, part
<1>5. Old \notin T
  BY <1>4
<1>6. \A i \in 1 .. m : block(i) \in F /\ block(i)[1] = part(i)
  <2> TAKE i \in 1 .. m
  <2>1. part(i) \in T /\ 1 \in 1 .. BlockSectors
    BY <1>2
  <2> HIDE DEF T
  <2> QED
    BY <2>1
<1> HIDE DEF block, F
<1>7. encoded \in Seq(F) /\ Len(encoded) = m /\ \A i \in 1 .. m : encoded[i] = block(i)
  BY <1>1, <1>6
<1> HIDE DEF encoded
<1>8. AreBlocks(encoded)
  BY <1>5, <1>7, BlocksOf DEF F
<1>9. encoded # <<>>
  BY <1>1, <1>7, EmptySeq
<1>10. NoiseBlock \notin ToSet(encoded)
  <2>1. NoiseBlock[1] = Noise
    <3>1. 1 \in 1 .. BlockSectors
      BY <1>2
    <3> QED
      BY <3>1 DEF NoiseBlock
  <2>2. \A i \in DOMAIN encoded : encoded[i][1] # Noise
    <3>1. DOMAIN encoded = 1 .. m
      BY <1>7, LenProperties
    <3> QED
      BY <1>4, <1>6, <1>7, <3>1
  <2> QED
    BY <2>1, <2>2 DEF ToSet
<1>11. encoded[1][1].zstd = bytes
  <2>1. 1 \in 1 .. m
    BY <1>1
  <2> QED
    BY <1>4, <1>6, <1>7, <2>1
<1>12. Decoded(encoded, Len(bytes)) = {bytes}
  BY <1>9, <1>10, <1>11 DEF Decoded
<1> QED
  BY <1>3, <1>8, <1>12 DEF Encodes

\* No bytes are blocks too.
LEMMA NothingIsBlocks == AreBlocks(<<>>)
<1> DEFINE F == [1 .. BlockSectors -> {Noise}]
<1>1. <<>> \in Seq(F)
  BY EmptySeq
<1> QED
  BY <1>1, NoiseIsNotOld, BlocksOf

\* encode_extent encodes what it is given.
LEMMA EncodedAfresh ==
  ASSUME NEW bytes, AreBlocks(bytes), Len(bytes) # 0
  PROVE  /\ Encodes(encode_extent(bytes).kind, encode_extent(bytes).encoded, bytes)
         /\ ~IsZero(bytes) => encode_extent(bytes).kind \in {"raw", "zstd"}
<1>1. CASE IsZero(bytes)
  <2>1. encode_extent(bytes) = [kind |-> "zero", encoded |-> <<>>]
    BY <1>1 DEF encode_extent
  <2> QED
    BY <1>1, <2>1, NothingIsBlocks DEF Encodes
<1>2. CASE ~IsZero(bytes) /\ Len(Compressed(bytes, release)) + Slack < Len(bytes)
  <2>1. encode_extent(bytes) = [kind |-> "zstd", encoded |-> Compressed(bytes, release)]
    BY <1>2 DEF encode_extent
  <2>2. Encodes("zstd", Compressed(bytes, release), bytes)
    BY CompressedIs
  <2> HIDE DEF encode_extent
  <2> QED
    BY <2>1, <2>2
<1>3. CASE ~IsZero(bytes) /\ ~(Len(Compressed(bytes, release)) + Slack < Len(bytes))
  <2>1. encode_extent(bytes) = [kind |-> "raw", encoded |-> bytes]
    BY <1>3 DEF encode_extent
  <2> QED
    BY <2>1 DEF Encodes
<1> QED
  BY <1>1, <1>2, <1>3

\* So does encode_extent_cached, whatever the cache holds: an entry that would
\* not decode to the extent is a miss.
LEMMA EncodedThroughTheCache ==
  ASSUME CacheHoldsBlocks(cache), NEW x, AreBlocks(x.bytes), Len(x.bytes) # 0,
         x.kind = "zero" <=> IsZero(x.bytes)
  PROVE  Encodes(encode_extent_cached(x).kind, encode_extent_cached(x).encoded, x.bytes)
<1>1. CASE x.kind = "zero"
  <2>1. encode_extent_cached(x) = [kind |-> "zero", encoded |-> <<>>]
    BY <1>1 DEF encode_extent_cached
  <2> QED
    BY <2>1, NothingIsBlocks DEF Encodes
<1>2. CASE x.kind # "zero" /\ read_extent_cache(x) = {}
  <2>1. encode_extent_cached(x) = encode_extent(x.bytes)
    BY <1>2 DEF encode_extent_cached
  <2> QED
    BY <2>1, EncodedAfresh
<1>3. CASE x.kind # "zero" /\ read_extent_cache(x) # {}
  <2> DEFINE e == CHOOSE e \in read_extent_cache(x) : TRUE
  <2>1. encode_extent_cached(x) = [kind |-> e.kind, encoded |-> e.encoded]
    BY <1>3 DEF encode_extent_cached
  <2>2. e \in read_extent_cache(x)
    BY <1>3
  <2> HIDE DEF e
  <2>3. e \in cache /\ (e.kind = "zstd" => Decoded(e.encoded, Len(x.bytes)) = {x.bytes})
    BY <2>2 DEF read_extent_cache
  <2>4. AreBlocks(e.encoded)
    BY <2>3 DEF CacheHoldsBlocks
  <2> QED
    BY <2>1, <2>3, <2>4 DEF Encodes
<1> QED
  BY <1>1, <1>2, <1>3

-----------------------------------------------------------------------------
(* What is packed.                                                         *)

\* What a cache may hold besides: no zeros, and nothing longer than an extent.
CacheHoldsExtents(entries) ==
  \A e \in entries : e.kind \in {"raw", "zstd"} /\ Len(e.key.bytes) <= MaxExtent

\* An extent that misses leaves its encoding in the cache.
LEMMA CacheIsKept ==
  ASSUME CacheHoldsBlocks(cache), CacheHoldsExtents(cache),
         NEW x, NEW l, NEW e, NEW r, OfTheGraph(x, l, e, r)
  PROVE  CacheHoldsBlocks(write_extent_cache(x)) /\ CacheHoldsExtents(write_extent_cache(x))
<1> DEFINE missed == {y \in ToSet(x) : y.kind # "zero" /\ read_extent_cache(y) = {}}
           Entry(y) == [key |-> CacheKey(y), torn |-> FALSE,
                        kind |-> encode_extent(y.bytes).kind,
                        encoded |-> encode_extent(y.bytes).encoded]
           new == {Entry(y) : y \in missed}
<1>1. write_extent_cache(x) \subseteq cache \cup new
  BY DEF write_extent_cache
<1>2. ASSUME NEW y \in missed
      PROVE  /\ Entry(y).kind \in {"raw", "zstd"} /\ Len(Entry(y).key.bytes) <= MaxExtent
             /\ Entry(y) = [key |-> Entry(y).key, torn |-> Entry(y).torn,
                            kind |-> Entry(y).kind, encoded |-> Entry(y).encoded]
             /\ AreBlocks(Entry(y).encoded)
  <2>1. PICK i \in 1 .. Len(x) : y = x[i]
    BY SeqOfItself DEF OfTheGraph
  <2>2. /\ AreBlocks(y.bytes) /\ 0 < Len(y.bytes) /\ Len(y.bytes) <= MaxExtent
        /\ y.kind = "zero" <=> IsZero(y.bytes)
    BY <2>1 DEF OfTheGraph
  <2>3. Len(y.bytes) # 0 /\ ~IsZero(y.bytes)
    BY <2>2
  <2>4. /\ Encodes(encode_extent(y.bytes).kind, encode_extent(y.bytes).encoded, y.bytes)
        /\ encode_extent(y.bytes).kind \in {"raw", "zstd"}
    BY <2>2, <2>3, EncodedAfresh
  <2>5. CacheKey(y).bytes = y.bytes
    BY DEF CacheKey
  <2> QED
    BY <2>2, <2>4, <2>5 DEF Encodes
<1> HIDE DEF missed, Entry
<1>3. \A d \in new : /\ d.kind \in {"raw", "zstd"} /\ Len(d.key.bytes) <= MaxExtent
                     /\ d = [key |-> d.key, torn |-> d.torn, kind |-> d.kind, encoded |-> d.encoded]
                     /\ AreBlocks(d.encoded)
  BY <1>2
<1> HIDE DEF new
<1> QED
  BY <1>1, <1>3 DEF CacheHoldsBlocks, CacheHoldsExtents

\* A function over the positions up to n is a sequence.
LEMMA IsSequence ==
  ASSUME NEW n \in Nat, NEW f, f = [i \in 1 .. n |-> f[i]]
  PROVE  f \in Seq(ToSet(f)) /\ Len(f) = n /\ DOMAIN f = 1 .. n
<1> DEFINE S == ToSet(f)
<1>1. DOMAIN f = 1 .. n
  OBVIOUS
<1>2. \A i \in 1 .. n : f[i] \in S
  BY <1>1 DEF ToSet
<1> HIDE DEF S
<1>3. f \in [1 .. n -> S]
  BY <1>2
<1>4. f \in Seq(S) /\ Len(f) = n
  BY <1>3
<1> QED
  BY <1>1, <1>4 DEF S

\* A sequence of anything is one of its own elements.
LEMMA SeqIsOfItself ==
  ASSUME NEW S, NEW s \in Seq(S)
  PROVE  s \in Seq(ToSet(s))
<1>1. Len(s) \in Nat /\ s = [i \in 1 .. Len(s) |-> s[i]]
  BY LenProperties
<1> QED
  BY <1>1, IsSequence

\* An entry of the table is its extent, and what it is encoded as decodes to it.
EntryOf(t, x) ==
  /\ t.offset = x.offset /\ t.len = Len(x.bytes) /\ t.sha = x.bytes
  /\ t.encoded_len = Len(t.encoded_sha) /\ AreBlocks(t.encoded_sha)
  /\ t.kind = "zstd" => Decoded(t.encoded_sha, t.len) = {t.sha}

\* A container of four parts, its prelude a record that its digests are in.
IsContainer(c) ==
  /\ c = [prelude |-> c.prelude, manifest |-> c.manifest, table |-> c.table, blob |-> c.blob]
  /\ c.blob \in Seq(ToSet(c.blob))
  /\ c.prelude = [f \in DOMAIN c.prelude |-> c.prelude[f]]
  /\ {"table_sha", "manifest_sha"} \subseteq DOMAIN c.prelude
  /\ {"target", "minimum"} \subseteq DOMAIN c.manifest
  /\ c.prelude.blob_len = Len(c.blob)
  /\ c.prelude.total \in Nat

\* A container that was packed from the graph of the two files, and accepted.
PacksTheGraph(c, e, r) ==
  LET l == InstalledGptLayout(Len(r))
      extents == for_each_extent(l, e, r)
  IN  /\ e \in EspFiles /\ r \in RootFiles /\ GraphReads(l, e, r)
      /\ IsContainer(c)
      /\ c.table \in Seq(ToSet(c.table)) /\ Len(c.table) = Len(extents)
      /\ \A i \in 1 .. Len(extents) : EntryOf(c.table[i], extents[i])
      /\ c.prelude.target = Blocks(l)
      /\ Accepts(c, c.prelude.total)

\* The parts of a container as they are put together.
LEMMA PartsAre ==
  ASSUME NEW table, NEW S, NEW blob \in Seq(S), NEW image, NEW semantic, Len(table) \in Nat
  PROVE  LET c == write_payload_parts(table, blob, image, semantic)
         IN  IsContainer(c) /\ c.table = table /\ c.blob = blob /\ c.prelude.target = image
<1> DEFINE facts == [target |-> image, minimum |-> image,
                     extent_count |-> Len(table), blob_count |-> BlobCount(table),
                     planned |-> Planned(table), planned_zero |-> PlannedZero(table),
                     encoded |-> Len(blob), omitted |-> saturating_sub(image, Planned(table)),
                     semantic |-> semantic, table_sha |-> table, blob_sha |-> blob]
           first == [blob_len |-> Len(blob), manifest_sha |-> facts,
                     total |-> ContainerUnits(Len(table), Len(blob))]
           prelude == Over(first, facts)
           c == write_payload_parts(table, blob, image, semantic)
<1>1. /\ "table_sha" \in DOMAIN facts /\ "target" \in DOMAIN facts /\ "minimum" \in DOMAIN facts
      /\ facts.target = image
  OBVIOUS
<1>2. /\ "manifest_sha" \in DOMAIN first /\ "blob_len" \in DOMAIN first /\ "total" \in DOMAIN first
      /\ "target" \notin DOMAIN first
      /\ first.blob_len = Len(blob)
      /\ first.total = ContainerUnits(Len(table), Len(blob))
  <2> HIDE DEF facts
  <2> QED
    OBVIOUS
<1>3. c = [prelude |-> prelude, manifest |-> facts, table |-> table, blob |-> blob]
  BY DEF write_payload_parts
<1> HIDE DEF facts, first
<1>4. /\ DOMAIN prelude = DOMAIN first \cup DOMAIN facts
      /\ \A f \in DOMAIN first : prelude[f] = first[f]
      /\ \A f \in DOMAIN facts : f \notin DOMAIN first => prelude[f] = facts[f]
  BY OverIs
<1>5. prelude = [f \in DOMAIN prelude |-> prelude[f]]
  BY <1>4 DEF Over
<1> HIDE DEF prelude, c
<1>6. prelude.blob_len = Len(blob) /\ prelude.target = image
      /\ prelude.total = ContainerUnits(Len(table), Len(blob))
  BY <1>1, <1>2, <1>4
<1>7. ContainerUnits(Len(table), Len(blob)) \in Nat
  <2> DEFINE v == HeaderUnits + Len(table) + Len(blob)
  <2>1. Alignment \in Nat \ {0} /\ Len(blob) \in Nat
    BY Sizes, LenProperties
  <2>2. v \in Nat
    BY <2>1 DEF HeaderUnits
  <2>3. ContainerUnits(Len(table), Len(blob)) = RoundUp(v, Alignment)
    BY DEF ContainerUnits
  <2> HIDE DEF v
  <2> QED
    BY <2>1, <2>2, <2>3, RoundUpIs
<1>8. blob \in Seq(ToSet(blob))
  BY SeqIsOfItself
<1>9. /\ c.prelude = prelude /\ c.manifest = facts /\ c.table = table /\ c.blob = blob
      /\ c = [prelude |-> c.prelude, manifest |-> c.manifest, table |-> c.table, blob |-> c.blob]
  BY <1>3
<1>10. IsContainer(c)
  BY <1>1, <1>2, <1>4, <1>5, <1>6, <1>7, <1>8, <1>9 DEF IsContainer
<1> QED
  BY <1>6, <1>9, <1>10 DEF c

\* What is packed and accepted packs the graph.
LEMMA PackedIs ==
  ASSUME NEW c, c = Packed(for_each_extent(InstalledGptLayout(Len(root)), esp, root)),
         esp \in EspFiles, root \in RootFiles, GraphReads(InstalledGptLayout(Len(root)), esp, root),
         CacheHoldsBlocks(cache), Accepts(c, c.prelude.total)
  PROVE  PacksTheGraph(c, esp, root)
<1> DEFINE l == InstalledGptLayout(Len(root))
           x == for_each_extent(l, esp, root)
           n == Len(x)
           done == [i \in DOMAIN x |-> encode_extent_cached(x[i])]
           encs == [i \in DOMAIN x |-> done[i].encoded]
           blob == FlattenSeq(encs)
           at(i) == IF done[i].kind = "zero" THEN NoBlob
                    ELSE Len(FlattenSeq([j \in 1 .. i - 1 |-> done[j].encoded]))
           table == [i \in DOMAIN x |->
                       [offset |-> x[i].offset, len |-> Len(x[i].bytes),
                        kind |-> done[i].kind, encoded_len |-> Len(done[i].encoded),
                        blob_offset |-> at(i),
                        sha |-> x[i].bytes, encoded_sha |-> done[i].encoded]]
<1>0. GraphReads(l, esp, root)
  OBVIOUS
<1>1. OfTheGraph(x, l, esp, root)
  BY GraphExtents
<1>2. c = write_payload_parts(table, blob, Blocks(l), Semantic(table))
  BY Zenon DEF Packed
<1> HIDE DEF l
<1> HIDE DEF x
<1>3. n \in Nat /\ DOMAIN x = 1 .. n
  BY <1>1, SeqOfItself DEF OfTheGraph
<1> HIDE DEF n
<1>4. ASSUME NEW i \in 1 .. n
      PROVE  /\ AreBlocks(done[i].encoded)
             /\ done[i].kind = "zstd" => Decoded(done[i].encoded, Len(x[i].bytes)) = {x[i].bytes}
  <2>1. /\ AreBlocks(x[i].bytes) /\ 0 < Len(x[i].bytes)
        /\ x[i].kind = "zero" <=> IsZero(x[i].bytes)
    BY <1>1 DEF OfTheGraph, n
  <2>2. Len(x[i].bytes) # 0
    BY <2>1
  <2>3. Encodes(encode_extent_cached(x[i]).kind, encode_extent_cached(x[i]).encoded, x[i].bytes)
    BY <2>1, <2>2, EncodedThroughTheCache
  <2>4. done[i] = encode_extent_cached(x[i])
    BY <1>3
  <2> QED
    BY <2>3, <2>4 DEF Encodes
<1> HIDE DEF done, at
<1>5. table = [i \in 1 .. n |-> table[i]] /\ encs = [i \in 1 .. n |-> encs[i]]
      /\ \A i \in 1 .. n : encs[i] = done[i].encoded
  BY <1>3
<1>6. \A i \in 1 .. n : EntryOf(table[i], x[i])
  <2> TAKE i \in 1 .. n
  <2> DEFINE t == table[i]
  <2>1. /\ t.offset = x[i].offset /\ t.len = Len(x[i].bytes) /\ t.sha = x[i].bytes
        /\ t.kind = done[i].kind /\ t.encoded_len = Len(done[i].encoded)
        /\ t.encoded_sha = done[i].encoded
    BY <1>3
  <2> HIDE DEF t
  <2>2. EntryOf(t, x[i])
    BY <1>4, <2>1 DEF EntryOf
  <2> QED
    BY <2>2 DEF t
<1> HIDE DEF table, encs
<1>7. table \in Seq(ToSet(table)) /\ Len(table) = n
  BY <1>3, <1>5, IsSequence
<1>8. \E T : blob \in Seq(T)
  <2> DEFINE T == UNION {ToSet(encs[i]) : i \in 1 .. n}
             S == Seq(T)
             lens == [i \in 1 .. n |-> Len(encs[i])]
  <2>1. \A i \in 1 .. n : encs[i] \in Seq(T) /\ Len(encs[i]) \in Nat
    <3> TAKE i \in 1 .. n
    <3>1. encs[i] \in Seq(ToSet(encs[i]))
      BY <1>4, <1>5, SeqIsOfItself DEF AreBlocks
    <3>2. ToSet(encs[i]) \subseteq T
      OBVIOUS
    <3>3. Len(encs[i]) \in Nat
      BY <3>1, LenProperties
    <3> HIDE DEF T
    <3> QED
      BY <3>1, <3>2, <3>3, SeqMonotonic
  <2> HIDE DEF T
  <2>2. encs \in Seq(S) /\ Len(encs) = n
    <3>1. \A i \in 1 .. n : encs[i] \in S
      BY <2>1
    <3> HIDE DEF S
    <3> QED
      BY <1>3, <1>5, <3>1
  <2>3. lens \in [1 .. n -> Nat] /\ \A i \in 1 .. n : lens[i] = Len(encs[i])
    BY <2>1
  <2> HIDE DEF lens
  <2>4. PICK sums : Sums(sums, lens, n)
    BY <1>3, <2>3, SumsExist
  <2>5. /\ sums \in [1 .. Len(encs) + 1 -> Nat] /\ sums[1] = 0
        /\ \A i \in 1 .. Len(encs) : sums[i + 1] = sums[i] + Len(encs[i])
    BY <2>2, <2>3, <2>4 DEF Sums
  <2>6. Puts(FlattenSeq(encs), T, encs, sums)
    BY <2>2, <2>5, FlattenAt
  <2> QED
    BY <2>6 DEF Puts
<1> HIDE DEF blob
<1>9. PICK T : blob \in Seq(T)
  BY <1>8
<1>10. IsContainer(c) /\ c.table = table /\ c.prelude.target = Blocks(l)
  BY <1>2, <1>3, <1>7, <1>9, PartsAre
<1> QED
  BY <1>0, <1>3, <1>6, <1>7, <1>10 DEF PacksTheGraph, l, x, n

\* An entry of an accepted table, and what it describes of the image.
EntryDescribes(t, image) ==
  /\ t.offset \in Nat /\ t.len \in Nat \ {0} /\ t.len <= MaxExtent
  /\ AreBlocks(t.sha) /\ Len(t.sha) = t.len
  /\ AreBlocks(t.encoded_sha) /\ Len(t.encoded_sha) = t.encoded_len /\ t.encoded_len \in Nat
  /\ t.kind = "zero" => t.sha = [b \in 1 .. t.len |-> ZeroBlock]
  /\ t.kind = "raw" => t.encoded_sha = t.sha
  /\ t.kind = "zstd" => Decoded(t.encoded_sha, t.len) = {t.sha}
  /\ \A k \in 1 .. t.len : \A j \in 1 .. BlockSectors :
        t.sha[k][j] = image[(t.offset + k - 1) * BlockSectors + j - 1]

\* What a packed container is, without the extents that it was packed from.
ContainerIs(c, blocks, image) ==
  /\ Tiled(c.table, blocks) /\ Apart(c.table) /\ Kinds(c.table)
  /\ BlobEnd(c.table) <= Len(c.blob)
  /\ c.prelude.table_sha = c.table /\ c.prelude.manifest_sha = c.manifest /\ c.manifest # Noise
  /\ c.manifest.target = blocks /\ c.manifest.minimum = blocks
  /\ \A i \in 1 .. Len(c.table) :
        /\ EntryDescribes(c.table[i], image)
        /\ Nonzero(c.table[i]) => BlobOf(c, c.table[i]) = c.table[i].encoded_sha

\* A container that packs the graph of two files describes their image.
LEMMA PackedContainer ==
  ASSUME NEW c, NEW e, NEW r, PacksTheGraph(c, e, r)
  PROVE  ContainerIs(c, Blocks(InstalledGptLayout(Len(r))),
                     write_installed_gpt_image(InstalledGptLayout(Len(r)), e, r))
<1> DEFINE l == InstalledGptLayout(Len(r))
           x == for_each_extent(l, e, r)
           n == Len(c.table)
           p == c.prelude
           image == write_installed_gpt_image(l, e, r)
<1>1. /\ e \in EspFiles /\ r \in RootFiles /\ GraphReads(l, e, r)
      /\ IsContainer(c)
      /\ c.table \in Seq(ToSet(c.table)) /\ n = Len(x)
      /\ \A i \in 1 .. n : EntryOf(c.table[i], x[i])
      /\ p.target = Blocks(l)
      /\ Accepts(c, p.total)
  BY DEF PacksTheGraph
<1>2. OfTheGraph(x, l, e, r)
  BY <1>1, GraphExtents
<1>3. Len(r) \in Nat \ {0} /\ Blocks(l) \in Nat
  <2>1. Len(r) \in Nat \ {0}
    BY <1>1, FilesAre
  <2> QED
    BY <1>1, <2>1, WholeBlocks
<1> HIDE DEF l, x, n, image
<1>4. n \in Nat /\ DOMAIN c.table = 1 .. n
  BY <1>1, SeqOfItself DEF n
<1>5. /\ parse_prelude(p, p.total) /\ validate_manifest(c.manifest, p)
      /\ c.table = p.table_sha /\ validate_entries_metadata(c.table, p)
  BY <1>1 DEF Accepts, AcceptsMetadata
<1>6. /\ p.omitted = saturating_sub(p.target, p.planned) /\ p.omitted = 0
      /\ p.target = p.minimum
  BY <1>5 DEF parse_prelude
<1>7. \A i \in 1 .. n :
        /\ x[i].offset \in Nat /\ AreBlocks(x[i].bytes)
        /\ 0 < Len(x[i].bytes) /\ Len(x[i].bytes) <= MaxExtent
        /\ Len(x[i].bytes) \in Nat
        /\ \A k \in 1 .. Len(x[i].bytes) : \A j \in 1 .. BlockSectors :
              x[i].bytes[k][j] = image[(x[i].offset + k - 1) * BlockSectors + j - 1]
  <2>1. \A i \in 1 .. n :
          /\ x[i].offset \in Nat /\ AreBlocks(x[i].bytes)
          /\ 0 < Len(x[i].bytes) /\ Len(x[i].bytes) <= MaxExtent
          /\ \A k \in 1 .. Len(x[i].bytes) : \A j \in 1 .. BlockSectors :
                x[i].bytes[k][j] = image[(x[i].offset + k - 1) * BlockSectors + j - 1]
    BY <1>1, <1>2 DEF OfTheGraph, image
  <2>2. \A bytes : AreBlocks(bytes) => Len(bytes) \in Nat
    BY LenProperties DEF AreBlocks
  <2> QED
    BY <2>1, <2>2
<1>8. ASSUME NEW i \in 1 .. n
      PROVE  /\ EntryDescribes(c.table[i], image)
             /\ Nonzero(c.table[i]) => BlobOf(c, c.table[i]) = c.table[i].encoded_sha
  <2> DEFINE t == c.table[i]
  <2>1. /\ t.offset = x[i].offset /\ t.len = Len(x[i].bytes) /\ t.sha = x[i].bytes
        /\ t.encoded_len = Len(t.encoded_sha) /\ AreBlocks(t.encoded_sha)
        /\ t.kind = "zstd" => Decoded(t.encoded_sha, t.len) = {t.sha}
    BY <1>1 DEF EntryOf
  <2>2. t.encoded_len \in Nat
    BY <2>1, LenProperties DEF AreBlocks
  <2>3. /\ Nonzero(t) => BlobOf(c, t) = t.encoded_sha
        /\ t.sha \in CASE t.kind = "zero" -> {[b \in 1 .. t.len |-> ZeroBlock]}
                       [] t.kind = "raw" -> {BlobOf(c, t)}
                       [] t.kind = "zstd" -> Decoded(BlobOf(c, t), t.len)
    BY <1>1, <1>4 DEF Accepts
  <2> HIDE DEF t
  <2>4. t.kind = "zero" => t.sha = [b \in 1 .. t.len |-> ZeroBlock]
    BY <2>3
  <2>5. t.kind = "raw" => t.encoded_sha = t.sha
    <3> SUFFICES ASSUME t.kind = "raw" PROVE t.encoded_sha = t.sha
      OBVIOUS
    <3>1. Nonzero(t) /\ t.kind # "zero"
      BY DEF Nonzero
    <3> QED
      BY <2>3, <3>1
  <2>6. /\ t.offset \in Nat /\ t.len \in Nat \ {0} /\ t.len <= MaxExtent
        /\ AreBlocks(t.sha) /\ Len(t.sha) = t.len
    BY <1>7, <2>1
  <2>7. \A k \in 1 .. t.len : \A j \in 1 .. BlockSectors :
           t.sha[k][j] = image[(t.offset + k - 1) * BlockSectors + j - 1]
    BY <1>7, <2>1
  <2>8. EntryDescribes(t, image)
    BY <2>1, <2>2, <2>4, <2>5, <2>6, <2>7 DEF EntryDescribes
  <2> QED
    BY <2>3, <2>8 DEF t
<1>9. Tiled(c.table, Blocks(l)) /\ Apart(c.table) /\ Kinds(c.table)
  <2>1. \A i \in 1 .. Len(c.table) :
          {c.table[i].offset, c.table[i].len, c.table[i].encoded_len} \subseteq Nat
    BY <1>8 DEF EntryDescribes, n
  <2>2. p.target \in Nat
    BY <1>1, <1>3
  <2>3. Tiled(c.table, p.target) /\ Apart(c.table) /\ Kinds(c.table)
    BY <1>1, <1>5, <1>6, <2>1, <2>2, AcceptedTables
  <2> QED
    BY <1>1, <2>3
<1>10. BlobEnd(c.table) <= Len(c.blob)
  BY <1>1, <1>5 DEF validate_entries_metadata, IsContainer
<1>11. /\ p.manifest_sha = c.manifest /\ c.manifest # Noise
       /\ c.manifest.target = Blocks(l) /\ c.manifest.minimum = Blocks(l)
  <2>1. /\ c.manifest = p.manifest_sha /\ c.manifest # Noise
        /\ \A f \in DOMAIN c.manifest : c.manifest[f] = p[f]
    BY <1>5 DEF validate_manifest
  <2>2. "target" \in DOMAIN c.manifest /\ "minimum" \in DOMAIN c.manifest
    BY <1>1 DEF IsContainer
  <2> QED
    BY <1>1, <1>6, <2>1, <2>2
<1>12. ContainerIs(c, Blocks(l), image)
  BY <1>5, <1>8, <1>9, <1>10, <1>11 DEF ContainerIs, n
<1> QED
  BY <1>12 DEF l, image

\* The extents of a packed container put together are the image.
LEMMA ContainerHoldsTheImage ==
  ASSUME NEW c, NEW n, NEW image, ContainerIs(c, n, image)
  PROVE  FlattenSeq([i \in DOMAIN c.table |-> FlattenSeq(c.table[i].sha)])
            = [s \in 1 .. n * BlockSectors |-> image[s - 1]]
<1> DEFINE t == c.table
           m == Len(t)
           B == BlockSectors
           flats == [i \in DOMAIN t |-> FlattenSeq(t[i].sha)]
           T == UNION {Sectors(t[i].sha) : i \in 1 .. m}
           S == Seq(T)
           flat == FlattenSeq(flats)
<1>1. m \in Nat /\ DOMAIN t = 1 .. m /\ n \in Nat /\ B \in Nat \ {0}
  BY SeqOfItself, Room DEF ContainerIs, Tiled
<1>2. PICK off : Offsets(off, t, n)
  BY TiledOffsets DEF ContainerIs
<1>3. \A i \in 1 .. m : EntryDescribes(t[i], image)
  BY DEF ContainerIs
<1>4. /\ off \in [1 .. m + 1 -> Nat] /\ off[1] = 0 /\ off[m + 1] = n
      /\ \A i \in 1 .. m : /\ t[i].offset = off[i] /\ off[i + 1] = off[i] + t[i].len
                           /\ t[i].len \in Nat \ {0} /\ off[i] \in Nat
  <2>1. \A i \in 1 .. m : i \in 1 .. m + 1
    BY <1>1
  <2> QED
    BY <1>2, <2>1 DEF Offsets
<1>5. flats = [i \in 1 .. m |-> flats[i]] /\ \A i \in 1 .. m : flats[i] = FlattenSeq(t[i].sha)
  BY <1>1
<1> HIDE DEF flats, flat
<1>6. ASSUME NEW i \in 1 .. m
      PROVE  /\ flats[i] \in S /\ Len(flats[i]) = t[i].len * B
             /\ \A k \in 1 .. t[i].len : \A j \in 1 .. B :
                   /\ (k - 1) * B + j \in 1 .. t[i].len * B
                   /\ flats[i][(k - 1) * B + j] = image[(t[i].offset + k - 1) * B + j - 1]
  <2>1. AreBlocks(t[i].sha) /\ Len(t[i].sha) = t[i].len
    BY <1>3 DEF EntryDescribes
  <2>2. Flat(t[i].sha, t[i].len)
    BY <2>1, BlocksAreFlat
  <2>3. /\ FlattenSeq(t[i].sha) \in Seq(Sectors(t[i].sha))
        /\ Len(FlattenSeq(t[i].sha)) = t[i].len * B
        /\ \A k \in 1 .. t[i].len : \A j \in 1 .. B :
              /\ (k - 1) * B + j \in 1 .. t[i].len * B
              /\ FlattenSeq(t[i].sha)[(k - 1) * B + j] = t[i].sha[k][j]
    BY <2>2 DEF Flat
  <2>4. Sectors(t[i].sha) \subseteq T
    OBVIOUS
  <2>5. \A k \in 1 .. t[i].len : \A j \in 1 .. B :
           t[i].sha[k][j] = image[(t[i].offset + k - 1) * B + j - 1]
    BY <1>3 DEF EntryDescribes
  <2> HIDE DEF T
  <2>6. FlattenSeq(t[i].sha) \in Seq(T)
    BY <2>3, <2>4, SeqMonotonic
  <2>7. \A k \in 1 .. t[i].len : \A j \in 1 .. B :
           /\ (k - 1) * B + j \in 1 .. t[i].len * B
           /\ FlattenSeq(t[i].sha)[(k - 1) * B + j] = image[(t[i].offset + k - 1) * B + j - 1]
    BY ONLY <2>3, <2>5
  <2>8. flats[i] = FlattenSeq(t[i].sha)
    BY <1>5
  <2> QED
    BY ONLY <2>3, <2>6, <2>7, <2>8 DEF S
<1> HIDE DEF T
<1>7. flats \in Seq(S) /\ Len(flats) = m
  <2>1. \A i \in 1 .. m : flats[i] \in S
    BY <1>6
  <2> HIDE DEF S
  <2> QED
    BY ONLY <1>1, <1>5, <2>1, SMTT(30)
<1> DEFINE at == [i \in 1 .. m + 1 |-> off[i] * B]
<1>8. at \in [1 .. m + 1 -> Nat]
  <2>1. \A i \in 1 .. m + 1 : off[i] * B \in Nat
    BY <1>1, <1>4
  <2> QED
    BY <2>1
<1>9. at[1] = 0 /\ at[m + 1] = n * B /\ \A i \in 1 .. m : at[i] = off[i] * B
  <2>1. 1 \in 1 .. m + 1 /\ m + 1 \in 1 .. m + 1 /\ \A i \in 1 .. m : i \in 1 .. m + 1
    BY <1>1
  <2>2. 0 * B = 0
    BY <1>1
  <2> QED
    BY <1>4, <2>1, <2>2
<1>10. \A i \in 1 .. m : at[i + 1] = at[i] + Len(flats[i])
  <2> TAKE i \in 1 .. m
  <2>1. i + 1 \in 1 .. m + 1
    BY <1>1
  <2>2. at[i + 1] = off[i + 1] * B
    BY <2>1
  <2>3. off[i + 1] = off[i] + t[i].len /\ off[i] \in Nat /\ t[i].len \in Nat
    BY <1>4
  <2>4. (off[i] + t[i].len) * B = off[i] * B + t[i].len * B
    <3> DEFINE u == off[i]
               v == t[i].len
    <3>1. u \in Nat /\ v \in Nat /\ B \in Nat
      BY <1>1, <2>3
    <3> HIDE DEF u, v, B
    <3>2. (u + v) * B = u * B + v * B
      BY ONLY <3>1
    <3> QED
      BY ONLY <3>2 DEF u, v
  <2> HIDE DEF at
  <2> QED
    BY <1>6, <1>9, <2>2, <2>3, <2>4
<1> HIDE DEF at
<1>11. /\ flat \in Seq(T) /\ Len(flat) = n * B
       /\ \A i \in 1 .. m : \A k \in 1 .. Len(flats[i]) :
             flat[at[i] + k] = flats[i][k]
  <2>1. flats \in Seq(Seq(T)) /\ at \in [1 .. Len(flats) + 1 -> Nat] /\ at[1] = 0
    BY <1>7, <1>8, <1>9
  <2>2. \A i \in 1 .. Len(flats) : at[i + 1] = at[i] + Len(flats[i])
    BY <1>7, <1>10
  <2>3. Puts(FlattenSeq(flats), T, flats, at)
    BY <2>1, <2>2, FlattenAt
  <2> QED
    BY ONLY <1>7, <1>9, <2>3 DEF flat, Puts
<1>12. ASSUME NEW s \in 1 .. n * B PROVE flat[s] = image[s - 1]
  <2>1. PICK b \in 1 .. n, j \in 1 .. B : s = (b - 1) * B + j
    BY <1>1, BlockOf
  <2>2. b - 1 \in Nat /\ b - 1 < n
    BY <1>1
  <2>3. PICK i \in 1 .. m : off[i] <= b - 1 /\ b - 1 < off[i + 1]
    BY <1>1, <1>4, <2>2, Between
  <2> DEFINE k == b - off[i]
             o == off[i]
             u == t[i].len
  <2>4. o \in Nat /\ u \in Nat /\ o <= b - 1 /\ b - 1 < o + u /\ t[i].offset = o
    BY <1>4, <2>3
  <2>5. k = b - o
    OBVIOUS
  <2> HIDE DEF k, o, u
  <2>6. k \in 1 .. u /\ o + k = b
    BY ONLY <2>4, <2>5, <1>1, b \in 1 .. n
  <2>7. /\ (k - 1) * B + j \in 1 .. u * B
        /\ flats[i][(k - 1) * B + j] = image[(o + k - 1) * B + j - 1]
        /\ Len(flats[i]) = u * B
    BY <1>6, <2>4, <2>6 DEF u
  <2>8. flat[at[i] + ((k - 1) * B + j)] = flats[i][(k - 1) * B + j]
    BY <1>11, <2>7
  <2>9. at[i] = o * B
    BY <1>9 DEF o
  <2>10. o * B + ((k - 1) * B + j) = s
    <3>1. b - 1 = o + (k - 1) /\ k - 1 \in Nat
      BY ONLY <2>4, <2>6
    <3>2. (o + (k - 1)) * B = o * B + (k - 1) * B
      BY ONLY <1>1, <2>4, <3>1
    <3>3. s = (o * B + (k - 1) * B) + j
      BY ONLY <2>1, <3>1, <3>2
    <3>4. o * B \in Nat /\ (k - 1) * B \in Nat
      BY ONLY <1>1, <2>4, <3>1
    <3> QED
      BY ONLY <3>3, <3>4, j \in 1 .. B, <1>1
  <2>11. (o + k - 1) * B + j - 1 = s - 1
    <3>1. o + k - 1 = b - 1
      BY ONLY <2>4, <2>6
    <3> QED
      BY ONLY <2>1, <3>1, <1>1, <2>2, j \in 1 .. B
  <2> QED
    BY <2>7, <2>8, <2>9, <2>10, <2>11
<1>13. flat = [s \in 1 .. n * B |-> flat[s]]
  BY <1>11
<1>14. flat = [s \in 1 .. n * B |-> image[s - 1]]
  <2> DEFINE D == 1 .. n * B
  <2>1. flat = [s \in D |-> flat[s]] /\ \A s \in D : flat[s] = image[s - 1]
    BY <1>12, <1>13
  <2> HIDE DEF D
  <2> QED
    BY <2>1 DEF D
<1> QED
  BY <1>14 DEF flat, flats

-----------------------------------------------------------------------------
(* The medium.                                                             *)

\* The segments behind the MBR.
LEMMA TailOfFive ==
  ASSUME NEW a, NEW b, NEW c, NEW d, NEW e
  PROVE  ToSet(Tail(<<a, b, c, d, e>>)) = {b, c, d, e}
<1> DEFINE s == <<a, b, c, d, e>>
<1>1. Len(s) = 5 /\ s[2] = b /\ s[3] = c /\ s[4] = d /\ s[5] = e
  OBVIOUS
<1>2. Tail(s) = [i \in 1 .. 4 |-> s[i + 1]]
  <2>1. s \in Seq({a, b, c, d, e}) /\ s # <<>>
    OBVIOUS
  <2>2. Len(Tail(s)) = 4 /\ \A i \in 1 .. 4 : Tail(s)[i] = s[i + 1]
    OBVIOUS
  <2> QED
    BY <2>1, <2>2
<1> QED
  BY <1>1, <1>2 DEF ToSet

\* Where the payload of a medium begins.
PayloadStart == LeadingGap + BootSectors
\* A medium with one part where its payload should be, and what that part is.
Ships(m, c) ==
  /\ m = [sectors |-> m.sectors, mbr |-> m.mbr, parts |-> m.parts]
  /\ \E part \in m.parts :
        /\ part = [offset |-> PayloadStart, len |-> part.len, what |-> c]
        /\ \A x \in m.parts : x.offset = PayloadStart => x = part

\* The payload that is found on a medium is the one that it ships.
LEMMA PayloadIs ==
  ASSUME NEW m, NEW c, Ships(m, c)
  PROVE  PayloadAt(m, PayloadStart) = c
<1>1. PICK part \in m.parts :
        /\ part = [offset |-> PayloadStart, len |-> part.len, what |-> c]
        /\ \A x \in m.parts : x.offset = PayloadStart => x = part
  BY DEF Ships
<1>2. part.offset = PayloadStart /\ part.what = c
  BY <1>1
<1> HIDE DEF PayloadStart
<1>3. (CHOOSE x \in m.parts : x.offset = PayloadStart) = part
  BY <1>1, <1>2
<1> QED
  BY <1>2, <1>3 DEF PayloadAt

\* The layout of the medium, and its segments but for the first.
LEMMA SegmentsAre ==
  ASSUME NEW n, NEW c
  PROVE  LET l == InstallerMbrLayout(n)
             segments == final_installer_composite_manifest(l, c)
         IN  /\ segments[1].what = installer_mbr_sector(l)
             /\ ToSet(Tail(segments)) =
                  {[offset |-> 1, len |-> LeadingGap - 1, what |-> Zero],
                   [offset |-> LeadingGap, len |-> BootSectors, what |-> pack_installer_boot_fat32],
                   [offset |-> PayloadStart, len |-> n, what |-> c],
                   [offset |-> PayloadStart + n, len |-> TrailingGap, what |-> Zero]}
<1> DEFINE l == InstallerMbrLayout(n)
           s1 == [offset |-> 0, len |-> 1, what |-> installer_mbr_sector(l)]
           s2 == [offset |-> 1, len |-> LeadingGap - 1, what |-> Zero]
           s3 == [offset |-> l.boot.start, len |-> l.boot.len, what |-> pack_installer_boot_fat32]
           s4 == [offset |-> l.payload.start, len |-> l.payload.len, what |-> c]
           s5 == [offset |-> l.payload.start + l.payload.len, len |-> TrailingGap, what |-> Zero]
<1>1. final_installer_composite_manifest(l, c) = <<s1, s2, s3, s4, s5>>
  <2> HIDE DEF l
  <2> QED
    BY DEF final_installer_composite_manifest
<1>2. /\ l.boot.start = LeadingGap /\ l.boot.len = BootSectors
      /\ l.payload.start = PayloadStart /\ l.payload.len = n
  BY DEF InstallerMbrLayout, PayloadStart
<1>3. s1.what = installer_mbr_sector(l)
  BY ONLY TRUE
<1> HIDE DEF l
<1>4. /\ s3 = [offset |-> LeadingGap, len |-> BootSectors, what |-> pack_installer_boot_fat32]
      /\ s4 = [offset |-> PayloadStart, len |-> n, what |-> c]
      /\ s5 = [offset |-> PayloadStart + n, len |-> TrailingGap, what |-> Zero]
  BY ONLY <1>2
<1> HIDE DEF s1, s3, s4, s5, s2
<1>5. <<s1, s2, s3, s4, s5>>[1] = s1 /\ ToSet(Tail(<<s1, s2, s3, s4, s5>>)) = {s2, s3, s4, s5}
  BY TailOfFive
<1> QED
  BY ONLY <1>1, <1>3, <1>4, <1>5 DEF l, s2

\* The parts of a medium that is made for a payload.
LEMMA MediumIs ==
  ASSUME NEW c, c # Zero
  PROVE  LET l == InstallerMbrLayout(c.prelude.total \div Alignment)
         IN  /\ Medium(c) = [sectors |-> l.image, mbr |-> installer_mbr_sector(l),
                             parts |-> Medium(c).parts]
             /\ Medium(c).parts =
                  {[offset |-> LeadingGap, len |-> BootSectors, what |-> pack_installer_boot_fat32],
                   [offset |-> PayloadStart, len |-> c.prelude.total \div Alignment, what |-> c]}
<1> DEFINE n == c.prelude.total \div Alignment
           l == InstallerMbrLayout(n)
           s == final_installer_composite_manifest(l, c)
           s2 == [offset |-> 1, len |-> LeadingGap - 1, what |-> Zero]
           s3 == [offset |-> LeadingGap, len |-> BootSectors, what |-> pack_installer_boot_fat32]
           s4 == [offset |-> PayloadStart, len |-> n, what |-> c]
           s5 == [offset |-> PayloadStart + n, len |-> TrailingGap, what |-> Zero]
           parts == {x \in ToSet(Tail(s)) : x.what # Zero}
<1>1. Medium(c) = [sectors |-> l.image, mbr |-> s[1].what, parts |-> parts]
  BY DEF Medium, materialize_composite_file
<1>2. s[1].what = installer_mbr_sector(l) /\ ToSet(Tail(s)) = {s2, s3, s4, s5}
  BY SegmentsAre
<1>3. s2.what = Zero /\ s3.what = pack_installer_boot_fat32 /\ s4.what = c /\ s5.what = Zero
  OBVIOUS
<1>4. pack_installer_boot_fat32 # Zero
  <2>1. "label" \in DOMAIN pack_installer_boot_fat32
    BY DEF pack_installer_boot_fat32, create_fat32_image
  <2>2. DOMAIN Zero = {"zero"} /\ "label" \notin {"zero"}
    BY DEF Zero
  <2> QED
    BY <2>1, <2>2
<1> HIDE DEF n, l, s, s2, s3, s4, s5
<1>5. parts = {s3, s4}
  BY <1>2, <1>3, <1>4
<1> HIDE DEF parts
<1>6. Medium(c) = [sectors |-> l.image, mbr |-> installer_mbr_sector(l), parts |-> Medium(c).parts]
      /\ Medium(c).parts = {s3, s4}
  BY <1>1, <1>2, <1>5
<1> QED
  BY ONLY <1>6 DEF n, l, s3, s4

\* It ships the payload it is made for.
LEMMA MediumShips ==
  ASSUME NEW c, c # Zero
  PROVE  Ships(Medium(c), c)
<1> DEFINE n == c.prelude.total \div Alignment
           l == InstallerMbrLayout(n)
           m == Medium(c)
           s3 == [offset |-> LeadingGap, len |-> BootSectors, what |-> pack_installer_boot_fat32]
           s4 == [offset |-> PayloadStart, len |-> n, what |-> c]
<1>1. m = [sectors |-> l.image, mbr |-> installer_mbr_sector(l), parts |-> m.parts]
      /\ m.parts = {s3, s4}
  BY MediumIs
<1>2. s3.offset = LeadingGap /\ s4.offset = PayloadStart /\ s4.len = n
  OBVIOUS
<1>3. LeadingGap # PayloadStart
  <2>1. LeadingGap \in Nat /\ BootSectors \in Nat \ {0}
    BY GapsHoldTheTables
  <2> QED
    BY ONLY <2>1 DEF PayloadStart
<1>4. s4 = [offset |-> PayloadStart, len |-> s4.len, what |-> c]
  BY <1>2
<1> HIDE DEF m, l, n, s3, s4, PayloadStart
<1>5. m = [sectors |-> m.sectors, mbr |-> m.mbr, parts |-> m.parts]
  BY <1>1
<1>6. \A x \in m.parts : x.offset = PayloadStart => x = s4
  BY <1>1, <1>2, <1>3
<1>7. s4 \in m.parts
  BY <1>1
<1>8. Ships(m, c)
  BY <1>4, <1>5, <1>6, <1>7 DEF Ships
<1> QED
  BY <1>8 DEF m

\* A medium that passes the light check passes the full one.
LEMMA ProbedIsChecked ==
  ASSUME NEW c, c # Zero, c.prelude.total \in Nat, Probed(Medium(c))
  PROVE  check_installer_image(Medium(c), c)
<1> DEFINE n == c.prelude.total \div Alignment
           l == InstallerMbrLayout(n)
           m == Medium(c)
           s3 == [offset |-> LeadingGap, len |-> BootSectors, what |-> pack_installer_boot_fat32]
           s4 == [offset |-> PayloadStart, len |-> n, what |-> c]
<1>1. m.sectors = l.image /\ m.mbr = installer_mbr_sector(l) /\ m.parts = {s3, s4}
  <2>1. m = [sectors |-> l.image, mbr |-> installer_mbr_sector(l), parts |-> m.parts]
        /\ m.parts = {s3, s4}
    BY MediumIs
  <2> HIDE DEF m, l, s3, s4
  <2> QED
    BY <2>1
<1>2. /\ l.boot.start = LeadingGap /\ l.payload.start = PayloadStart
      /\ l.image = LeadingGap + BootSectors + n + TrailingGap
  BY DEF InstallerMbrLayout, PayloadStart
<1>3. /\ s3.offset = LeadingGap /\ s3.len = BootSectors /\ s3.what = pack_installer_boot_fat32
      /\ s4.offset = PayloadStart /\ s4.len = n /\ s4.what = c
  OBVIOUS
<1>4. LeadingGap \in Nat /\ BootSectors \in Nat \ {0} /\ TrailingGap \in Nat /\ n \in Nat
  <2>1. Alignment \in Nat \ {0}
    BY Sizes
  <2>2. n \in Nat
    BY <2>1, DivMod
  <2> QED
    BY <2>2, GapsHoldTheTables
<1> HIDE DEF m, l, n, s3, s4
<1>5. read_mbr_entries(m.mbr, m.sectors) = m.mbr
  <2>1. read_mbr_entries(m.mbr, m.sectors) # None
    BY DEF Probed, m
  <2> QED
    BY <2>1 DEF read_mbr_entries
<1>6. PayloadAt(m, PayloadStart) = c
  BY MediumShips, PayloadIs DEF m
<1>7. PayloadAt(m, LeadingGap) = pack_installer_boot_fat32
  <2>1. LeadingGap # PayloadStart
    BY ONLY <1>4 DEF PayloadStart
  <2>2. s3 \in m.parts /\ \A x \in m.parts : x.offset = LeadingGap => x = s3
    BY <1>1, <1>3, <2>1
  <2>3. (CHOOSE x \in m.parts : x.offset = LeadingGap) = s3
    BY <1>3, <2>2
  <2> QED
    BY <1>3, <2>2, <2>3 DEF PayloadAt
<1>8. \A x \in m.parts : x.offset + x.len <= l.image - TrailingGap
  <2>1. l.image - TrailingGap = LeadingGap + BootSectors + n
    BY ONLY <1>2, <1>4
  <2>2. LeadingGap + BootSectors <= LeadingGap + BootSectors + n
        /\ PayloadStart + n <= LeadingGap + BootSectors + n
    BY ONLY <1>4 DEF PayloadStart
  <2> QED
    BY <1>1, <1>3, <2>1, <2>2
<1>9. pack_installer_boot_fat32 =
        [label |-> "YAOSHI_BOOT",
         files |-> {"BOOTX64.EFI", "loader.conf", "yaoshi-installer.conf", "VMLINUZ",
                    "KERNEL-RELEASE", "INSTALLER-BASE.CPIO.ZST", "INSTALLER-APP.CPIO.ZST"}]
  BY DEF pack_installer_boot_fat32, create_fat32_image
<1>10. check_installer_image(m, c)
  BY <1>1, <1>2, <1>5, <1>6, <1>7, <1>8, <1>9 DEF check_installer_image, l, n
<1> QED
  BY <1>10 DEF m

\* What decay leaves of a container: its shape, two of its digests, and blobs
\* that are what they were or noise.
LeftOf(c, k) ==
  /\ c = [prelude |-> c.prelude, manifest |-> c.manifest, table |-> c.table, blob |-> c.blob]
  /\ c.prelude = [f \in DOMAIN k.prelude |-> c.prelude[f]]
  /\ c.prelude.table_sha = k.prelude.table_sha
  /\ c.prelude.manifest_sha = k.prelude.manifest_sha
  /\ c.blob = [i \in DOMAIN k.blob |-> c.blob[i]]
  /\ \A i \in DOMAIN k.blob : c.blob[i] \in {k.blob[i], NoiseBlock}

\* Nothing has decayed of a container that is as it was packed.
LEMMA AllIsLeft ==
  ASSUME NEW k, IsContainer(k)
  PROVE  LeftOf(k, k)
<1>1. k.blob = [i \in DOMAIN k.blob |-> k.blob[i]]
  BY SeqOfItself, LenProperties DEF IsContainer
<1> QED
  BY <1>1 DEF IsContainer, LeftOf

\* What one decay leaves of a container, is left of what it was a rest of;
\* blobs that were not hit are what they were.
Rests(d, c, k) ==
  /\ LeftOf(d, k)
  /\ \A i \in DOMAIN k.blob : d.blob[i] \in {c.blob[i], NoiseBlock}

\* One more decay of what is left leaves less of it.
LEMMA DecayedContainer ==
  ASSUME NEW k, IsContainer(k), NEW c, LeftOf(c, k), NEW d, d = c \/ d \in DecayedPayload(c)
  PROVE  Rests(d, c, k)
<1> DEFINE counts == {"target", "planned", "omitted", "extent_count", "blob_len", "total"}
           places == {"offset", "len", "blob_offset", "encoded_len"}
<1>1. /\ c = [prelude |-> c.prelude, manifest |-> c.manifest, table |-> c.table, blob |-> c.blob]
      /\ c.prelude = [f \in DOMAIN k.prelude |-> c.prelude[f]]
      /\ c.prelude.table_sha = k.prelude.table_sha
      /\ c.prelude.manifest_sha = k.prelude.manifest_sha
      /\ c.blob = [i \in DOMAIN k.blob |-> c.blob[i]]
      /\ \A i \in DOMAIN k.blob : c.blob[i] \in {k.blob[i], NoiseBlock}
  BY DEF LeftOf
<1>2. CASE d = c
  BY <1>1, <1>2 DEF Rests, LeftOf
<1>3. CASE d = [c EXCEPT !.manifest = Noise]
  <2>1. d = [prelude |-> c.prelude, manifest |-> Noise, table |-> c.table, blob |-> c.blob]
    BY <1>1, <1>3
  <2>2. d.prelude = c.prelude /\ d.blob = c.blob /\ d.table = c.table
        /\ d = [prelude |-> d.prelude, manifest |-> d.manifest, table |-> d.table, blob |-> d.blob]
    BY <2>1
  <2> QED
    BY <1>1, <2>2 DEF Rests, LeftOf
<1>4. ASSUME NEW f \in counts, d = [c EXCEPT !.prelude[f] = @ + 1]
      PROVE  Rests(d, c, k)
  <2> DEFINE p == [c.prelude EXCEPT ![f] = c.prelude[f] + 1]
  <2>1. d = [prelude |-> p, manifest |-> c.manifest, table |-> c.table, blob |-> c.blob]
    BY <1>1, <1>4
  <2>2. p = [g \in DOMAIN k.prelude |-> p[g]]
    BY <1>1
  <2>3. p.table_sha = c.prelude.table_sha /\ p.manifest_sha = c.prelude.manifest_sha
    <3>1. "table_sha" \in DOMAIN c.prelude /\ "manifest_sha" \in DOMAIN c.prelude
      BY <1>1 DEF IsContainer
    <3>2. f # "table_sha" /\ f # "manifest_sha"
      OBVIOUS
    <3> QED
      BY <3>1, <3>2
  <2> HIDE DEF p
  <2>4. d.prelude = p /\ d.blob = c.blob
        /\ d = [prelude |-> d.prelude, manifest |-> d.manifest, table |-> d.table, blob |-> d.blob]
    BY <2>1
  <2> QED
    BY <1>1, <2>2, <2>3, <2>4 DEF Rests, LeftOf
<1>5. ASSUME NEW i \in DOMAIN c.table, NEW f \in places, d = [c EXCEPT !.table[i][f] = @ + 1]
      PROVE  Rests(d, c, k)
  <2>1. PICK t : d = [prelude |-> c.prelude, manifest |-> c.manifest, table |-> t, blob |-> c.blob]
    BY <1>1, <1>5
  <2>2. d.prelude = c.prelude /\ d.blob = c.blob
        /\ d = [prelude |-> d.prelude, manifest |-> d.manifest, table |-> d.table, blob |-> d.blob]
    BY <2>1
  <2> QED
    BY <1>1, <2>2 DEF Rests, LeftOf
<1>6. ASSUME NEW i \in DOMAIN c.blob, d = [c EXCEPT !.blob[i] = NoiseBlock]
      PROVE  Rests(d, c, k)
  <2> DEFINE b == [c.blob EXCEPT ![i] = NoiseBlock]
  <2>1. d = [prelude |-> c.prelude, manifest |-> c.manifest, table |-> c.table, blob |-> b]
    BY <1>1, <1>6
  <2>2. b = [j \in DOMAIN k.blob |-> b[j]]
    BY <1>1
  <2>3. \A j \in DOMAIN k.blob : b[j] \in {c.blob[j], NoiseBlock}
    BY <1>1
  <2> HIDE DEF b
  <2>4. d.prelude = c.prelude /\ d.blob = b
        /\ d = [prelude |-> d.prelude, manifest |-> d.manifest, table |-> d.table, blob |-> d.blob]
    BY <2>1
  <2>5. \A j \in DOMAIN k.blob : b[j] \in {k.blob[j], NoiseBlock}
    BY <1>1, <2>3
  <2> QED
    BY <1>1, <2>2, <2>3, <2>4, <2>5 DEF Rests, LeftOf
<1>7. \/ d = c
      \/ d = [c EXCEPT !.manifest = Noise]
      \/ d \in {[c EXCEPT !.prelude[f] = @ + 1] : f \in counts}
      \/ d \in UNION {{[c EXCEPT !.table[i][f] = @ + 1] : f \in places} : i \in DOMAIN c.table}
      \/ d \in {[c EXCEPT !.blob[i] = NoiseBlock] : i \in DOMAIN c.blob}
  <2> DEFINE A == {[c EXCEPT !.manifest = Noise]}
             B == {[c EXCEPT !.prelude[f] = @ + 1] : f \in counts}
             C == UNION {{[c EXCEPT !.table[i][f] = @ + 1] : f \in places} : i \in DOMAIN c.table}
             D == {[c EXCEPT !.blob[i] = NoiseBlock] : i \in DOMAIN c.blob}
  <2>1. DecayedPayload(c) = A \cup B \cup D \cup C
    BY DEF DecayedPayload
  <2>2. d \in A => d = [c EXCEPT !.manifest = Noise]
    OBVIOUS
  <2>3. d = c \/ d = [c EXCEPT !.manifest = Noise] \/ d \in B \/ d \in C \/ d \in D
    <3> HIDE DEF A, B, C, D
    <3> QED
      BY <2>1, <2>2
  <2> QED
    BY ONLY <2>3
<1>8. CASE d \in {[c EXCEPT !.prelude[f] = @ + 1] : f \in counts}
  BY <1>4, <1>8
<1>9. CASE d \in UNION {{[c EXCEPT !.table[i][f] = @ + 1] : f \in places} : i \in DOMAIN c.table}
  <2>1. PICK i \in DOMAIN c.table : d \in {[c EXCEPT !.table[i][f] = @ + 1] : f \in places}
    BY <1>9
  <2>2. PICK f \in places : d = [c EXCEPT !.table[i][f] = @ + 1]
    BY <2>1
  <2> QED
    BY <1>5, <2>2
<1>10. CASE d \in {[c EXCEPT !.blob[i] = NoiseBlock] : i \in DOMAIN c.blob}
  BY <1>6, <1>10
<1> QED
  BY <1>2, <1>3, <1>7, <1>8, <1>9, <1>10

\* A decay of the medium leaves a payload where there was one.
LEMMA DecayedMedium ==
  ASSUME NEW k, IsContainer(k), NEW c, LeftOf(c, k), NEW m, Ships(m, c), NEW n, n \in Decayed(m)
  PROVE  \E d : Ships(n, d) /\ Rests(d, c, k)
<1>1. PICK part \in m.parts :
        /\ part = [offset |-> PayloadStart, len |-> part.len, what |-> c]
        /\ \A x \in m.parts : x.offset = PayloadStart => x = part
  BY DEF Ships
<1>2. part.offset = PayloadStart /\ part.what = c
  BY <1>1
<1>3. (CHOOSE x \in m.parts : x.offset = LeadingGap + BootSectors) = part
  <2>1. (CHOOSE x \in m.parts : x.offset = PayloadStart) = part
    <3> HIDE DEF PayloadStart
    <3> QED
      BY <1>1, <1>2
  <2> QED
    BY <2>1 DEF PayloadStart
<1> DEFINE With(q, p) == [m EXCEPT !.parts = (@ \ {q}) \cup {[q EXCEPT !.what = p]}]
           any == CHOOSE x \in m.parts : x.offset = LeadingGap + BootSectors
<1>4. m = [sectors |-> m.sectors, mbr |-> m.mbr, parts |-> m.parts]
  BY DEF Ships
<1>5. ASSUME NEW d, Rests(d, c, k), n = With(part, d)
      PROVE  \E e : Ships(n, e) /\ Rests(e, c, k)
  <2> DEFINE q == [offset |-> PayloadStart, len |-> part.len, what |-> d]
             parts == (m.parts \ {part}) \cup {q}
  <2>1. [part EXCEPT !.what = d] = q
    BY <1>1
  <2>2. n = [sectors |-> m.sectors, mbr |-> m.mbr, parts |-> parts]
    BY <1>4, <1>5, <2>1
  <2>3. q.offset = PayloadStart /\ q = [offset |-> PayloadStart, len |-> q.len, what |-> d]
    OBVIOUS
  <2> HIDE DEF q, PayloadStart
  <2>4. \A x \in parts : x.offset = PayloadStart => x = q
    BY <1>1, <2>3
  <2>5. q \in parts
    OBVIOUS
  <2> HIDE DEF parts
  <2>6. n = [sectors |-> n.sectors, mbr |-> n.mbr, parts |-> n.parts] /\ n.parts = parts
    BY <2>2
  <2>7. Ships(n, d)
    BY <2>3, <2>4, <2>5, <2>6 DEF Ships
  <2> QED
    BY <1>5, <2>7
<1>6. ASSUME n.parts = m.parts, n = [sectors |-> n.sectors, mbr |-> n.mbr, parts |-> n.parts]
      PROVE  \E d : Ships(n, d) /\ Rests(d, c, k)
  <2>1. Ships(n, c)
    BY <1>1, <1>6 DEF Ships
  <2>2. Rests(c, c, k)
    BY DecayedContainer
  <2> QED
    BY <2>1, <2>2
<1>7. \/ n \in {[m EXCEPT !.mbr = None], [m EXCEPT !.mbr[2].start = @ + 1],
                [m EXCEPT !.mbr[2].count = @ - 1], [m EXCEPT !.sectors = any.offset]}
      \/ n \in {With(any, p) : p \in DecayedPayload(any.what)}
  BY DEF Decayed
<1>8. CASE n = [m EXCEPT !.mbr = None]
  BY <1>4, <1>6, <1>8
<1>9. CASE n = [m EXCEPT !.mbr[2].start = @ + 1]
  <2>1. PICK x : n = [sectors |-> m.sectors, mbr |-> x, parts |-> m.parts]
    BY <1>4, <1>9
  <2> QED
    BY <1>6, <2>1
<1>10. CASE n = [m EXCEPT !.mbr[2].count = @ - 1]
  <2>1. PICK x : n = [sectors |-> m.sectors, mbr |-> x, parts |-> m.parts]
    BY <1>4, <1>10
  <2> QED
    BY <1>6, <2>1
<1>11. CASE n = [m EXCEPT !.sectors = any.offset]
  <2> HIDE DEF any
  <2> QED
    BY <1>4, <1>6, <1>11
<1>12. CASE n \in {With(any, p) : p \in DecayedPayload(any.what)}
  <2>1. any = part
    BY <1>3
  <2> HIDE DEF any
  <2>2. PICK d \in DecayedPayload(c) : n = With(part, d)
    BY <1>2, <1>12, <2>1
  <2>3. Rests(d, c, k)
    BY DecayedContainer
  <2> QED
    BY <1>5, <2>2, <2>3
<1> QED
  BY <1>7, <1>8, <1>9, <1>10, <1>11, <1>12

-----------------------------------------------------------------------------
(* What an extent of the plan is decoded to.                               *)

\* A slice of a blob area.
LEMMA SliceIs ==
  ASSUME NEW S, NEW blob \in Seq(S), NEW a \in Nat, NEW n \in Nat, a + n <= Len(blob)
  PROVE  /\ SubSeq(blob, a + 1, a + n) \in Seq(S)
         /\ Len(SubSeq(blob, a + 1, a + n)) = n
         /\ \A i \in 1 .. n : SubSeq(blob, a + 1, a + n)[i] = blob[a + i]
<1> DEFINE u == a + 1
           v == a + n
           s == SubSeq(blob, u, v)
<1>1. u \in Int /\ v \in Int /\ v - u + 1 = n
      /\ (IF u <= v THEN v - u + 1 ELSE 0) = n
  OBVIOUS
<1>2. \A i \in u .. v : blob[i] \in S
  <2>1. Len(blob) \in Nat /\ \A i \in 1 .. Len(blob) : blob[i] \in S
    BY LenProperties, ElementOfSeq
  <2>2. \A i \in u .. v : i \in 1 .. Len(blob)
    BY <2>1
  <2> QED
    BY <2>1, <2>2
<1>3. \A i \in 1 .. n : u + i - 1 = a + i
  OBVIOUS
<1> HIDE DEF u, v
<1>4. /\ s \in Seq(S) /\ Len(s) = (IF u <= v THEN v - u + 1 ELSE 0)
      /\ \A i \in 1 .. v - u + 1 : s[i] = blob[u + i - 1]
  BY <1>1, <1>2, SubSeqProperties
<1> HIDE DEF s
<1>5. s \in Seq(S) /\ Len(s) = n /\ \A i \in 1 .. n : s[i] = blob[a + i]
  BY <1>1, <1>3, <1>4
<1> QED
  BY <1>5 DEF s, u, v

\* Blocks of noise or of zeros, so many of them.
LEMMA EqualBlocks ==
  ASSUME NEW n \in Nat
  PROVE  /\ AreBlocks([i \in 1 .. n |-> NoiseBlock]) /\ Len([i \in 1 .. n |-> NoiseBlock]) = n
         /\ AreBlocks([i \in 1 .. n |-> ZeroBlock]) /\ Len([i \in 1 .. n |-> ZeroBlock]) = n
<1>1. AreBlocks([i \in 1 .. n |-> NoiseBlock]) /\ Len([i \in 1 .. n |-> NoiseBlock]) = n
  BY NoiseIsNotOld, Repeated
<1>2. AreBlocks([i \in 1 .. n |-> ZeroBlock]) /\ Len([i \in 1 .. n |-> ZeroBlock]) = n
  BY NoiseIsNotOld, Repeated
<1> QED
  BY <1>1, <1>2

\* Blocks of which some have become noise are blocks.
LEMMA NoisyBlocks ==
  ASSUME NEW bytes, AreBlocks(bytes), NEW noisy, NEW n \in Nat, Len(bytes) = n,
         noisy = [i \in 1 .. n |-> noisy[i]],
         \A i \in 1 .. n : noisy[i] \in {bytes[i], NoiseBlock}
  PROVE  /\ AreBlocks(noisy) /\ Len(noisy) = n
         /\ noisy = bytes \/ (noisy # <<>> /\ NoiseBlock \in ToSet(noisy))
<1> DEFINE T == Sectors(bytes) \cup {Noise}
           F == [1 .. BlockSectors -> T]
           G == [1 .. BlockSectors -> Sectors(bytes)]
<1>1. bytes \in Seq(G) /\ Old \notin T
  BY NoiseIsNotOld DEF AreBlocks
<1>2. \A i \in 1 .. n : bytes[i] \in G
  <2> HIDE DEF G
  <2> QED
    BY <1>1, ElementOfSeq
<1>3. G \subseteq F /\ NoiseBlock \in F
  <2>1. NoiseBlock \in [1 .. BlockSectors -> {Noise}]
    BY NoiseIsNotOld
  <2> QED
    BY <2>1
<1> HIDE DEF F, G, T
<1>4. \A i \in 1 .. n : noisy[i] \in F
  BY <1>2, <1>3
<1>5. noisy \in Seq(F) /\ Len(noisy) = n /\ DOMAIN noisy = 1 .. n
  BY <1>4
<1>6. AreBlocks(noisy)
  BY <1>1, <1>5, BlocksOf DEF F
<1>7. ASSUME noisy # bytes PROVE noisy # <<>> /\ NoiseBlock \in ToSet(noisy)
  <2>1. bytes = [i \in 1 .. n |-> bytes[i]]
    BY <1>1
  <2>2. PICK i \in 1 .. n : noisy[i] # bytes[i]
    BY <1>7, <2>1
  <2>3. noisy[i] = NoiseBlock /\ i \in DOMAIN noisy
    BY <1>5, <2>2
  <2>4. noisy # <<>>
    BY <1>5, <2>2, EmptySeq
  <2> QED
    BY <2>3, <2>4 DEF ToSet
<1> QED
  BY <1>5, <1>6, <1>7

\* What an entry of the table decodes to, whatever became of its blobs: blocks
\* to its length, and its own if the blobs are as they were.
LEMMA OwnBytes ==
  ASSUME NEW k, NEW n, NEW image, IsContainer(k), ContainerIs(k, n, image),
         NEW c, LeftOf(c, k), Payload = c,
         NEW i \in 1 .. Len(k.table), NEW bytes \in Bytes(k.table[i]), bytes # None
  PROVE  /\ AreBlocks(bytes) /\ Len(bytes) = k.table[i].len
         /\ (Nonzero(k.table[i]) => BlobOf(c, k.table[i]) = k.table[i].encoded_sha)
               => bytes = k.table[i].sha
<1> DEFINE t == k.table[i]
           blob == BlobOf(c, t)
<1>1. /\ EntryDescribes(t, image) /\ (Nonzero(t) => BlobOf(k, t) = t.encoded_sha)
      /\ Apart(k.table) /\ Kinds(k.table) /\ BlobEnd(k.table) <= Len(k.blob)
  BY DEF ContainerIs
<1>2. /\ t.len \in Nat /\ AreBlocks(t.sha) /\ Len(t.sha) = t.len
      /\ AreBlocks(t.encoded_sha) /\ Len(t.encoded_sha) = t.encoded_len /\ t.encoded_len \in Nat
      /\ t.kind = "zero" => t.sha = [b \in 1 .. t.len |-> ZeroBlock]
      /\ t.kind = "raw" => t.encoded_sha = t.sha
      /\ t.kind = "zstd" => Decoded(t.encoded_sha, t.len) = {t.sha}
  BY <1>1 DEF EntryDescribes
<1>3. t.kind \in {"zero", "raw", "zstd"} /\ (t.kind = "raw" => t.encoded_len = t.len)
  BY <1>1 DEF Kinds
<1>4. Nonzero(t) => /\ t.blob_offset \in Nat
                    /\ t.blob_offset + t.encoded_len <= BlobEnd(k.table)
  BY <1>1 DEF Apart
<1>5. bytes \in CASE t.kind = "zero" -> {[b \in 1 .. t.len |-> ZeroBlock]}
                  [] t.kind = "raw" -> {blob}
                  [] t.kind = "zstd" -> Decoded(blob, t.len)
  BY DEF Bytes
<1> HIDE DEF t, blob
<1>6. CASE t.kind = "zero"
  <2>1. bytes = [b \in 1 .. t.len |-> ZeroBlock]
    BY <1>5, <1>6
  <2> QED
    BY <1>2, <1>6, <2>1 DEF t
<1>7. ASSUME Nonzero(t)
      PROVE  /\ AreBlocks(blob) /\ Len(blob) = t.encoded_len
             /\ blob = t.encoded_sha \/ (blob # <<>> /\ NoiseBlock \in ToSet(blob))
  <2> DEFINE a == t.blob_offset
             m == t.encoded_len
  <2>1. a \in Nat /\ m \in Nat /\ a + m <= Len(k.blob)
    <3>1. Len(k.blob) \in Nat
      BY SeqOfItself DEF IsContainer
    <3>2. BlobEnd(k.table) <= Len(k.blob) /\ a + m <= BlobEnd(k.table) /\ a \in Nat /\ m \in Nat
      BY <1>1, <1>2, <1>4, <1>7
    <3>3. BlobEnd(k.table) \in Int
      BY <1>1 DEF Apart
    <3> HIDE DEF a, m
    <3> QED
      BY ONLY <3>1, <3>2, <3>3
  <2>2. /\ k.blob \in Seq(ToSet(k.blob)) /\ DOMAIN k.blob = 1 .. Len(k.blob) /\ Len(k.blob) \in Nat
        /\ c.blob = [j \in DOMAIN k.blob |-> c.blob[j]]
        /\ \A j \in DOMAIN k.blob : c.blob[j] \in {k.blob[j], NoiseBlock}
    BY SeqOfItself DEF LeftOf, IsContainer
  <2>3. c.blob \in Seq(ToSet(c.blob)) /\ Len(c.blob) = Len(k.blob)
    BY <2>2, IsSequence
  <2>4. blob = SubSeq(c.blob, a + 1, a + m) /\ t.encoded_sha = SubSeq(k.blob, a + 1, a + m)
    BY <1>1, <1>7 DEF blob, BlobOf
  <2> HIDE DEF a, m
  <2> DEFINE C == ToSet(c.blob)
             K == ToSet(k.blob)
  <2>5. C = ToSet(c.blob) /\ K = ToSet(k.blob)
    OBVIOUS
  <2> HIDE DEF C, K
  <2>6. blob \in Seq(C) /\ Len(blob) = m /\ \A j \in 1 .. m : blob[j] = c.blob[a + j]
    BY <2>1, <2>3, <2>4, <2>5, SliceIs
  <2>7. Len(t.encoded_sha) = m /\ \A j \in 1 .. m : t.encoded_sha[j] = k.blob[a + j]
    BY <2>1, <2>2, <2>4, <2>5, SliceIs
  <2>8. \A j \in 1 .. m : blob[j] \in {t.encoded_sha[j], NoiseBlock}
    <3> TAKE j \in 1 .. m
    <3>1. a + j \in DOMAIN k.blob
      BY <2>1, <2>2
    <3> QED
      BY <2>2, <2>6, <2>7, <3>1
  <2>9. blob = [j \in 1 .. m |-> blob[j]]
    BY <2>6
  <2> QED
    BY <1>2, <2>1, <2>7, <2>8, <2>9, NoisyBlocks DEF m
<1>8. CASE t.kind = "raw"
  <2>1. Nonzero(t) /\ bytes = blob
    BY <1>5, <1>8 DEF Nonzero
  <2> QED
    BY <1>2, <1>3, <1>7, <1>8, <2>1 DEF t, blob
<1>9. CASE t.kind = "zstd"
  <2>1. Nonzero(t) /\ bytes \in Decoded(blob, t.len)
    BY <1>5, <1>9 DEF Nonzero
  <2>2. CASE blob = t.encoded_sha
    <3>1. bytes = t.sha
      BY <1>2, <1>9, <2>1, <2>2
    <3> QED
      BY <1>2, <3>1 DEF t
  <2>3. CASE blob # t.encoded_sha
    <3>1. blob # <<>> /\ NoiseBlock \in ToSet(blob)
      BY <1>7, <2>1, <2>3
    <3>2. bytes = [j \in 1 .. t.len |-> NoiseBlock]
      BY <2>1, <3>1 DEF Decoded
    <3>3. AreBlocks(bytes) /\ Len(bytes) = t.len
      BY <1>2, <3>2, EqualBlocks
    <3> QED
      BY <2>1, <2>3, <3>3 DEF t, blob
  <2> QED
    BY <2>2, <2>3
<1> QED
  BY <1>3, <1>6, <1>8, <1>9

\* The payload of another maker's medium.
Other(t) == write_payload_parts(t[1], [i \in 1 .. BlobEnd(t[1]) |-> NoiseBlock], t[2], None)

\* A medium that this builder did not make ships a container with that table.
LEMMA OtherIs ==
  ASSUME NEW t \in OtherTables
  PROVE  /\ t[1] \in Seq(ToSet(t[1])) /\ t[2] \in Nat /\ BlobEnd(t[1]) \in Nat
         /\ \A i \in 1 .. Len(t[1]) :
               {t[1][i].offset, t[1][i].len, t[1][i].encoded_len} \subseteq Nat
         /\ IsContainer(Other(t)) /\ Other(t).table = t[1]
         /\ Other(t).blob = [i \in 1 .. BlobEnd(t[1]) |-> NoiseBlock]
         /\ Other(t).prelude.target = t[2]
         /\ Ships(OtherMedium(t), Other(t))
<1> DEFINE table == t[1]
           n == Len(table)
           enc == EncodedLens(table)
           N == BlobEnd(table)
           blob == [i \in 1 .. N |-> NoiseBlock]
           c == Other(t)
<1>1. /\ table \in Seq(ToSet(table)) /\ t[2] \in Nat
      /\ \A e \in ToSet(table) : {e.offset, e.len, e.encoded_len, e.blob_offset} \subseteq Nat
  BY TablesAreTables
<1>2. n \in Nat /\ DOMAIN table = 1 .. n /\ \A i \in 1 .. n : table[i] \in ToSet(table)
  BY <1>1, SeqOfItself
<1>3. \A i \in 1 .. n : {table[i].offset, table[i].len, table[i].encoded_len} \subseteq Nat
  BY <1>1, <1>2
<1>4. N \in Nat
  <2>1. N = Total(enc)
    BY DEF BlobEnd, EncodedLens
  <2>2. enc \in [1 .. n -> Nat]
    BY <1>2, <1>3 DEF EncodedLens
  <2> HIDE DEF enc, n, N
  <2>3. PICK sums : Sums(sums, enc, n)
    BY <1>2, <2>2, SumsExist
  <2>4. Total(enc) = sums[n + 1]
    BY <1>2, <2>2, <2>3, TotalIs
  <2>5. sums \in [1 .. n + 1 -> Nat] /\ n + 1 \in 1 .. n + 1
    BY <1>2, <2>3 DEF Sums
  <2> QED
    BY <2>1, <2>4, <2>5
<1>5. c = write_payload_parts(table, blob, t[2], None)
  BY DEF Other
<1>6. OtherMedium(t) = Medium(c)
  BY DEF OtherMedium, Other
<1> HIDE DEF n, N, c, table
<1>7. blob \in Seq({NoiseBlock})
  BY <1>4
<1>8. blob = [i \in 1 .. N |-> NoiseBlock]
  OBVIOUS
<1> HIDE DEF blob
<1>9. IsContainer(c) /\ c.table = table /\ c.blob = blob /\ c.prelude.target = t[2]
  <2>1. Len(table) \in Nat
    BY <1>2 DEF n
  <2> QED
    BY <1>5, <1>7, <2>1, PartsAre
<1>10. c # Zero
  <2>1. "prelude" \in DOMAIN c
    <3>1. c = [prelude |-> c.prelude, manifest |-> c.manifest, table |-> c.table, blob |-> c.blob]
      BY <1>9 DEF IsContainer
    <3> QED
      BY <3>1
  <2>2. DOMAIN Zero = {"zero"} /\ "prelude" \notin {"zero"}
    BY DEF Zero
  <2> QED
    BY <2>1, <2>2
<1>11. Ships(OtherMedium(t), c)
  BY <1>6, <1>10, MediumShips
<1> QED
  BY <1>1, <1>3, <1>4, <1>8, <1>9, <1>11 DEF n, N, c, table

\* Its extents decode to blocks too.
LEMMA OtherBytes ==
  ASSUME NEW t \in OtherTables, medium = OtherMedium(t), Apart(t[1]), Kinds(t[1]),
         NEW i \in 1 .. Len(t[1]), NEW bytes \in Bytes(t[1][i]), bytes # None
  PROVE  AreBlocks(bytes) /\ Len(bytes) = t[1][i].len
<1> DEFINE e == t[1][i]
           c == Other(t)
           N == BlobEnd(t[1])
           blob == BlobOf(c, e)
<1>1. /\ c.blob = [j \in 1 .. N |-> NoiseBlock] /\ N \in Nat
      /\ Ships(medium, c) /\ e.len \in Nat /\ e.encoded_len \in Nat
  BY OtherIs
<1>2. Payload = c
  BY <1>1, PayloadIs DEF Payload, PayloadStart
<1>3. e.kind \in {"zero", "raw", "zstd"} /\ (e.kind = "raw" => e.encoded_len = e.len)
  BY DEF Kinds
<1>4. Nonzero(e) => e.blob_offset \in Nat /\ e.blob_offset + e.encoded_len <= N
  BY DEF Apart
<1>5. bytes \in CASE e.kind = "zero" -> {[b \in 1 .. e.len |-> ZeroBlock]}
                  [] e.kind = "raw" -> {blob}
                  [] e.kind = "zstd" -> Decoded(blob, e.len)
  BY <1>2 DEF Bytes
<1> HIDE DEF e, c, N, blob
<1>6. CASE e.kind = "zero"
  <2>1. bytes = [b \in 1 .. e.len |-> ZeroBlock]
    BY <1>5, <1>6
  <2> QED
    BY <1>1, <2>1, EqualBlocks DEF e
<1>7. ASSUME Nonzero(e)
      PROVE  /\ AreBlocks(blob) /\ Len(blob) = e.encoded_len
             /\ blob # <<>> => NoiseBlock \in ToSet(blob)
  <2> DEFINE a == e.blob_offset
             m == e.encoded_len
             F == [1 .. BlockSectors -> {Noise}]
  <2>1. a \in Nat /\ m \in Nat /\ a + m <= N
    BY <1>1, <1>4, <1>7
  <2>2. c.blob \in Seq({NoiseBlock}) /\ Len(c.blob) = N
    BY <1>1
  <2>3. blob = SubSeq(c.blob, a + 1, a + m)
    BY DEF blob, BlobOf
  <2> HIDE DEF a, m
  <2>4. blob \in Seq({NoiseBlock}) /\ Len(blob) = m
    BY <2>1, <2>2, <2>3, SliceIs
  <2>5. AreBlocks(blob)
    <3>1. Old \notin {Noise} /\ NoiseBlock \in F
      BY NoiseIsNotOld
    <3> HIDE DEF F
    <3>2. {NoiseBlock} \subseteq F
      BY <3>1
    <3>3. blob \in Seq(F)
      BY <2>4, <3>2, SeqMonotonic
    <3> QED
      BY <3>1, <3>3, BlocksOf DEF F
  <2>6. ASSUME blob # <<>> PROVE NoiseBlock \in ToSet(blob)
    <3>1. Len(blob) # 0 /\ Len(blob) \in Nat /\ DOMAIN blob = 1 .. Len(blob)
      BY <2>4, <2>6, EmptySeq, LenProperties
    <3>2. 1 \in DOMAIN blob /\ 1 \in 1 .. Len(blob)
      BY <3>1
    <3>3. blob[1] = NoiseBlock
      BY <2>4, <3>2, ElementOfSeq
    <3> QED
      BY <3>2, <3>3 DEF ToSet
  <2> QED
    BY <2>4, <2>5, <2>6 DEF m
<1>8. CASE e.kind = "raw"
  <2>1. Nonzero(e) /\ bytes = blob
    BY <1>5, <1>8 DEF Nonzero
  <2> QED
    BY <1>3, <1>7, <1>8, <2>1 DEF e
<1>9. CASE e.kind = "zstd"
  <2>1. Nonzero(e) /\ bytes \in Decoded(blob, e.len)
    BY <1>5, <1>9 DEF Nonzero
  <2>2. bytes = [j \in 1 .. e.len |-> NoiseBlock]
    BY <1>7, <2>1 DEF Decoded
  <2> QED
    BY <1>1, <2>2, EqualBlocks DEF e
<1> QED
  BY <1>3, <1>6, <1>8, <1>9

-----------------------------------------------------------------------------
(* Writing an extent.                                                      *)

\* Later extents begin later.
LEMMA OffsetsRise ==
  ASSUME NEW table, NEW blocks, Tiled(table, blocks), NEW off, Offsets(off, table, blocks)
  PROVE  \A i, j \in 1 .. Len(table) + 1 : i <= j => off[i] <= off[j]
<1> DEFINE n == Len(table)
           m == n + 1
<1>1. n \in Nat
  BY SeqOfItself DEF Tiled
<1>2. /\ off \in [1 .. n + 1 -> Nat]
      /\ \A i \in 1 .. n : off[i + 1] = off[i] + table[i].len /\ table[i].len \in Nat \ {0}
  BY DEF Offsets
<1> HIDE DEF n
<1>3. m \in Nat /\ off \in [1 .. m -> Int]
  BY <1>1, <1>2
<1>4. \A i \in 1 .. m - 1 : off[i] <= off[i + 1]
  <2> TAKE i \in 1 .. m - 1
  <2>1. i \in 1 .. n /\ i \in 1 .. n + 1
    BY <1>1
  <2>2. off[i] \in Nat /\ table[i].len \in Nat /\ off[i + 1] = off[i] + table[i].len
    BY <1>2, <2>1
  <2> QED
    BY ONLY <2>2
<1> HIDE DEF m
<1>5. \A i, j \in 1 .. m : i <= j => off[i] <= off[j]
  BY <1>3, <1>4, Rising
<1> QED
  BY <1>5 DEF m, n

\* How far the write has come: the target is touched up to there, not behind.
Done(table, blocks, n) == IF n <= Len(table) THEN table[n].offset ELSE blocks
Touched(table, blocks, n, disk) ==
  \A s \in Covers(0, TargetSectors) :
    disk[s] = Old <=> Done(table, blocks, n) * BlockSectors <= s

\* An extent that is written and that the medium still has is on the target.
SoFar(table, n, disk, c, image) ==
  \A i \in 1 .. Len(table) :
    i < n /\ (Nonzero(table[i]) => BlobOf(c, table[i]) = table[i].encoded_sha) =>
      \A s \in Covers(table[i].offset * BlockSectors, table[i].len * BlockSectors) :
         disk[s] = image[s]

\* A disk after so many blocks of bytes were put on it, from a block on.
PutHolds(new, old, offset, len, bytes) ==
  /\ DOMAIN new = Covers(0, TargetSectors)
  /\ \A k \in 1 .. len : \A j \in 1 .. BlockSectors :
        /\ new[(offset + k - 1) * BlockSectors + j - 1] = bytes[k][j]
        /\ bytes[k][j] # Old
  /\ \A s \in Nat : s < TargetSectors /\ (s < offset * BlockSectors \/ (offset + len) * BlockSectors <= s)
                       => new[s] = old[s]

\* Put writes blocks from a block on and nothing else.
LEMMA PutIs ==
  ASSUME NEW e, e.offset \in Nat, e.len \in Nat, (e.offset + e.len) * BlockSectors <= TargetSectors,
         NEW bytes, AreBlocks(bytes), Len(bytes) = e.len,
         DOMAIN target = Covers(0, TargetSectors)
  PROVE  PutHolds(Put(e, bytes), target, e.offset, e.len, bytes)
<1> DEFINE o == e.offset
           n == e.len
           B == BlockSectors
           flat == FlattenSeq(bytes)
           new == Put(e, bytes)
           start == o * B
           size == n * B
<1>1. o \in Nat /\ n \in Nat /\ B \in Nat \ {0} /\ TargetSectors \in Nat
  BY Room, Sizes
<1>2. /\ Len(flat) = n * B
      /\ \A k \in 1 .. n : \A j \in 1 .. B :
            bytes[k][j] # Old /\ (k - 1) * B + j \in 1 .. n * B /\ flat[(k - 1) * B + j] = bytes[k][j]
  <2>1. Flat(bytes, n)
    BY BlocksAreFlat
  <2> QED
    BY <2>1 DEF Flat
<1>3. new = Over(At(start, flat), target)
  BY DEF Put
<1>4. (o + n) * B <= TargetSectors
  OBVIOUS
<1> HIDE DEF flat, new, o, n, B
<1>5. start \in Nat /\ size \in Nat /\ start + size = (o + n) * B
  BY <1>1
<1>6. Len(flat) = size /\ start + size <= TargetSectors
  BY <1>2, <1>4, <1>5
<1> HIDE DEF start, size
<1>7. Wrote(new, TargetSectors, start, flat, size, target)
  BY <1>1, <1>3, <1>5, <1>6, WriteWithin
<1>8. DOMAIN new = Covers(0, TargetSectors)
  BY <1>7 DEF Wrote
<1>9. ASSUME NEW k \in 1 .. n, NEW j \in 1 .. B
      PROVE  new[(o + k - 1) * B + j - 1] = bytes[k][j]
  <2> DEFINE i == (k - 1) * B + j
  <2>1. i \in 1 .. size /\ flat[i] = bytes[k][j]
    BY <1>2 DEF size
  <2>2. new[start + i - 1] = flat[i]
    BY <1>7, <2>1 DEF Wrote
  <2>3. start + i - 1 = (o + k - 1) * B + j - 1
    <3> DEFINE h == k - 1
    <3>1. h \in Nat /\ o + k - 1 = o + h /\ B \in Nat /\ j \in Nat
      BY <1>1
    <3>2. start = o * B /\ i = h * B + j
      BY DEF start
    <3> HIDE DEF h, i
    <3>3. (o + h) * B = o * B + h * B /\ o * B \in Nat /\ h * B \in Nat
      BY ONLY <1>1, <3>1
    <3> QED
      BY ONLY <3>1, <3>2, <3>3
  <2> QED
    BY <2>1, <2>2, <2>3
<1>10. ASSUME NEW s \in Nat, s < TargetSectors, s < o * B \/ (o + n) * B <= s
       PROVE  new[s] = target[s]
  <2>1. s < start \/ start + size <= s
    BY <1>5, <1>10 DEF start
  <2> QED
    BY <1>7, <1>10, <2>1 DEF Wrote
<1>11. PutHolds(new, target, o, n, bytes)
  <2>1. \A k \in 1 .. n : \A j \in 1 .. B :
           new[(o + k - 1) * B + j - 1] = bytes[k][j] /\ bytes[k][j] # Old
    BY <1>2, <1>9
  <2> QED
    BY ONLY <1>8, <1>10, <2>1 DEF PutHolds, B
<1> QED
  BY <1>11 DEF new, o, n

\* A sector of an extent is a sector of one of its blocks.
LEMMA SectorOf ==
  ASSUME NEW o \in Nat, NEW n \in Nat, NEW s \in Nat,
         o * BlockSectors <= s, s < (o + n) * BlockSectors
  PROVE  \E k \in 1 .. n : \E j \in 1 .. BlockSectors :
            s = (o + k - 1) * BlockSectors + j - 1
<1> DEFINE B == BlockSectors
           p == s - o * B + 1
<1>1. B \in Nat \ {0}
  BY Room
<1> HIDE DEF B
<1>2. o * B \in Nat /\ n * B \in Nat /\ (o + n) * B = o * B + n * B
  BY <1>1
<1>3. o * B <= s /\ s < (o + n) * B
  BY DEF B
<1>4. p \in 1 .. n * B
  BY <1>2, <1>3
<1>5. s = o * B + (p - 1)
  BY <1>2
<1> HIDE DEF p
<1>6. PICK k \in 1 .. n, j \in 1 .. B : p = (k - 1) * B + j
  BY <1>1, <1>4, BlockOf
<1>7. s = (o + k - 1) * B + j - 1
  <2> DEFINE h == k - 1
  <2>1. h \in Nat /\ o + k - 1 = o + h /\ p = h * B + j
    BY <1>6
  <2> HIDE DEF h
  <2>2. (o + h) * B = o * B + h * B /\ h * B \in Nat
    BY <1>1, <2>1
  <2> QED
    BY ONLY <1>1, <1>2, <1>5, <2>1, <2>2, j \in 1 .. B
<1> QED
  BY <1>7 DEF B

\* Where the write has come to, in blocks.
LEMMA DoneIs ==
  ASSUME NEW table, NEW blocks, Tiled(table, blocks), NEW off, Offsets(off, table, blocks),
         NEW n \in 1 .. Len(table) + 1
  PROVE  Done(table, blocks, n) = off[n]
<1>1. Len(table) \in Nat
  BY SeqOfItself DEF Tiled
<1>2. off[Len(table) + 1] = blocks /\ \A i \in 1 .. Len(table) : table[i].offset = off[i]
  BY DEF Offsets
<1>3. CASE n <= Len(table)
  <2>1. n \in 1 .. Len(table)
    BY <1>1, <1>3
  <2> QED
    BY <1>2, <1>3, <2>1 DEF Done
<1>4. CASE ~(n <= Len(table))
  <2>1. n = Len(table) + 1
    BY <1>1, <1>4
  <2>2. Done(table, blocks, n) = blocks
    BY <1>4 DEF Done
  <2> QED
    BY <1>2, <2>1, <2>2
<1> QED
  BY <1>3, <1>4

\* An extent of the table begins where the write has come to, and ends within
\* the image.
LEMMA ExtentFits ==
  ASSUME NEW table, NEW blocks, Tiled(table, blocks), blocks * BlockSectors <= TargetSectors,
         NEW n \in 1 .. Len(table)
  PROVE  /\ table[n].offset \in Nat /\ table[n].len \in Nat \ {0}
         /\ Done(table, blocks, n) = table[n].offset
         /\ Done(table, blocks, n + 1) = table[n].offset + table[n].len
         /\ table[n].offset + table[n].len <= blocks
         /\ (table[n].offset + table[n].len) * BlockSectors <= TargetSectors
<1> DEFINE m == Len(table)
           o == table[n].offset
           u == table[n].len
           B == BlockSectors
<1>1. PICK off : Offsets(off, table, blocks)
  BY TiledOffsets
<1>2. m \in Nat /\ n \in 1 .. m + 1 /\ n + 1 \in 1 .. m + 1 /\ m + 1 \in 1 .. m + 1 /\ n + 1 <= m + 1
  <2>1. m \in Nat
    BY SeqOfItself DEF Tiled
  <2> QED
    BY <2>1
<1>3. Done(table, blocks, n) = off[n] /\ Done(table, blocks, n + 1) = off[n + 1]
  BY <1>1, <1>2, DoneIs
<1>4. off[n + 1] <= off[m + 1]
  BY <1>1, <1>2, OffsetsRise
<1>5. /\ off[m + 1] = blocks /\ o = off[n] /\ off[n + 1] = off[n] + u /\ u \in Nat \ {0}
      /\ o \in Nat /\ blocks \in Nat
  <2>1. off \in [1 .. m + 1 -> Nat]
    BY <1>1 DEF Offsets
  <2>2. off[n] \in Nat
    BY <1>2, <2>1
  <2> QED
    BY <1>1, <2>2 DEF Offsets, Tiled
<1>6. B \in Nat \ {0} /\ TargetSectors \in Nat /\ blocks * B <= TargetSectors
  BY Room, Sizes
<1> HIDE DEF m, o, u, B
<1>7. o + u <= blocks
  BY <1>4, <1>5
<1>9. (o + u) * B <= TargetSectors
  <2> DEFINE w == o + u
             rest == blocks - w
  <2>1. w \in Nat /\ rest \in Nat /\ blocks = w + rest /\ B \in Nat
    <3>1. o \in Nat /\ u \in Nat /\ blocks \in Nat /\ B \in Nat
      BY <1>5, <1>6
    <3>2. o + u \in Nat
      BY ONLY <3>1
    <3>3. blocks - (o + u) \in Nat
      BY ONLY <1>7, <3>1
    <3>4. blocks = (o + u) + (blocks - (o + u))
      BY ONLY <3>1
    <3> QED
      BY ONLY <3>1, <3>2, <3>3, <3>4
  <2> HIDE DEF w, rest
  <2>2. (w + rest) * B = w * B + rest * B /\ w * B \in Nat /\ rest * B \in Nat
    BY ONLY <2>1
  <2>3. w * B <= TargetSectors
    BY ONLY <1>6, <2>1, <2>2
  <2> QED
    BY ONLY <2>3 DEF w
<1>10. Done(table, blocks, n) = o /\ Done(table, blocks, n + 1) = o + u
  BY <1>3, <1>5
<1> QED
  BY <1>5, <1>7, <1>9, <1>10 DEF o, u, B

\* A put extent is touched, and nothing behind it.
LEMMA TouchedFurther ==
  ASSUME NEW table, NEW blocks, Tiled(table, blocks), blocks * BlockSectors <= TargetSectors,
         NEW n \in 1 .. Len(table), NEW old, Touched(table, blocks, n, old),
         NEW new, NEW bytes, PutHolds(new, old, table[n].offset, table[n].len, bytes)
  PROVE  Touched(table, blocks, n + 1, new)
<1> DEFINE o == table[n].offset
           u == table[n].len
           B == BlockSectors
<1>1. /\ o \in Nat /\ u \in Nat \ {0} /\ (o + u) * B <= TargetSectors
      /\ Done(table, blocks, n) = o /\ Done(table, blocks, n + 1) = o + u
  BY ExtentFits
<1>2. B \in Nat \ {0} /\ TargetSectors \in Nat
  BY Room, Sizes
<1>3. \A s : s \in Covers(0, TargetSectors) <=> s \in Nat /\ s < TargetSectors
  <2>1. \A s : s \in Covers(0, TargetSectors) <=> s \in Nat /\ 0 <= s /\ s < 0 + TargetSectors
    BY <1>2, InCovers
  <2>2. 0 + TargetSectors = TargetSectors
    BY <1>2
  <2> QED
    BY <2>1, <2>2
<1>4. \A s \in Nat : s < TargetSectors => (old[s] = Old <=> o * B <= s)
  BY <1>1, <1>3 DEF Touched
<1>5. /\ \A k \in 1 .. u : \A j \in 1 .. B :
            new[(o + k - 1) * B + j - 1] = bytes[k][j] /\ bytes[k][j] # Old
      /\ \A s \in Nat : s < TargetSectors /\ (s < o * B \/ (o + u) * B <= s) => new[s] = old[s]
  BY DEF PutHolds
<1> HIDE DEF o, u
<1>6. \A s \in Nat : o * B <= s /\ s < (o + u) * B => new[s] # Old
  <2> TAKE s \in Nat
  <2> SUFFICES ASSUME o * B <= s, s < (o + u) * B PROVE new[s] # Old
    OBVIOUS
  <2>1. PICK k \in 1 .. u, j \in 1 .. B : s = (o + k - 1) * B + j - 1
    BY <1>1, SectorOf
  <2>2. new[(o + k - 1) * B + j - 1] = bytes[k][j] /\ bytes[k][j] # Old
    BY <1>5
  <2> QED
    BY ONLY <2>1, <2>2
<1> HIDE DEF B
<1>7. o * B \in Nat /\ (o + u) * B \in Nat /\ o * B <= (o + u) * B
  BY <1>1, <1>2
<1>8. ASSUME NEW s \in Nat, s < TargetSectors PROVE new[s] = Old <=> (o + u) * B <= s
  <2> DEFINE a == o * B
             z == (o + u) * B
  <2>1. a \in Nat /\ z \in Nat /\ a <= z
    BY <1>7
  <2>2. (old[s] = Old <=> a <= s) /\ (s < a \/ z <= s => new[s] = old[s])
        /\ (a <= s /\ s < z => new[s] # Old)
    BY <1>4, <1>5, <1>6, <1>8
  <2> HIDE DEF a, z
  <2>3. new[s] = Old <=> z <= s
    BY <2>1, <2>2
  <2> QED
    BY <2>3 DEF z
<1>9. Done(table, blocks, n + 1) * BlockSectors = (o + u) * B
  BY <1>1 DEF B
<1> QED
  BY <1>3, <1>8, <1>9 DEF Touched

\* What was on the target as the image has it still is, and so is what was put.
LEMMA SoFarFurther ==
  ASSUME NEW table, NEW blocks, Tiled(table, blocks), blocks * BlockSectors <= TargetSectors,
         NEW n \in 1 .. Len(table), NEW c, NEW image, NEW old, SoFar(table, n, old, c, image),
         EntryDescribes(table[n], image),
         NEW new, NEW bytes, PutHolds(new, old, table[n].offset, table[n].len, bytes),
         (Nonzero(table[n]) => BlobOf(c, table[n]) = table[n].encoded_sha) => bytes = table[n].sha
  PROVE  SoFar(table, n + 1, new, c, image)
<1> DEFINE m == Len(table)
           o == table[n].offset
           u == table[n].len
           B == BlockSectors
           Intact(i) == Nonzero(table[i]) => BlobOf(c, table[i]) = table[i].encoded_sha
           Right(disk, i) ==
             \A s \in Covers(table[i].offset * B, table[i].len * B) : disk[s] = image[s]
<1>1. PICK off : Offsets(off, table, blocks)
  BY TiledOffsets
<1>2. m \in Nat /\ B \in Nat \ {0} /\ TargetSectors \in Nat
  BY SeqOfItself, Room, Sizes DEF Tiled
<1>3. /\ o \in Nat /\ u \in Nat \ {0} /\ (o + u) * B <= TargetSectors
  BY ExtentFits
<1>4. /\ \A k \in 1 .. u : \A j \in 1 .. B : new[(o + k - 1) * B + j - 1] = bytes[k][j]
      /\ \A s \in Nat : s < TargetSectors /\ (s < o * B \/ (o + u) * B <= s) => new[s] = old[s]
  BY DEF PutHolds
<1>5. \A k \in 1 .. u : \A j \in 1 .. B :
         table[n].sha[k][j] = image[(o + k - 1) * B + j - 1]
  BY DEF EntryDescribes
<1>6. \A i \in 1 .. m : i < n /\ Intact(i) => Right(old, i)
  BY DEF SoFar
<1>7. ASSUME NEW i \in 1 .. m, i < n, Right(old, i) PROVE Right(new, i)
  <2> DEFINE p == table[i].offset
             v == table[i].len
  <2>1. p \in Nat /\ v \in Nat /\ p + v <= o
    <3>1. p = off[i] /\ off[i + 1] = off[i] + v /\ v \in Nat /\ o = off[n] /\ off \in [1 .. m + 1 -> Nat]
      BY <1>1 DEF Offsets
    <3>2. i + 1 \in 1 .. m + 1 /\ n \in 1 .. m + 1 /\ i + 1 <= n /\ i \in 1 .. m + 1
      BY <1>2, <1>7
    <3>3. off[i + 1] <= off[n]
      BY <1>1, <3>2, OffsetsRise
    <3>4. off[i] \in Nat
      BY <3>1, <3>2
    <3> QED
      BY <3>1, <3>3, <3>4
  <2>2. \A s \in Covers(p * B, v * B) : old[s] = image[s]
    BY <1>7
  <2> HIDE DEF p, v, o, u, B
  <2>3. p * B \in Nat /\ v * B \in Nat /\ p * B + v * B <= o * B /\ o * B <= (o + u) * B
        /\ o * B \in Nat /\ (o + u) * B \in Nat
    <3>1. (p + v) * B = p * B + v * B /\ (p + v) * B <= o * B
      BY <1>2, <1>3, <2>1
    <3> QED
      BY <1>2, <1>3, <2>1, <3>1
  <2>4. \A s \in Covers(p * B, v * B) : s \in Nat /\ s < p * B + v * B
    BY <2>3, InCovers
  <2>5. \A s \in Covers(p * B, v * B) : s \in Nat /\ s < o * B /\ s < TargetSectors
    <3> DEFINE a == p * B
               b == v * B
               d == o * B
               f == (o + u) * B
    <3>1. a \in Nat /\ b \in Nat /\ a + b <= d /\ d <= f /\ d \in Nat /\ f \in Nat /\ f <= TargetSectors
      BY <1>3, <2>3
    <3>2. \A s \in Covers(a, b) : s \in Nat /\ s < a + b
      BY <2>4
    <3> HIDE DEF a, b, d, f
    <3>3. \A s \in Covers(a, b) : s \in Nat /\ s < d /\ s < TargetSectors
      BY <1>2, <3>1, <3>2
    <3> QED
      BY <3>3 DEF a, b, d
  <2>6. \A s \in Covers(p * B, v * B) : new[s] = image[s]
    BY <1>4, <2>2, <2>5
  <2> QED
    BY <2>6 DEF p, v
<1>8. ASSUME Intact(n) PROVE Right(new, n)
  <2>1. bytes = table[n].sha
    BY <1>8
  <2> HIDE DEF o, u
  <2>2. ASSUME NEW s \in Covers(o * B, u * B) PROVE new[s] = image[s]
    <3>1. o * B \in Nat /\ u * B \in Nat /\ (o + u) * B = o * B + u * B
      <4> HIDE DEF B
      <4> QED
        BY <1>2, <1>3
    <3>2. s \in Nat /\ o * B <= s /\ s < o * B + u * B
      BY <3>1, InCovers
    <3>3. s < (o + u) * B
      BY <3>1, <3>2
    <3>4. PICK k \in 1 .. u, j \in 1 .. B : s = (o + k - 1) * B + j - 1
      BY <1>3, <3>2, <3>3, SectorOf
    <3>5. /\ new[(o + k - 1) * B + j - 1] = bytes[k][j]
          /\ table[n].sha[k][j] = image[(o + k - 1) * B + j - 1]
      BY <1>4, <1>5
    <3> QED
      BY ONLY <2>1, <3>4, <3>5
  <2> QED
    BY <2>2 DEF o, u
<1>9. ASSUME NEW i \in 1 .. m, i < n + 1, Intact(i) PROVE Right(new, i)
  <2>1. i < n \/ i = n
    BY <1>2, <1>9
  <2> HIDE DEF Intact, Right
  <2> QED
    BY <1>6, <1>7, <1>8, <1>9, <2>1
<1> QED
  BY <1>9 DEF SoFar

-----------------------------------------------------------------------------
(* The inductive invariant.                                                *)

\* As long as the builder is at work.
Making == stage \in {"sources", "packed", "refused"}

\* A write has begun.
Writes == plan # None \/ stage \in {"writing", "written"}

\* The plan covers the image, and the target is touched up to the next extent.
PlanHolds ==
  /\ Tiled(plan.table, plan.blocks) /\ Apart(plan.table) /\ Kinds(plan.table)
  /\ plan.blocks * BlockSectors <= TargetSectors
  /\ next \in 1 .. Len(plan.table) + 1
  /\ stage = "writing" => next <= Len(plan.table)
  /\ stage = "written" => next = Len(plan.table) + 1
  /\ Touched(plan.table, plan.blocks, next, target)

\* No write has begun.
Untouched ==
  plan = None /\ next = 1 /\ \A s \in Covers(0, TargetSectors) : target[s] = Old

\* A medium of another maker: its table is the one that is planned.
Foreign ==
  /\ container = None
  /\ \E t \in OtherTables :
        medium = OtherMedium(t) /\ (Writes => plan.table = t[1])

\* The medium that was made from the container, and what became of it.
Own ==
  /\ PacksTheGraph(container, esp, root)
  /\ \E c : Ships(medium, c) /\ LeftOf(c, container)
  /\ decays = Decays => medium = Medium(container) /\ Probed(medium)
  /\ Writes => /\ plan.table = container.table
               /\ plan.blocks = Blocks(Layout)
               /\ SoFar(plan.table, next, target, Payload, Image)

\* Entries of the cache are encodings of blocks; the container packs the graph of
\* the sources; the medium is one of another maker or ships what is left of the
\* container; a plan is one that covers.
Inv ==
  /\ TypeOK
  /\ CacheHoldsBlocks(cache)
  /\ Making => esp \in EspFiles /\ root \in RootFiles /\ medium = None
  /\ stage = "packed" \/ container # None => PacksTheGraph(container, esp, root)
  /\ ~Making => Foreign \/ Own
  /\ DOMAIN target = Covers(0, TargetSectors)
  /\ stage \notin {"writing", "written", "failed"} => Untouched
  /\ PlanHolds \/ (Untouched /\ ~Writes)

-----------------------------------------------------------------------------
(* What the invariant says of the plan.                                    *)

\* From offsets that rise, and blobs that end where the next ones begin.
LEMMA PlanCovers ==
  ASSUME Inv
  PROVE  AcceptedCoversTheTarget
<1> SUFFICES ASSUME plan # None PROVE AcceptedCoversTheTarget
  BY DEF AcceptedCoversTheTarget
<1> DEFINE table == plan.table
           blocks == plan.blocks
           n == Len(table)
           B == BlockSectors
           Span(e) == Covers(e.offset, e.len)
           Blob(e) == Covers(e.blob_offset, e.encoded_len)
           last == blocks * B - 1
<1>1. /\ Tiled(table, blocks) /\ Apart(table)
      /\ blocks * B <= TargetSectors /\ next \in 1 .. n + 1
      /\ stage = "written" => next = n + 1
      /\ Touched(table, blocks, next, target)
      /\ DOMAIN target = Covers(0, TargetSectors)
  BY DEF Inv, Writes, PlanHolds
<1>2. /\ n \in Nat /\ DOMAIN table = 1 .. n /\ blocks \in Nat /\ B \in Nat \ {0}
      /\ TargetSectors \in Nat
      /\ \A i \in 1 .. n : table[i] \in ToSet(table)
      /\ \A e \in ToSet(table) : \E i \in 1 .. n : e = table[i]
  BY <1>1, SeqOfItself, Room, Sizes DEF Tiled
<1>3. PICK off : Offsets(off, table, blocks)
  BY <1>1, TiledOffsets
<1>4. /\ off \in [1 .. n + 1 -> Nat] /\ off[1] = 0 /\ off[n + 1] = blocks
      /\ \A i \in 1 .. n : /\ table[i].offset = off[i] /\ off[i + 1] = off[i] + table[i].len
                           /\ table[i].len \in Nat /\ off[i] \in Nat /\ off[i + 1] \in Nat
  <2>1. /\ off \in [1 .. n + 1 -> Nat] /\ off[1] = 0 /\ off[n + 1] = blocks
        /\ \A i \in 1 .. n : /\ table[i].offset = off[i] /\ off[i + 1] = off[i] + table[i].len
                             /\ table[i].len \in Nat
    BY <1>3 DEF Offsets
  <2>2. \A i \in 1 .. n : i \in 1 .. n + 1 /\ i + 1 \in 1 .. n + 1
    BY <1>2
  <2> QED
    BY <2>1, <2>2
<1>5. \A i, j \in 1 .. n + 1 : i <= j => off[i] <= off[j]
  BY <1>1, <1>3, OffsetsRise
<1>6. \A i \in 1 .. n : \A b : b \in Span(table[i]) <=> b \in Nat /\ off[i] <= b /\ b < off[i + 1]
  <2> TAKE i \in 1 .. n
  <2> DEFINE o == off[i]
             u == table[i].len
  <2>1. o \in Nat /\ u \in Nat /\ off[i + 1] = o + u /\ table[i].offset = o
    BY <1>4
  <2> HIDE DEF o, u
  <2>2. \A b : b \in Covers(o, u) <=> b \in Nat /\ o <= b /\ b < o + u
    BY <2>1, InCovers
  <2>3. Span(table[i]) = Covers(o, u)
    BY <2>1 DEF u
  <2> QED
    BY <2>1, <2>2, <2>3 DEF o
<1> HIDE DEF table, blocks, n, B
<1>7. UNION {Span(e) : e \in ToSet(table)} = 0 .. blocks - 1
  <2>1. ASSUME NEW e \in ToSet(table), NEW b \in Span(e) PROVE b \in 0 .. blocks - 1
    <3>1. PICK i \in 1 .. n : e = table[i]
      BY <1>2
    <3> HIDE DEF Span
    <3>2. b \in Nat /\ b < off[i + 1]
      BY <1>6, <2>1, <3>1
    <3>3. off[i + 1] <= blocks /\ off[i + 1] \in Nat
      <4>1. i + 1 \in 1 .. n + 1 /\ n + 1 \in 1 .. n + 1 /\ i + 1 <= n + 1
        BY <1>2
      <4>2. off[i + 1] <= off[n + 1]
        BY <1>5, <4>1
      <4> QED
        BY <1>4, <4>2
    <3> QED
      BY ONLY <1>2, <3>2, <3>3
  <2>2. ASSUME NEW b \in 0 .. blocks - 1 PROVE \E e \in ToSet(table) : b \in Span(e)
    <3>1. b \in Nat /\ b < off[n + 1]
      BY <1>2, <1>4
    <3>2. PICK i \in 1 .. n : off[i] <= b /\ b < off[i + 1]
      BY <1>2, <1>4, <3>1, Between
    <3> HIDE DEF Span
    <3>3. b \in Span(table[i])
      BY <1>6, <3>1, <3>2
    <3> QED
      BY <1>2, <3>3
  <2> HIDE DEF Span
  <2> QED
    BY <2>1, <2>2
<1>8. ASSUME NEW i \in DOMAIN table, NEW j \in DOMAIN table, i < j
      PROVE  /\ Span(table[i]) \cap Span(table[j]) = {}
             /\ Nonzero(table[i]) /\ Nonzero(table[j]) => Blob(table[i]) \cap Blob(table[j]) = {}
  <2>1. i \in 1 .. n /\ j \in 1 .. n /\ i + 1 \in 1 .. n + 1 /\ j \in 1 .. n + 1 /\ i + 1 <= j
    BY <1>2, <1>8
  <2>2. Span(table[i]) \cap Span(table[j]) = {}
    <3>1. off[i + 1] <= off[j] /\ off[i + 1] \in Nat /\ off[j] \in Nat
      BY <1>4, <1>5, <2>1
    <3> HIDE DEF Span
    <3>2. \A b : ~(b \in Span(table[i]) /\ b \in Span(table[j]))
      BY <1>6, <2>1, <3>1
    <3> QED
      BY <3>2
  <2>3. ASSUME Nonzero(table[i]), Nonzero(table[j])
        PROVE Blob(table[i]) \cap Blob(table[j]) = {}
    <3> DEFINE a == table[i].blob_offset
               x == table[i].encoded_len
               b == table[j].blob_offset
               y == table[j].encoded_len
    <3>1. a \in Nat /\ x \in Nat /\ b \in Nat /\ y \in Nat /\ a + x <= b
      BY <1>1, <1>8, <2>1, <2>3 DEF Apart, n
    <3> HIDE DEF a, x, b, y
    <3>2. \A p : p \in Covers(a, x) <=> p \in Nat /\ a <= p /\ p < a + x
      BY <3>1, InCovers
    <3>3. \A p : p \in Covers(b, y) <=> p \in Nat /\ b <= p /\ p < b + y
      BY <3>1, InCovers
    <3>4. \A p : ~(p \in Covers(a, x) /\ p \in Covers(b, y))
      BY ONLY <3>1, <3>2, <3>3
    <3>5. Covers(a, x) \cap Covers(b, y) = {}
      BY ONLY <3>4
    <3> QED
      BY <3>5 DEF a, x, b, y
  <2> QED
    BY <2>2, <2>3
<1>9. ASSUME NEW s \in DOMAIN target
      PROVE  (s > last => target[s] = Old) /\ (s <= last /\ stage = "written" => target[s] # Old)
  <2> DEFINE done == Done(table, blocks, next)
  <2>1. done = off[next] /\ done \in Nat /\ done <= blocks
    <3>1. next \in 1 .. n + 1 /\ n + 1 \in 1 .. n + 1 /\ next <= n + 1
      BY <1>1, <1>2 DEF n
    <3>2. done = off[next]
      BY <1>1, <1>3, <3>1, DoneIs DEF n, table, blocks
    <3> QED
      BY <1>4, <1>5, <3>1, <3>2
  <2>2. stage = "written" => done = blocks
    BY <1>1, <1>4, <2>1 DEF n
  <2> HIDE DEF done
  <2>3. s \in Nat /\ (target[s] = Old <=> done * B <= s)
    <3>1. s \in Covers(0, TargetSectors)
      BY <1>1
    <3>2. s \in Nat
      BY <1>2, <3>1, InCovers
    <3> QED
      BY <1>1, <3>1, <3>2 DEF Touched, done, table, blocks, B
  <2> DEFINE rest == blocks - done
  <2>4. rest \in Nat /\ blocks = done + rest
    BY <1>2, <2>1
  <2> HIDE DEF rest
  <2>5. (done + rest) * B = done * B + rest * B /\ done * B \in Nat /\ rest * B \in Nat
    <3>1. done \in Nat /\ rest \in Nat /\ B \in Nat
      BY <1>2, <2>1, <2>4
    <3>2. (done + rest) * B = done * B + rest * B
      BY ONLY <3>1
    <3>3. done * B \in Nat
      BY ONLY <3>1
    <3>4. rest * B \in Nat
      BY ONLY <3>1
    <3> QED
      BY <3>2, <3>3, <3>4
  <2> DEFINE d == done * B
             z == blocks * B
  <2>6. d \in Nat /\ z \in Nat /\ d <= z /\ (stage = "written" => d = z)
        /\ (target[s] = Old <=> d <= s) /\ last = z - 1
    BY <2>2, <2>3, <2>4, <2>5
  <2> HIDE DEF d, z, last
  <2>7. s > last => target[s] = Old
    BY ONLY <2>3, <2>6
  <2>8. s <= last /\ stage = "written" => target[s] # Old
    BY ONLY <2>3, <2>6
  <2> QED
    BY <2>7, <2>8
<1> QED
  BY <1>7, <1>8, <1>9 DEF AcceptedCoversTheTarget, table, blocks, B

-----------------------------------------------------------------------------
(* What the invariant says of the image.                                   *)

\* A container is not the filler of a segment.
LEMMA ContainerIsNotZero ==
  ASSUME NEW c, IsContainer(c)
  PROVE  c # Zero
<1>1. "prelude" \in DOMAIN c
  <2>1. c = [prelude |-> c.prelude, manifest |-> c.manifest, table |-> c.table, blob |-> c.blob]
    BY DEF IsContainer
  <2> QED
    BY <2>1
<1>2. DOMAIN Zero = {"zero"} /\ "prelude" \notin {"zero"}
  BY DEF Zero
<1> QED
  BY <1>1, <1>2

\* The image of two files that were packed: whole blocks that hold the disk.
LEMMA ImageIs ==
  ASSUME NEW c, NEW e, NEW r, PacksTheGraph(c, e, r)
  PROVE  LET l == InstalledGptLayout(Len(r))
             image == write_installed_gpt_image(l, e, r)
         IN  /\ Len(r) \in Nat \ {0} /\ Len(e) = EspSectors
             /\ Blocks(l) \in Nat \ {0} /\ l.image = Blocks(l) * BlockSectors /\ l.image \in Nat
             /\ Installed(image, l, e, r)
             /\ parse_gpt_physical(image) = [partitions |-> gpt_entries(l), span |-> l.image]
<1> DEFINE l == InstalledGptLayout(Len(r))
           image == write_installed_gpt_image(l, e, r)
<1>1. e \in EspFiles /\ r \in RootFiles /\ GraphReads(l, e, r)
  BY DEF PacksTheGraph
<1>2. Len(r) \in Nat \ {0} /\ Len(r) \in Nat
  <2>1. r \in EspFiles \cup RootFiles
    BY <1>1
  <2> QED
    BY <2>1, FilesAre
<1>3. Len(e) = EspSectors /\ Blocks(l) \in Nat \ {0} /\ l.image = Blocks(l) * BlockSectors
  BY <1>1, <1>2, WholeBlocks
<1>4. Installed(image, l, e, r)
  BY <1>2, <1>3, FileIsInstalled
<1>5. l.image \in Nat
  BY <1>2, LayoutIs
<1>6. parse_gpt_physical(image) = [partitions |-> gpt_entries(l), span |-> l.image]
  BY <1>2, <1>4, GptReadsBack
<1> HIDE DEF l, image
<1> QED
  BY <1>2, <1>3, <1>4, <1>5, <1>6 DEF l, image

\* From the blocks of the graph, which are those of the file.
LEMMA GraphIsTheImage ==
  ASSUME Inv
  PROVE  TheGraphIsTheImage
<1> SUFFICES ASSUME container # None PROVE TheGraphIsTheImage
  BY DEF TheGraphIsTheImage
<1>1. PacksTheGraph(container, esp, root) /\ IsContainer(container)
  BY DEF Inv, PacksTheGraph
<1>2. /\ Layout.image = Blocks(Layout) * BlockSectors
      /\ parse_gpt_physical(Image) = [partitions |-> gpt_entries(Layout), span |-> Layout.image]
  BY <1>1, ImageIs DEF Layout, Image
<1>3. ContainerIs(container, Blocks(Layout), Image)
  BY <1>1, PackedContainer DEF Layout, Image
<1>4. FlattenSeq([i \in DOMAIN container.table |-> FlattenSeq(container.table[i].sha)])
         = [s \in 1 .. Layout.image |-> Image[s - 1]]
  BY <1>2, <1>3, ContainerHoldsTheImage
<1>5. ASSUME medium # None, decays = Decays PROVE check_installer_image(medium, container)
  <2>1. ~Making
    BY <1>5 DEF Inv
  <2>2. Own
    BY <2>1 DEF Inv, Foreign
  <2>3. medium = Medium(container) /\ Probed(medium)
    BY <1>5, <2>2 DEF Own
  <2>4. container # Zero /\ container.prelude.total \in Nat
    BY <1>1, ContainerIsNotZero DEF IsContainer
  <2> QED
    BY <2>3, <2>4, ProbedIsChecked
<1> QED
  BY <1>2, <1>4, <1>5 DEF TheGraphIsTheImage

\* A larger disk with the same sectors up to the end of the image holds it too.
LEMMA SameIsInstalled ==
  ASSUME NEW e, NEW r, Len(r) \in Nat,
         NEW one, Installed(one, InstalledGptLayout(Len(r)), e, r),
         NEW two, \A s \in Nat : s < InstalledGptLayout(Len(r)).image
                                   => s \in DOMAIN two /\ two[s] = one[s]
  PROVE  Installed(two, InstalledGptLayout(Len(r)), e, r)
<1> DEFINE n == Len(r)
           l == InstalledGptLayout(n)
           I == l.image
           x == EntrySectors
           lba == BackupEntriesLba(l)
           array == encode_gpt_entries(l)
           k == EspSectors
           p == l.esp.start
           q == l.root.start
<1>1. /\ p = LeadingGap /\ l.esp.len = k /\ q = p + k /\ l.root.len = n
      /\ I = q + n + TrailingGap /\ I \in Nat /\ lba = I - 1 - x
  <2>1. /\ l.esp.start = LeadingGap /\ l.esp.len = EspSectors
        /\ l.root.start = LeadingGap + EspSectors /\ l.root.len = n
        /\ l.image = LeadingGap + EspSectors + n + TrailingGap /\ l.image \in Nat
    BY LayoutIs
  <2>2. lba = I - 1 - x
    BY DEF BackupEntriesLba, LastLba
  <2> HIDE DEF l, lba
  <2> QED
    BY <2>1, <2>2
<1>2. /\ p \in Nat /\ k \in Nat /\ n \in Nat /\ TrailingGap \in Nat /\ x \in Nat
      /\ p >= x + 3 /\ TrailingGap >= x + 2
  BY <1>1, Room
<1>3. /\ one[0] = ProtectiveMbr(l) /\ one[1] = PrimaryHeader(l) /\ one[I - 1] = BackupHeader(l)
      /\ \A i \in 1 .. x : one[1 + i] = array[i]
      /\ \A i \in 1 .. x : one[lba + i - 1] = array[i]
      /\ \A s \in Nat : x + 2 <= s /\ s < p => one[s] = Zero
      /\ \A i \in 1 .. k : one[p + i - 1] = e[i]
      /\ \A i \in 1 .. n : one[q + i - 1] = r[i]
      /\ \A s \in Nat : I - TrailingGap <= s /\ s < lba => one[s] = Zero
  <2>1. LeadingGap = p /\ l.esp.len = k /\ l.root.len = n
    BY <1>1
  <2> HIDE DEF l, lba, array
  <2>2. Installed(one, l, e, r)
    BY DEF l
  <2> QED
    BY <2>1, <2>2 DEF Installed, lba, array
<1> HIDE DEF n, l, I, x, lba, array, k, p, q
<1>4. \A s \in Nat : s < I => s \in DOMAIN two /\ two[s] = one[s]
  BY DEF I, l, n
<1>5. two[0] = one[0] /\ two[1] = one[1] /\ two[I - 1] = one[I - 1]
  <2>1. /\ 0 \in Nat /\ 1 \in Nat /\ I - 1 \in Nat
        /\ 0 < I /\ 1 < I /\ I - 1 < I
    BY <1>1, <1>2
  <2> QED
    BY <1>4, <2>1
<1>6. \A i \in 1 .. x : two[1 + i] = one[1 + i]
  <2>1. \A i \in 1 .. x : 1 + i \in Nat /\ 1 + i < I
    BY <1>1, <1>2
  <2> QED
    BY <1>4, <2>1
<1>7. \A i \in 1 .. x : two[lba + i - 1] = one[lba + i - 1]
  <2>1. \A i \in 1 .. x : lba + i - 1 \in Nat /\ lba + i - 1 < I
    BY <1>1, <1>2
  <2> QED
    BY <1>4, <2>1
<1>8. \A i \in 1 .. k : two[p + i - 1] = one[p + i - 1]
  <2>1. \A i \in 1 .. k : p + i - 1 \in Nat /\ p + i - 1 < I
    BY <1>1, <1>2
  <2> QED
    BY <1>4, <2>1
<1>9. \A i \in 1 .. n : two[q + i - 1] = one[q + i - 1]
  <2>1. \A i \in 1 .. n : q + i - 1 \in Nat /\ q + i - 1 < I
    BY <1>1, <1>2
  <2> QED
    BY <1>4, <2>1
<1>10. \A s \in Nat : x + 2 <= s /\ s < p => two[s] = one[s]
  <2>1. \A s \in Nat : s < p => s < I
    BY <1>1, <1>2
  <2> QED
    BY <1>4, <2>1
<1>11. \A s \in Nat : I - TrailingGap <= s /\ s < lba => two[s] = one[s]
  <2>1. \A s \in Nat : s < lba => s < I
    BY <1>1, <1>2
  <2> QED
    BY <1>4, <2>1
<1>12. LeadingGap = p /\ l.esp.len = k /\ l.root.len = n
  BY <1>1
<1>13. Installed(two, l, e, r)
  <2>1. /\ two[0] = ProtectiveMbr(l) /\ two[1] = PrimaryHeader(l) /\ two[I - 1] = BackupHeader(l)
        /\ \A i \in 1 .. x : two[1 + i] = array[i]
        /\ \A i \in 1 .. x : two[lba + i - 1] = array[i]
        /\ \A s \in Nat : x + 2 <= s /\ s < p => two[s] = Zero
    BY <1>3, <1>5, <1>6, <1>7, <1>10
  <2>2. /\ \A i \in 1 .. k : two[p + i - 1] = e[i]
        /\ \A i \in 1 .. n : two[q + i - 1] = r[i]
        /\ \A s \in Nat : I - TrailingGap <= s /\ s < lba => two[s] = Zero
    BY <1>3, <1>8, <1>9, <1>11
  <2> QED
    BY <1>4, <1>12, <2>1, <2>2 DEF Installed, I, x, lba, array, k, p, q
<1> QED
  BY <1>13 DEF l, n

-----------------------------------------------------------------------------
(* What the invariant says of the target.                                  *)

\* A table without gaps has an extent for every sector of the image.
LEMMA SectorHasExtent ==
  ASSUME NEW table, NEW blocks, Tiled(table, blocks),
         NEW s \in Nat, s < blocks * BlockSectors
  PROVE  \E i \in 1 .. Len(table) :
            s \in Covers(table[i].offset * BlockSectors, table[i].len * BlockSectors)
<1> DEFINE n == Len(table)
           B == BlockSectors
           b == s \div B
           m == s % B
<1>1. /\ n \in Nat /\ blocks \in Nat /\ B \in Nat \ {0} /\ B \in Nat
  BY SeqOfItself, Room DEF Tiled
<1>2. PICK off : Offsets(off, table, blocks)
  BY TiledOffsets
<1>3. /\ off \in [1 .. n + 1 -> Nat] /\ off[1] = 0 /\ off[n + 1] = blocks
      /\ \A i \in 1 .. n : /\ table[i].offset = off[i] /\ off[i + 1] = off[i] + table[i].len
                           /\ table[i].len \in Nat
  BY <1>2 DEF Offsets
<1>4. b \in Nat /\ m \in Nat /\ m < B /\ s = b * B + m
  <2>1. b \in Nat /\ m \in 0 .. B - 1 /\ s = b * B + m
    BY <1>1, DivMod
  <2> HIDE DEF b, m, B
  <2> QED
    BY <1>1, <2>1
<1> HIDE DEF b, m, B, n
<1>5. s < blocks * B
  BY DEF B
<1>6. b < blocks
  <2> SUFFICES ASSUME ~(b < blocks) PROVE FALSE
    OBVIOUS
  <2> DEFINE d == b - blocks
  <2>1. d \in Nat /\ b = blocks + d
    BY <1>1, <1>4
  <2> HIDE DEF d
  <2>2. (blocks + d) * B = blocks * B + d * B
    BY ONLY <1>1, <2>1
  <2>3. d * B \in Nat
    BY ONLY <1>1, <2>1
  <2>4. blocks * B \in Nat
    BY ONLY <1>1
  <2> DEFINE x == blocks * B
             y == d * B
  <2>5. x \in Nat /\ y \in Nat /\ s = x + y + m /\ s < x
    BY <1>4, <1>5, <2>1, <2>2, <2>3, <2>4
  <2> HIDE DEF x, y
  <2> QED
    BY ONLY <1>4, <2>5
<1>7. PICK i \in 1 .. n : off[i] <= b /\ b < off[i + 1]
  <2>1. b < off[n + 1]
    BY <1>3, <1>6
  <2> QED
    BY <1>1, <1>3, <1>4, <2>1, Between
<1> DEFINE o == off[i]
           u == table[i].len
           lo == b - o
           hi == o + u - 1 - b
<1>8. o \in Nat /\ u \in Nat /\ o <= b /\ b < o + u /\ table[i].offset = o
  <2>1. i \in 1 .. n + 1
    BY <1>1
  <2> QED
    BY <1>3, <1>7, <2>1
<1> HIDE DEF o, u
<1>9. lo \in Nat /\ hi \in Nat /\ b = o + lo /\ o + u = b + 1 + hi
  BY ONLY <1>4, <1>8
<1> HIDE DEF lo, hi
<1>10. /\ (o + lo) * B = o * B + lo * B
       /\ o * B + u * B = b * B + B + hi * B
  <2>1. (o + lo) * B = o * B + lo * B
    BY ONLY <1>1, <1>8, <1>9
  <2>2. (o + u) * B = o * B + u * B
    BY ONLY <1>1, <1>8
  <2>3. (b + 1 + hi) * B = b * B + B + hi * B
    BY ONLY <1>1, <1>4, <1>9
  <2> QED
    BY <1>9, <2>1, <2>2, <2>3
<1>11. /\ o * B \in Nat /\ u * B \in Nat /\ b * B \in Nat /\ lo * B \in Nat /\ hi * B \in Nat
  <2>1. o * B \in Nat
    BY ONLY <1>1, <1>8
  <2>2. u * B \in Nat
    BY ONLY <1>1, <1>8
  <2>3. b * B \in Nat
    BY ONLY <1>1, <1>4
  <2>4. lo * B \in Nat
    BY ONLY <1>1, <1>9
  <2>5. hi * B \in Nat
    BY ONLY <1>1, <1>9
  <2> QED
    BY <2>1, <2>2, <2>3, <2>4, <2>5
<1> DEFINE p == o * B
           q == u * B
           x == b * B
           y == lo * B
           z == hi * B
<1>12. /\ p \in Nat /\ q \in Nat /\ x \in Nat /\ y \in Nat /\ z \in Nat
       /\ x = p + y /\ p + q = x + B + z /\ s = x + m
  BY <1>4, <1>9, <1>10, <1>11
<1>13. p = table[i].offset * BlockSectors /\ q = table[i].len * BlockSectors
  BY <1>8 DEF B, u
<1> HIDE DEF p, q, x, y, z
<1>14. p <= s /\ s < p + q
  BY ONLY <1>1, <1>4, <1>12
<1>15. s \in Covers(p, q)
  BY <1>12, <1>14, InCovers
<1> QED
  BY <1>13, <1>15 DEF n

\* From the extents so far, which are all, and every sector is in one.
LEMMA WrittenImage ==
  ASSUME Inv
  PROVE  WrittenIsTheImage
<1> SUFFICES ASSUME stage = "written", container # None PROVE WrittenIsTheImage
  BY DEF WrittenIsTheImage
<1> DEFINE table == plan.table
           n == Len(table)
           I == Layout.image
           Has(e) == Nonzero(e) => BlobOf(Payload, e) = e.encoded_sha
           Right(e) ==
             \A s \in Covers(e.offset * BlockSectors, e.len * BlockSectors) : target[s] = Image[s]
           intact == {e \in ToSet(table) : Has(e)}
<1>1. PacksTheGraph(container, esp, root)
  BY DEF Inv
<1>2. /\ Tiled(table, plan.blocks) /\ plan.blocks * BlockSectors <= TargetSectors
      /\ next = n + 1 /\ DOMAIN target = Covers(0, TargetSectors)
  BY DEF Inv, Writes, PlanHolds
<1>3. plan.blocks = Blocks(Layout) /\ SoFar(table, next, target, Payload, Image)
  <2>1. ~Making /\ Writes
    BY DEF Making, Writes
  <2>2. Own
    BY <2>1 DEF Inv, Foreign
  <2> QED
    BY <2>1, <2>2 DEF Own
<1>4. n \in Nat /\ (\A e \in ToSet(table) : \E i \in 1 .. n : e = table[i])
      /\ \A i \in 1 .. n : table[i] \in ToSet(table)
  BY <1>2, SeqOfItself DEF Tiled
<1> HIDE DEF table, n, I
<1>5. ASSUME NEW i \in 1 .. n, Has(table[i]) PROVE Right(table[i])
  <2>1. i < next
    BY <1>2, <1>4
  <2> QED
    BY <1>3, <1>5, <2>1 DEF SoFar, n
<1>6. \A e \in intact : Right(e)
  BY <1>4, <1>5
<1>7. ASSUME intact = ToSet(table)
      PROVE  parse_gpt_physical(target) = [partitions |-> gpt_entries(Layout), span |-> I]
  <2>1. /\ Len(root) \in Nat \ {0} /\ Len(root) \in Nat
        /\ I = Blocks(Layout) * BlockSectors /\ I \in Nat
        /\ Installed(Image, Layout, esp, root)
    BY <1>1, ImageIs DEF Layout, Image, I
  <2>2. ASSUME NEW s \in Nat, s < I PROVE s \in DOMAIN target /\ target[s] = Image[s]
    <3>1. s < plan.blocks * BlockSectors
      BY <1>3, <2>1, <2>2
    <3>2. PICK i \in 1 .. n :
             s \in Covers(table[i].offset * BlockSectors, table[i].len * BlockSectors)
      BY <1>2, <3>1, SectorHasExtent DEF n
    <3>3. table[i] \in intact
      BY <1>4, <1>7
    <3>4. target[s] = Image[s]
      BY <1>6, <3>2, <3>3
    <3>5. s < TargetSectors /\ TargetSectors \in Nat
      BY <1>2, <1>3, <2>1, <2>2, Sizes
    <3>6. s \in Covers(0, TargetSectors)
      BY <3>5, InCovers
    <3> QED
      BY <1>2, <3>4, <3>6
  <2>3. Installed(target, Layout, esp, root)
    BY <2>1, <2>2, SameIsInstalled DEF Layout, I
  <2> QED
    BY <2>1, <2>3, GptReadsBack DEF Layout, I
<1> QED
  BY <1>6, <1>7 DEF WrittenIsTheImage, table, I

-----------------------------------------------------------------------------
(* The steps of the builder.                                               *)

\* An entry that is torn is the entry but for that.
LEMMA TornIs ==
  ASSUME NEW e, NEW t,
         e = [key |-> e.key, torn |-> e.torn, kind |-> e.kind, encoded |-> e.encoded]
  PROVE  [e EXCEPT !.torn = t] = [key |-> e.key, torn |-> t, kind |-> e.kind, encoded |-> e.encoded]
OBVIOUS

\* No extent of a packed container is longer than an extent may be.
LEMMA ContainerLens ==
  ASSUME NEW c, NEW e, NEW r, PacksTheGraph(c, e, r)
  PROVE  \A x \in ToSet(c.table) : x.len \in 1 .. MaxExtent
<1>1. PICK n, image : ContainerIs(c, n, image)
  BY PackedContainer
<1>2. \A x \in ToSet(c.table) : \E i \in 1 .. Len(c.table) : x = c.table[i]
  BY <1>1, SeqOfItself DEF ContainerIs, Tiled
<1>3. \A i \in 1 .. Len(c.table) : c.table[i].len \in Nat \ {0} /\ c.table[i].len <= MaxExtent
  BY <1>1 DEF ContainerIs, EntryDescribes
<1>4. MaxExtent \in Nat
  BY Room
<1>5. \A i \in 1 .. Len(c.table) : c.table[i].len \in 1 .. MaxExtent
  BY <1>3, <1>4
<1> QED
  BY <1>2, <1>5

\* Nothing is planned as long as the builder is at work.
LEMMA StillMaking ==
  ASSUME Inv, Making, stage' \in {"sources", "packed", "refused"}, medium' = None,
         UNCHANGED carried, changes' \in 0 .. Changes,
         esp' \in EspFiles, root' \in RootFiles,
         CacheHoldsBlocks(cache'), CacheHoldsExtents(cache'),
         stage' = "packed" \/ container' # None => PacksTheGraph(container', esp', root')
  PROVE  Inv'
<1>1. /\ stage \in {"sources", "packed", "refused"}
      /\ plan' = plan /\ next' = next /\ target' = target /\ decays' = decays
  BY DEF Making, carried
<1>2. plan = None /\ next = 1 /\ DOMAIN target = Covers(0, TargetSectors)
      /\ \A s \in Covers(0, TargetSectors) : target[s] = Old
  BY <1>1 DEF Inv, Untouched
<1>3. TypeOK'
  <2>1. stage' \in {"sources", "packed", "refused", "carried", "found", "none found",
                    "writing", "written", "failed"}
    OBVIOUS
  <2>2. \A e \in cache' : e.kind \in {"raw", "zstd"} /\ Len(e.key.bytes) <= MaxExtent
    BY DEF CacheHoldsExtents
  <2>3. container' # None => \A e \in ToSet(container'.table) : e.len \in 1 .. MaxExtent
    BY ContainerLens
  <2>4. next' = 1 /\ decays' \in 0 .. Decays
    BY <1>1, <1>2 DEF Inv, TypeOK
  <2> QED
    BY <2>1, <2>2, <2>3, <2>4 DEF TypeOK
<1>4. Making' /\ ~Writes' /\ Untouched'
  BY <1>1, <1>2 DEF Making, Writes, Untouched
<1> QED
  BY <1>1, <1>2, <1>3, <1>4 DEF Inv

\* Changing a source, the release or an entry of the cache drops the container.
LEMMA ChangeKeeps ==
  ASSUME Inv, Change
  PROVE  Inv'
<1>1. /\ Making /\ stage' \in {"sources", "packed", "refused"} /\ stage' = "sources"
      /\ medium = None /\ medium' = None /\ UNCHANGED carried
      /\ container' = None
  BY DEF Change, Making
<1>2. changes' \in 0 .. Changes
  <2>1. changes \in 0 .. Changes /\ changes > 0 /\ changes' = changes - 1
    BY DEF Change, Inv, TypeOK
  <2>2. Changes \in Nat
    BY Sizes
  <2> QED
    BY ONLY <2>1, <2>2
<1>3. esp \in EspFiles /\ root \in RootFiles
      /\ CacheHoldsBlocks(cache) /\ CacheHoldsExtents(cache)
  BY <1>1 DEF Inv, TypeOK, CacheHoldsExtents
<1>4. esp' \in EspFiles /\ root' \in RootFiles
  BY <1>3 DEF Change
<1>5. CacheHoldsBlocks(cache') /\ CacheHoldsExtents(cache')
  <2>1. CASE cache' = cache
    BY <1>3, <2>1
  <2>2. ASSUME NEW e \in cache, cache' = (cache \ {e}) \cup {[e EXCEPT !.torn = TRUE]}
        PROVE  CacheHoldsBlocks(cache') /\ CacheHoldsExtents(cache')
    <3> DEFINE d == [e EXCEPT !.torn = TRUE]
    <3>1. /\ e = [key |-> e.key, torn |-> e.torn, kind |-> e.kind, encoded |-> e.encoded]
          /\ AreBlocks(e.encoded)
      BY <1>3 DEF CacheHoldsBlocks
    <3>2. d = [key |-> e.key, torn |-> TRUE, kind |-> e.kind, encoded |-> e.encoded]
      BY <3>1, TornIs, Zenon
    <3> HIDE DEF d
    <3>3. /\ d.key = e.key /\ d.kind = e.kind /\ d.encoded = e.encoded
          /\ d = [key |-> d.key, torn |-> d.torn, kind |-> d.kind, encoded |-> d.encoded]
      BY <3>2
    <3>4. \A x \in cache' : x \in cache \/ x = d
      BY <2>2 DEF d
    <3>5. CacheHoldsBlocks(cache')
      BY <1>3, <3>1, <3>3, <3>4 DEF CacheHoldsBlocks
    <3>6. d.kind \in {"raw", "zstd"} /\ Len(d.key.bytes) <= MaxExtent
      BY <1>3, <3>3 DEF CacheHoldsExtents
    <3>7. CacheHoldsExtents(cache')
      BY <1>3, <3>4, <3>6 DEF CacheHoldsExtents
    <3> QED
      BY <3>5, <3>7
  <2> QED
    BY <2>1, <2>2 DEF Change
<1> QED
  BY <1>1, <1>2, <1>4, <1>5, StillMaking

\* A container that its own validation accepts packs the graph.
LEMMA PackKeeps ==
  ASSUME Inv, Pack
  PROVE  Inv'
<1> DEFINE extents == for_each_extent(Layout, esp, root)
           packed == Packed(extents)
<1>1. /\ Making /\ stage = "sources" /\ stage' \in {"sources", "packed", "refused"}
      /\ UNCHANGED carried /\ medium' = medium
      /\ esp' = esp /\ root' = root /\ changes' = changes
      /\ GraphReads(Layout, esp, root) /\ cache' = write_extent_cache(extents)
  BY DEF Pack, Making
<1>2. \/ container' = packed /\ Accepts(packed, packed.prelude.total)
      \/ container' = None /\ stage' = "refused"
  BY DEF Pack
<1>3. /\ esp \in EspFiles /\ root \in RootFiles /\ medium = None
      /\ CacheHoldsBlocks(cache) /\ CacheHoldsExtents(cache) /\ changes \in 0 .. Changes
  BY <1>1 DEF Inv, TypeOK, CacheHoldsExtents
<1>4. OfTheGraph(extents, Layout, esp, root)
  BY <1>1, <1>3, GraphExtents DEF Layout
<1> HIDE DEF extents, packed
<1>5. CacheHoldsBlocks(cache') /\ CacheHoldsExtents(cache')
  BY <1>1, <1>3, <1>4, CacheIsKept
<1>6. stage' = "packed" \/ container' # None => PacksTheGraph(container', esp', root')
  <2>1. CASE container' = packed /\ Accepts(packed, packed.prelude.total)
    <3>1. PacksTheGraph(packed, esp, root)
      BY <1>1, <1>3, <2>1, PackedIs DEF packed, extents, Layout
    <3> QED
      BY <1>1, <2>1, <3>1
  <2> QED
    BY <1>2, <2>1
<1> QED
  BY <1>1, <1>3, <1>5, <1>6, StillMaking

\* A build that fails leaves no container.
LEMMA PackFailsKeeps ==
  ASSUME Inv, PackFails
  PROVE  Inv'
<1>1. /\ Making /\ stage = "sources" /\ stage' = "refused"
      /\ stage' \in {"sources", "packed", "refused"}
      /\ UNCHANGED carried /\ medium' = medium /\ container' = container
      /\ esp' = esp /\ root' = root /\ cache' = cache /\ changes' = changes
  BY DEF PackFails, Making, inputs
<1>2. /\ esp \in EspFiles /\ root \in RootFiles /\ medium = None
      /\ CacheHoldsBlocks(cache) /\ CacheHoldsExtents(cache) /\ changes \in 0 .. Changes
      /\ container # None => PacksTheGraph(container, esp, root)
  BY <1>1 DEF Inv, TypeOK, CacheHoldsExtents
<1>3. stage' = "packed" \/ container' # None => PacksTheGraph(container', esp', root')
  BY <1>1, <1>2
<1> QED
  BY <1>1, <1>2, <1>3, StillMaking

-----------------------------------------------------------------------------
(* The steps of the installer.                                             *)

\* Once there is a medium the builder's side does not change any more.
LEMMA StillCarried ==
  ASSUME Inv, ~Making', UNCHANGED <<inputs, container, changes>>,
         stage' \in {"carried", "found", "none found", "writing", "written", "failed"},
         stage = "packed" => PacksTheGraph(container, esp, root),
         decays' \in 0 .. Decays, DOMAIN target' = Covers(0, TargetSectors),
         Foreign' \/ Own',
         stage' \notin {"writing", "written", "failed"} => Untouched',
         PlanHolds' \/ (Untouched' /\ ~Writes')
  PROVE  Inv'
<1>1. /\ esp' = esp /\ root' = root /\ cache' = cache /\ container' = container
      /\ changes' = changes
  BY DEF inputs
<1>2. next' = 1 \/ next' \in 2 .. Len(plan'.table) + 1
  <2>1. CASE PlanHolds'
    <3>1. next' \in 1 .. Len(plan'.table) + 1 /\ Tiled(plan'.table, plan'.blocks)
      BY <2>1 DEF PlanHolds
    <3>2. Len(plan'.table) \in Nat
      BY <3>1, SeqOfItself DEF Tiled
    <3>3. PICK m \in Nat : m = Len(plan'.table)
      BY <3>2
    <3>4. next' \in 1 .. m + 1
      BY <3>1, <3>3
    <3>5. next' = 1 \/ next' \in 2 .. m + 1
      BY ONLY <3>4, m \in Nat
    <3> QED
      BY <3>3, <3>5
  <2> QED
    BY <2>1 DEF Untouched
<1>3. TypeOK'
  <2>1. stage' \in {"sources", "packed", "refused", "carried", "found", "none found",
                    "writing", "written", "failed"}
    OBVIOUS
  <2>2. \A e \in cache' : e.kind \in {"raw", "zstd"} /\ Len(e.key.bytes) <= MaxExtent
    BY <1>1 DEF Inv, TypeOK
  <2>3. container' # None => \A e \in ToSet(container'.table) : e.len \in 1 .. MaxExtent
    BY <1>1 DEF Inv, TypeOK
  <2>4. changes' \in 0 .. Changes
    BY <1>1 DEF Inv, TypeOK
  <2> QED
    BY <1>2, <2>1, <2>2, <2>3, <2>4 DEF TypeOK
<1>4. CacheHoldsBlocks(cache')
  BY <1>1 DEF Inv
<1>5. stage' = "packed" \/ container' # None => PacksTheGraph(container', esp', root')
  BY <1>1 DEF Inv
<1> QED
  BY <1>1, <1>3, <1>4, <1>5 DEF Inv

\* The medium that is published ships the container.
LEMMA PublishKeeps ==
  ASSUME Inv, Publish
  PROVE  Inv'
<1> DEFINE l == InstallerMbrLayout(container.prelude.total \div Alignment)
           segments == final_installer_composite_manifest(l, container)
<1>1. /\ Making /\ stage = "packed" /\ UNCHANGED carried
      /\ container' = container /\ changes' = changes
      /\ esp' = esp /\ root' = root /\ cache' = cache
  BY DEF Publish, Making, inputs
<1>2. /\ esp \in EspFiles /\ root \in RootFiles /\ medium = None
      /\ CacheHoldsBlocks(cache) /\ CacheHoldsExtents(cache) /\ changes \in 0 .. Changes
      /\ PacksTheGraph(container, esp, root)
  BY <1>1 DEF Inv, TypeOK, CacheHoldsExtents
<1>3. CASE stage' = "refused" /\ medium' = medium
  <2>1. stage' \in {"sources", "packed", "refused"}
    BY <1>3
  <2>2. stage' = "packed" \/ container' # None => PacksTheGraph(container', esp', root')
    BY <1>1, <1>2
  <2> QED
    BY <1>1, <1>2, <1>3, <2>1, <2>2, StillMaking
<1>4. CASE /\ stage' = "carried" /\ medium' = materialize_composite_file(segments, l.image)
           /\ Probed(materialize_composite_file(segments, l.image))
  <2>1. medium' = Medium(container) /\ Probed(Medium(container))
    BY <1>4 DEF Medium
  <2>2. IsContainer(container)
    BY <1>2 DEF PacksTheGraph
  <2>3. Ships(Medium(container), container) /\ LeftOf(container, container)
    BY <2>2, ContainerIsNotZero, MediumShips, AllIsLeft
  <2>4. plan = None /\ next = 1 /\ DOMAIN target = Covers(0, TargetSectors)
        /\ (\A s \in Covers(0, TargetSectors) : target[s] = Old) /\ decays \in 0 .. Decays
    BY <1>1 DEF Inv, TypeOK, Untouched
  <2>5. plan' = None /\ next' = 1 /\ target' = target /\ decays' = decays
    BY <1>1, <2>4 DEF carried
  <2>6. ~Writes' /\ ~Making' /\ Untouched'
    BY <1>4, <2>4, <2>5 DEF Writes, Making, Untouched
  <2>7. Own'
    <3>1. PacksTheGraph(container', esp', root')
      BY <1>1, <1>2
    <3>2. \E c : Ships(medium', c) /\ LeftOf(c, container')
      BY <1>1, <2>1, <2>3
    <3>3. medium' = Medium(container') /\ Probed(medium')
      BY <1>1, <2>1
    <3> QED
      BY <2>6, <3>1, <3>2, <3>3 DEF Own
  <2>8. stage' \in {"carried", "found", "none found", "writing", "written", "failed"}
    BY <1>4
  <2>9. UNCHANGED <<inputs, container, changes>>
    BY <1>1 DEF Publish
  <2> QED
    BY <1>2, <2>4, <2>5, <2>6, <2>7, <2>8, <2>9, StillCarried
<1> QED
  BY <1>3, <1>4 DEF Publish

\* Probing reads the medium only.
LEMMA FindKeeps ==
  ASSUME Inv, Find
  PROVE  Inv'
<1>1. /\ stage = "carried" /\ stage' \in {"found", "none found"}
      /\ UNCHANGED <<inputs, container, changes>>
      /\ esp' = esp /\ root' = root /\ container' = container /\ medium' = medium
      /\ plan' = plan /\ next' = next /\ target' = target /\ decays' = decays
  BY DEF Find, inputs, carried
<1>2. ~Making /\ ~Making' /\ stage # "packed"
  BY <1>1 DEF Making
<1>3. /\ plan = None /\ next = 1 /\ DOMAIN target = Covers(0, TargetSectors)
      /\ (\A s \in Covers(0, TargetSectors) : target[s] = Old) /\ decays \in 0 .. Decays
  BY <1>1 DEF Inv, TypeOK, Untouched
<1>4. ~Writes' /\ Untouched'
  BY <1>1, <1>3 DEF Writes, Untouched
<1>5. Foreign' \/ Own'
  <2>1. CASE Foreign
    BY <1>1, <1>4, <2>1 DEF Foreign
  <2>2. CASE Own
    <3>1. PacksTheGraph(container', esp', root')
      BY <1>1, <2>2 DEF Own
    <3>2. \E c : Ships(medium', c) /\ LeftOf(c, container')
      BY <1>1, <2>2 DEF Own
    <3>3. decays' = Decays => medium' = Medium(container') /\ Probed(medium')
      BY <1>1, <2>2 DEF Own
    <3> QED
      BY <1>4, <3>1, <3>2, <3>3 DEF Own
  <2> QED
    BY <1>2, <2>1, <2>2 DEF Inv
<1>6. stage' \in {"carried", "found", "none found", "writing", "written", "failed"}
  BY <1>1
<1> QED
  BY <1>1, <1>2, <1>3, <1>4, <1>5, <1>6, StillCarried

\* What still reads as it was packed when more has decayed did so before.
LEMMA DecayTakes ==
  ASSUME NEW k, NEW n, NEW image, IsContainer(k), ContainerIs(k, n, image),
         NEW c, LeftOf(c, k), NEW d, Rests(d, c, k), NEW i \in 1 .. Len(k.table),
         Nonzero(k.table[i]), BlobOf(d, k.table[i]) = k.table[i].encoded_sha
  PROVE  BlobOf(c, k.table[i]) = k.table[i].encoded_sha
<1> DEFINE e == k.table[i]
           a == e.blob_offset
           m == e.encoded_len
           N == Len(k.blob)
           X == ToSet(k.blob) \cup {NoiseBlock}
<1>1. /\ BlobOf(k, e) = e.encoded_sha
      /\ m \in Nat /\ a \in Nat /\ a + m <= N
  <2>1. /\ BlobOf(k, e) = e.encoded_sha /\ BlobEnd(k.table) <= N /\ BlobEnd(k.table) \in Nat
    BY DEF ContainerIs, Apart
  <2>2. m \in Nat /\ a \in Nat /\ a + m <= BlobEnd(k.table)
    BY DEF ContainerIs, Apart
  <2>3. N \in Nat
    BY LenProperties DEF IsContainer
  <2> HIDE DEF a, m, N
  <2> QED
    BY <2>1, <2>2, <2>3
<1>2. /\ N \in Nat /\ DOMAIN k.blob = 1 .. N /\ k.blob \in Seq(X)
      /\ \A j \in 1 .. N : k.blob[j] \in X
  <2>1. k.blob \in Seq(ToSet(k.blob))
    BY DEF IsContainer
  <2>2. N \in Nat /\ DOMAIN k.blob = 1 .. N
    BY <2>1, LenProperties
  <2>3. ToSet(k.blob) \subseteq X
    OBVIOUS
  <2>4. k.blob \in Seq(X)
    BY <2>1, <2>3, SeqMonotonic
  <2>5. \A j \in 1 .. N : k.blob[j] \in X
    BY <2>2 DEF ToSet
  <2> QED
    BY <2>2, <2>4, <2>5
<1> HIDE DEF X, N
<1>3. /\ c.blob = [j \in 1 .. N |-> c.blob[j]] /\ d.blob = [j \in 1 .. N |-> d.blob[j]]
      /\ \A j \in 1 .. N : c.blob[j] \in {k.blob[j], NoiseBlock}
      /\ \A j \in 1 .. N : d.blob[j] \in {c.blob[j], NoiseBlock}
  BY <1>2 DEF Rests, LeftOf
<1>4. \A j \in 1 .. N : c.blob[j] \in X /\ d.blob[j] \in X
  BY <1>2, <1>3 DEF X
<1>5. /\ c.blob \in Seq(X) /\ Len(c.blob) = N /\ d.blob \in Seq(X) /\ Len(d.blob) = N
  <2>1. /\ c.blob \in Seq(ToSet(c.blob)) /\ Len(c.blob) = N /\ DOMAIN c.blob = 1 .. N
        /\ d.blob \in Seq(ToSet(d.blob)) /\ Len(d.blob) = N /\ DOMAIN d.blob = 1 .. N
    BY <1>2, <1>3, IsSequence
  <2>2. ToSet(c.blob) \subseteq X /\ ToSet(d.blob) \subseteq X
    BY <1>4, <2>1 DEF ToSet
  <2> QED
    BY <2>1, <2>2, SeqMonotonic
<1>6. /\ BlobOf(k, e) = SubSeq(k.blob, a + 1, a + m)
      /\ BlobOf(c, e) = SubSeq(c.blob, a + 1, a + m)
      /\ BlobOf(d, e) = SubSeq(d.blob, a + 1, a + m)
  BY DEF BlobOf
<1> HIDE DEF e, a, m
<1>7. /\ BlobOf(k, e) \in Seq(X) /\ Len(BlobOf(k, e)) = m
      /\ \A j \in 1 .. m : BlobOf(k, e)[j] = k.blob[a + j]
  BY <1>1, <1>2, <1>6, SliceIs DEF N
<1>8. /\ BlobOf(c, e) \in Seq(X) /\ Len(BlobOf(c, e)) = m
      /\ \A j \in 1 .. m : BlobOf(c, e)[j] = c.blob[a + j]
  BY <1>1, <1>5, <1>6, SliceIs
<1>9. /\ BlobOf(d, e) \in Seq(X) /\ Len(BlobOf(d, e)) = m
      /\ \A j \in 1 .. m : BlobOf(d, e)[j] = d.blob[a + j]
  BY <1>1, <1>5, <1>6, SliceIs
<1>10. BlobOf(d, e) = BlobOf(k, e)
  BY <1>1 DEF e
<1>11. \A j \in 1 .. m : BlobOf(c, e)[j] = BlobOf(k, e)[j]
  <2> TAKE j \in 1 .. m
  <2>1. a + j \in 1 .. N
    BY <1>1, <1>2
  <2>2. c.blob[a + j] \in {k.blob[a + j], NoiseBlock} /\ d.blob[a + j] \in {c.blob[a + j], NoiseBlock}
    BY <1>3, <2>1
  <2>3. d.blob[a + j] = k.blob[a + j]
    BY <1>7, <1>9, <1>10
  <2> QED
    BY <1>7, <1>8, <2>2, <2>3
<1>12. BlobOf(c, e) = BlobOf(k, e)
  BY <1>1, <1>7, <1>8, <1>11, SeqEqual
<1> QED
  BY <1>1, <1>12 DEF e

\* Decay may take a blob that is still to be written, never bring one back.
LEMMA DecayKeeps ==
  ASSUME Inv, Decay
  PROVE  Inv'
<1>1. /\ stage \in {"carried", "found", "writing"} /\ stage' = stage
      /\ container # None /\ medium' \in Decayed(medium)
      /\ UNCHANGED <<inputs, container, changes>>
      /\ esp' = esp /\ root' = root /\ container' = container
      /\ plan' = plan /\ next' = next /\ target' = target
  BY DEF Decay, inputs
<1>2. decays' \in 0 .. Decays /\ decays' # Decays
  <2>1. decays \in 0 .. Decays /\ decays > 0 /\ decays' = decays - 1
    BY DEF Decay, Inv, TypeOK
  <2>2. Decays \in Nat
    BY Sizes
  <2> QED
    BY ONLY <2>1, <2>2
<1>3. ~Making /\ ~Making' /\ stage # "packed"
  BY <1>1 DEF Making
<1>4. Own
  BY <1>1, <1>3 DEF Inv, Foreign
<1>5. PacksTheGraph(container, esp, root) /\ IsContainer(container)
  BY <1>4 DEF Own, PacksTheGraph
<1>6. PICK c : Ships(medium, c) /\ LeftOf(c, container)
  BY <1>4 DEF Own
<1>7. PICK d : Ships(medium', d) /\ Rests(d, c, container)
  BY <1>1, <1>5, <1>6, DecayedMedium
<1>8. ContainerIs(container, Blocks(Layout), Image)
  BY <1>5, PackedContainer DEF Layout, Image
<1>9. Payload = c /\ Payload' = d
  BY <1>6, <1>7, PayloadIs DEF Payload, PayloadStart
<1>10. Image' = Image /\ Layout' = Layout
  BY <1>1 DEF Image, Layout
<1>11. Writes' <=> Writes
  BY <1>1 DEF Writes
<1>12. ASSUME Writes PROVE SoFar(plan.table, next, target, d, Image)
  <2>1. plan.table = container.table /\ SoFar(plan.table, next, target, c, Image)
    BY <1>4, <1>9, <1>12 DEF Own
  <2>2. ASSUME NEW i \in 1 .. Len(plan.table),
               Nonzero(plan.table[i]) => BlobOf(d, plan.table[i]) = plan.table[i].encoded_sha
        PROVE  Nonzero(plan.table[i]) => BlobOf(c, plan.table[i]) = plan.table[i].encoded_sha
    BY <1>5, <1>6, <1>7, <1>8, <2>1, <2>2, DecayTakes
  <2> QED
    BY <2>1, <2>2 DEF SoFar
<1>13. Own'
  <2>1. PacksTheGraph(container', esp', root')
    BY <1>1, <1>5
  <2>2. \E x : Ships(medium', x) /\ LeftOf(x, container')
    BY <1>1, <1>7 DEF Rests
  <2>3. ASSUME Writes' PROVE /\ plan'.table = container'.table /\ plan'.blocks = Blocks(Layout')
                             /\ SoFar(plan'.table, next', target', Payload', Image')
    <3>1. Writes
      BY <1>11, <2>3
    <3>2. plan.table = container.table /\ plan.blocks = Blocks(Layout)
      BY <1>4, <3>1 DEF Own
    <3> QED
      BY <1>1, <1>9, <1>10, <1>12, <3>1, <3>2
  <2> QED
    BY <1>2, <2>1, <2>2, <2>3 DEF Own
<1>14. DOMAIN target' = Covers(0, TargetSectors)
  BY <1>1 DEF Inv
<1>15. stage' \notin {"writing", "written", "failed"} => Untouched'
  BY <1>1 DEF Inv, Untouched
<1>16. PlanHolds' \/ (Untouched' /\ ~Writes')
  <2>1. PlanHolds \/ (Untouched /\ ~Writes)
    BY DEF Inv
  <2>2. (PlanHolds' <=> PlanHolds) /\ (Untouched' <=> Untouched)
    BY <1>1 DEF PlanHolds, Untouched
  <2> QED
    BY <1>11, <2>1, <2>2
<1>17. stage' \in {"carried", "found", "none found", "writing", "written", "failed"}
  BY <1>1
<1> QED
  BY <1>1, <1>2, <1>3, <1>13, <1>14, <1>15, <1>16, <1>17, StillCarried

\* A write that fails leaves what it has written.
LEMMA WriteFailsKeeps ==
  ASSUME Inv, WriteFails
  PROVE  Inv'
<1>1. /\ stage = "writing" /\ stage' = "failed"
      /\ UNCHANGED <<inputs, container, changes>> /\ medium' = medium
      /\ esp' = esp /\ root' = root /\ container' = container
      /\ plan' = plan /\ next' = next /\ target' = target /\ decays' = decays
  BY DEF WriteFails, inputs, carried
<1>2. ~Making /\ ~Making' /\ stage # "packed" /\ Writes
  BY <1>1 DEF Making, Writes
<1>3. PlanHolds /\ (Foreign \/ Own)
  BY <1>2 DEF Inv
<1>4. Image' = Image /\ Layout' = Layout /\ Payload' = Payload
  BY <1>1 DEF Image, Layout, Payload
<1>5. Foreign' \/ Own'
  <2>1. ASSUME Foreign PROVE Foreign'
    BY <1>1, <1>2, <2>1 DEF Foreign
  <2>2. ASSUME Own PROVE Own'
    <3>1. PacksTheGraph(container', esp', root')
      BY <1>1, <2>2 DEF Own
    <3>2. \E c : Ships(medium', c) /\ LeftOf(c, container')
      BY <1>1, <2>2 DEF Own
    <3>3. decays' = Decays => medium' = Medium(container') /\ Probed(medium')
      BY <1>1, <2>2 DEF Own
    <3>4. /\ plan'.table = container'.table /\ plan'.blocks = Blocks(Layout')
          /\ SoFar(plan'.table, next', target', Payload', Image')
      BY <1>1, <1>2, <1>4, <2>2 DEF Own
    <3> QED
      BY <3>1, <3>2, <3>3, <3>4 DEF Own
  <2> QED
    BY <1>3, <2>1, <2>2
<1>6. DOMAIN target' = Covers(0, TargetSectors) /\ decays' \in 0 .. Decays
  BY <1>1 DEF Inv, TypeOK
<1>7. PlanHolds'
  BY <1>1, <1>3 DEF PlanHolds
<1>8. stage' \in {"carried", "found", "none found", "writing", "written", "failed"}
  BY <1>1
<1> QED
  BY <1>1, <1>2, <1>5, <1>6, <1>7, <1>8, StillCarried

\* A table that the installer accepts of another maker's medium.
LEMMA OtherAccepted ==
  ASSUME NEW t \in OtherTables, AcceptsMetadata(Other(t), Other(t).prelude.total)
  PROVE  Tiled(t[1], t[2]) /\ Apart(t[1]) /\ Kinds(t[1])
         /\ Other(t).prelude.minimum = t[2]
<1> DEFINE p == Other(t).prelude
           table == t[1]
<1>1. /\ table \in Seq(ToSet(table)) /\ t[2] \in Nat /\ Other(t).table = table
      /\ p.target = t[2]
      /\ \A i \in 1 .. Len(table) :
            {table[i].offset, table[i].len, table[i].encoded_len} \subseteq Nat
  BY OtherIs
<1>2. /\ p.target = p.minimum
      /\ p.omitted = saturating_sub(p.target, p.planned) /\ p.omitted = 0
  BY DEF AcceptsMetadata, parse_prelude
<1>3. validate_entries_metadata(table, p)
  BY <1>1 DEF AcceptsMetadata
<1> HIDE DEF p, table
<1>4. Tiled(table, p.target) /\ Apart(table) /\ Kinds(table)
  BY <1>1, <1>2, <1>3, AcceptedTables
<1> QED
  BY <1>1, <1>2, <1>4 DEF p, table

\* What is left of a container that was packed is accepted with its table.
LEMMA OwnAccepted ==
  ASSUME NEW k, NEW n, NEW image, ContainerIs(k, n, image), IsContainer(k), NEW c, LeftOf(c, k),
         NEW units, AcceptsMetadata(c, units)
  PROVE  c.table = k.table /\ c.prelude.target = n /\ c.prelude.minimum = n
<1>1. c.table = k.table
  BY DEF AcceptsMetadata, LeftOf, ContainerIs
<1>2. c.manifest = k.manifest /\ \A f \in DOMAIN c.manifest : c.manifest[f] = c.prelude[f]
  BY DEF AcceptsMetadata, validate_manifest, LeftOf, ContainerIs
<1>3. /\ "target" \in DOMAIN c.manifest /\ "minimum" \in DOMAIN c.manifest
      /\ c.manifest.target = n /\ c.manifest.minimum = n
  BY <1>2 DEF IsContainer, ContainerIs
<1> QED
  BY <1>1, <1>2, <1>3

\* Before the first extent nothing is touched.
LEMMA NothingTouched ==
  ASSUME NEW table, NEW blocks, Tiled(table, blocks),
         NEW disk, \A s \in Covers(0, TargetSectors) : disk[s] = Old
  PROVE  Touched(table, blocks, 1, disk)
<1>1. Len(table) \in Nat /\ (table = <<>> <=> Len(table) = 0) /\ BlockSectors \in Nat
      /\ TargetSectors \in Nat
  BY SeqOfItself, Room, Sizes DEF Tiled
<1>2. Done(table, blocks, 1) = 0
  <2>1. CASE table = <<>>
    <3>1. ~(1 <= Len(table)) /\ blocks = 0
      BY <1>1, <2>1 DEF Tiled
    <3> QED
      BY <3>1 DEF Done
  <2>2. CASE table # <<>>
    <3>1. 1 <= Len(table) /\ 1 \in 1 .. Len(table)
      BY <1>1, <2>2
    <3>2. table[1].offset = 0
      BY <3>1 DEF Tiled
    <3> QED
      BY <3>1, <3>2 DEF Done
  <2> QED
    BY <2>1, <2>2
<1>3. 0 * BlockSectors = 0
  BY <1>1
<1>4. \A s \in Covers(0, TargetSectors) : s \in Nat
  BY <1>1, InCovers
<1>5. \A s \in Covers(0, TargetSectors) : 0 <= s
  BY <1>4
<1> QED
  BY <1>2, <1>3, <1>5 DEF Touched

\* A table that the check at the start accepts is that of the container or, on a
\* medium of another maker, one that covers too.
LEMMA BeginKeeps ==
  ASSUME Inv, Begin
  PROVE  Inv'
<1>1. /\ stage = "found" /\ UNCHANGED <<inputs, container, changes>> /\ medium' = medium
      /\ esp' = esp /\ root' = root /\ container' = container
      /\ next' = next /\ target' = target /\ decays' = decays
  BY DEF Begin, inputs
<1>2. ~Making /\ stage # "packed"
  BY <1>1 DEF Making
<1>3. Untouched /\ DOMAIN target = Covers(0, TargetSectors) /\ decays \in 0 .. Decays
      /\ (Foreign \/ Own)
  BY <1>1, <1>2 DEF Inv, TypeOK
<1>4. Image' = Image /\ Layout' = Layout /\ Payload' = Payload
  BY <1>1 DEF Image, Layout, Payload
<1>5. CASE stage' = "failed" /\ plan' = plan
  <2>1. Untouched' /\ ~Writes' /\ ~Making'
    BY <1>1, <1>3, <1>5 DEF Untouched, Writes, Making
  <2>2. ASSUME Foreign PROVE Foreign'
    BY <1>1, <2>1, <2>2 DEF Foreign
  <2>3. ASSUME Own PROVE Own'
    <3>1. PacksTheGraph(container', esp', root')
      BY <1>1, <2>3 DEF Own
    <3>2. \E c : Ships(medium', c) /\ LeftOf(c, container')
      BY <1>1, <2>3 DEF Own
    <3>3. decays' = Decays => medium' = Medium(container') /\ Probed(medium')
      BY <1>1, <2>3 DEF Own
    <3> QED
      BY <2>1, <3>1, <3>2, <3>3 DEF Own
  <2>4. stage' \in {"carried", "found", "none found", "writing", "written", "failed"}
    BY <1>5
  <2>5. stage' \notin {"writing", "written", "failed"} => Untouched'
    BY <2>1
  <2>6. PlanHolds' \/ (Untouched' /\ ~Writes')
    BY <2>1
  <2>7. Foreign' \/ Own'
    BY <1>3, <2>2, <2>3
  <2>8. decays' \in 0 .. Decays /\ DOMAIN target' = Covers(0, TargetSectors)
    BY <1>1, <1>3
  <2> QED
    BY <1>1, <1>2, <2>1, <2>4, <2>5, <2>6, <2>7, <2>8, StillCarried
<1>6. CASE /\ AcceptsMetadata(Payload, Payload.prelude.total)
           /\ Payload.prelude.minimum * BlockSectors <= TargetSectors
           /\ stage' = (IF Payload.table = <<>> THEN "written" ELSE "writing")
           /\ plan' = [table |-> Payload.table, blocks |-> Payload.prelude.target]
  <2> DEFINE table == Payload.table
             blocks == Payload.prelude.target
             n == Len(table)
             Good == /\ Tiled(table, blocks) /\ Apart(table) /\ Kinds(table)
                     /\ Payload.prelude.minimum = blocks
  <2>1. /\ stage' \in {"writing", "written"} /\ ~Making' /\ Writes'
        /\ plan'.table = table /\ plan'.blocks = blocks
    BY <1>6 DEF Making, Writes
  <2>2. ASSUME Foreign PROVE Good /\ Foreign'
    <3>1. PICK t \in OtherTables : medium = OtherMedium(t)
      BY <2>2 DEF Foreign
    <3>2. Payload = Other(t)
      BY <3>1, OtherIs, PayloadIs DEF Payload, PayloadStart
    <3>3. table = t[1] /\ blocks = t[2]
      BY <3>2, OtherIs
    <3>4. Good
      BY <1>6, <3>2, <3>3, OtherAccepted
    <3>5. Foreign'
      BY <1>1, <2>1, <2>2, <3>1, <3>3 DEF Foreign
    <3> QED
      BY <3>4, <3>5
  <2>3. ASSUME Own PROVE Good /\ Own'
    <3>1. PacksTheGraph(container, esp, root) /\ IsContainer(container)
      BY <2>3 DEF Own, PacksTheGraph
    <3>2. ContainerIs(container, Blocks(Layout), Image)
      BY <3>1, PackedContainer DEF Layout, Image
    <3>3. PICK c : Ships(medium, c) /\ LeftOf(c, container)
      BY <2>3 DEF Own
    <3>4. Payload = c
      BY <3>3, PayloadIs DEF Payload, PayloadStart
    <3>5. table = container.table /\ blocks = Blocks(Layout)
          /\ Payload.prelude.minimum = Blocks(Layout)
      BY <1>6, <3>1, <3>2, <3>3, <3>4, OwnAccepted
    <3>6. Good
      BY <3>2, <3>5 DEF ContainerIs
    <3>7. SoFar(table, next, target, Payload, Image)
      <4>1. next = 1 /\ n \in Nat
        BY <1>3, <3>6, SeqOfItself DEF Untouched, Tiled
      <4>2. \A i \in 1 .. n : ~(i < next)
        BY <4>1
      <4> QED
        BY <4>2 DEF SoFar
    <3>8. Own'
      <4>1. PacksTheGraph(container', esp', root')
        BY <1>1, <3>1
      <4>2. \E x : Ships(medium', x) /\ LeftOf(x, container')
        BY <1>1, <2>3 DEF Own
      <4>3. decays' = Decays => medium' = Medium(container') /\ Probed(medium')
        BY <1>1, <2>3 DEF Own
      <4>4. /\ plan'.table = container'.table /\ plan'.blocks = Blocks(Layout')
            /\ SoFar(plan'.table, next', target', Payload', Image')
        BY <1>1, <1>4, <2>1, <3>5, <3>7
      <4> QED
        BY <4>1, <4>2, <4>3, <4>4 DEF Own
    <3> QED
      BY <3>6, <3>8
  <2>4. Good /\ (Foreign' \/ Own')
    BY <1>3, <2>2, <2>3
  <2>5. n \in Nat /\ (table = <<>> <=> n = 0)
    BY <2>4, SeqOfItself DEF Tiled
  <2>6. PlanHolds'
    <3>1. Touched(table, blocks, 1, target)
      BY <1>3, <2>4, NothingTouched DEF Untouched
    <3>2. blocks * BlockSectors <= TargetSectors
      BY <1>6, <2>4
    <3>3. next' = 1 /\ target' = target
      BY <1>1, <1>3 DEF Untouched
    <3>4. stage' = "writing" => table # <<>>
      BY <1>6
    <3>5. stage' = "written" => table = <<>>
      BY <1>6
    <3>6. 1 \in 1 .. n + 1
      BY <2>5
    <3>7. stage' = "writing" => 1 <= n
      BY <2>5, <3>4
    <3>8. stage' = "written" => 1 = n + 1
      BY <2>5, <3>5
    <3>9. Tiled(table, blocks) /\ Apart(table) /\ Kinds(table)
      BY <2>4
    <3> HIDE DEF table, blocks
    <3> QED
      BY <2>1, <3>1, <3>2, <3>3, <3>6, <3>7, <3>8, <3>9 DEF PlanHolds
  <2>7. stage' \in {"carried", "found", "none found", "writing", "written", "failed"}
    BY <2>1
  <2>8. stage' \notin {"writing", "written", "failed"} => Untouched'
    BY <2>1
  <2>9. decays' \in 0 .. Decays /\ DOMAIN target' = Covers(0, TargetSectors)
    BY <1>1, <1>3
  <2> HIDE DEF Good, table, blocks, n
  <2> QED
    BY <1>1, <1>2, <2>1, <2>4, <2>6, <2>7, <2>8, <2>9, StillCarried
<1> QED
  BY <1>5, <1>6 DEF Begin

\* An extent goes where it belongs; if its blob is intact it is the image's.
LEMMA WriteExtentKeeps ==
  ASSUME Inv, WriteExtent
  PROVE  Inv'
<1> DEFINE table == plan.table
           blocks == plan.blocks
           n == Len(table)
           e == table[next]
           Has == Nonzero(e) => BlobOf(Payload, e) = e.encoded_sha
<1>1. /\ stage = "writing" /\ UNCHANGED <<inputs, container, changes>> /\ medium' = medium
      /\ esp' = esp /\ root' = root /\ container' = container
      /\ plan' = plan /\ next' = next + 1 /\ decays' = decays
      /\ stage' = (IF next = n THEN "written" ELSE "writing")
  BY DEF WriteExtent, Advance, inputs
<1>2. ~Making /\ ~Making' /\ stage # "packed" /\ Writes
      /\ stage' \in {"writing", "written"}
  BY <1>1 DEF Making, Writes
<1>3. /\ PlanHolds /\ (Foreign \/ Own) /\ decays \in 0 .. Decays
      /\ DOMAIN target = Covers(0, TargetSectors)
  BY <1>1, <1>2 DEF Inv, TypeOK
<1>4. /\ Tiled(table, blocks) /\ Apart(table) /\ Kinds(table)
      /\ blocks * BlockSectors <= TargetSectors /\ next \in 1 .. n + 1
      /\ next <= n /\ Touched(table, blocks, next, target)
  BY <1>1, <1>3 DEF PlanHolds
<1>5. n \in Nat /\ next \in 1 .. n
  <2>1. n \in Nat
    BY <1>4, SeqOfItself DEF Tiled
  <2> HIDE DEF n
  <2> QED
    BY <1>4, <2>1
<1>6. Image' = Image /\ Layout' = Layout /\ Payload' = Payload
  BY <1>1 DEF Image, Layout, Payload
<1>7. PICK bytes \in Bytes(e) : bytes # None /\ target' = Put(e, bytes)
  BY DEF WriteExtent
<1> HIDE DEF table, blocks, n, e, Has
<1>8. ASSUME Foreign PROVE AreBlocks(bytes) /\ Len(bytes) = e.len
  <2>1. PICK t \in OtherTables : medium = OtherMedium(t) /\ table = t[1]
    BY <1>2, <1>8 DEF Foreign, table
  <2>2. Apart(t[1]) /\ Kinds(t[1]) /\ next \in 1 .. Len(t[1]) /\ bytes \in Bytes(t[1][next])
    BY <1>4, <1>5, <1>7, <2>1 DEF n, e
  <2> QED
    BY <1>7, <2>1, <2>2, OtherBytes DEF e
<1>9. ASSUME Own
      PROVE  /\ AreBlocks(bytes) /\ Len(bytes) = e.len
             /\ Has => bytes = e.sha
             /\ EntryDescribes(e, Image)
             /\ SoFar(table, next, target, Payload, Image)
  <2>1. PacksTheGraph(container, esp, root) /\ IsContainer(container)
    BY <1>9 DEF Own, PacksTheGraph
  <2>2. ContainerIs(container, Blocks(Layout), Image)
    BY <2>1, PackedContainer DEF Layout, Image
  <2>3. PICK c : Ships(medium, c) /\ LeftOf(c, container)
    BY <1>9 DEF Own
  <2>4. Payload = c
    BY <2>3, PayloadIs DEF Payload, PayloadStart
  <2>5. table = container.table /\ SoFar(table, next, target, Payload, Image)
    BY <1>2, <1>9 DEF Own, table
  <2>6. next \in 1 .. Len(container.table) /\ e = container.table[next]
    BY <1>5, <2>5 DEF n, e
  <2>7. EntryDescribes(e, Image)
    BY <2>2, <2>6 DEF ContainerIs
  <2>8. AreBlocks(bytes) /\ Len(bytes) = e.len
        /\ ((Nonzero(e) => BlobOf(c, e) = e.encoded_sha) => bytes = e.sha)
    BY <1>7, <2>1, <2>2, <2>3, <2>4, <2>6, OwnBytes
  <2> QED
    BY <2>4, <2>5, <2>7, <2>8 DEF Has
<1>10. AreBlocks(bytes) /\ Len(bytes) = e.len
  BY <1>3, <1>8, <1>9
<1>11. /\ e.offset \in Nat /\ e.len \in Nat
       /\ (e.offset + e.len) * BlockSectors <= TargetSectors
  BY <1>4, <1>5, ExtentFits DEF n, e
<1>12. PutHolds(target', target, e.offset, e.len, bytes)
  BY <1>3, <1>7, <1>10, <1>11, PutIs
<1>13. Touched(table, blocks, next', target')
  BY <1>1, <1>4, <1>5, <1>12, TouchedFurther DEF n, e
<1>14. PlanHolds'
  <2>1. next' \in 1 .. n + 1
    BY <1>1, <1>5
  <2>2. stage' = "writing" => next' <= n
    BY <1>1, <1>5
  <2>3. stage' = "written" => next' = n + 1
    BY <1>1
  <2>4. plan'.table = table /\ plan'.blocks = blocks
    BY <1>1 DEF table, blocks
  <2> QED
    BY <1>4, <1>13, <2>1, <2>2, <2>3, <2>4 DEF PlanHolds, n
<1>15. Foreign' \/ Own'
  <2>1. ASSUME Foreign PROVE Foreign'
    BY <1>1, <1>2, <2>1 DEF Foreign
  <2>2. ASSUME Own PROVE Own'
    <3>1. PacksTheGraph(container', esp', root')
      BY <1>1, <2>2 DEF Own
    <3>2. \E c : Ships(medium', c) /\ LeftOf(c, container')
      BY <1>1, <2>2 DEF Own
    <3>3. decays' = Decays => medium' = Medium(container') /\ Probed(medium')
      BY <1>1, <2>2 DEF Own
    <3>4. plan'.table = container'.table /\ plan'.blocks = Blocks(Layout')
      BY <1>1, <1>2, <1>6, <2>2 DEF Own
    <3>5. SoFar(table, next + 1, target', Payload, Image)
      BY <1>4, <1>5, <1>9, <1>12, <2>2, SoFarFurther DEF n, e, Has
    <3>6. SoFar(plan'.table, next', target', Payload', Image')
      BY <1>1, <1>6, <3>5 DEF table
    <3> QED
      BY <3>1, <3>2, <3>3, <3>4, <3>6 DEF Own
  <2> QED
    BY <1>3, <2>1, <2>2
<1>16. DOMAIN target' = Covers(0, TargetSectors) /\ decays' \in 0 .. Decays
  BY <1>1, <1>3, <1>12 DEF PutHolds
<1>17. stage' \in {"carried", "found", "none found", "writing", "written", "failed"}
  BY <1>2
<1>18. stage' \notin {"writing", "written", "failed"} => Untouched'
  BY <1>2
<1> QED
  BY <1>1, <1>2, <1>14, <1>15, <1>16, <1>17, <1>18, StillCarried

-----------------------------------------------------------------------------
(* The theorems.                                                           *)

\* The sources of a first build, or a medium of another maker.
LEMMA InitHolds == Init => Inv
<1> SUFFICES ASSUME Init PROVE Inv
  OBVIOUS
<1>1. /\ cache = {} /\ container = None /\ plan = None /\ next = 1
      /\ target = [s \in Covers(0, TargetSectors) |-> Old]
      /\ changes = Changes /\ decays = Decays
      /\ stage \in {"sources", "carried"}
  BY DEF Init
<1>2. Changes \in 0 .. Changes /\ Decays \in 0 .. Decays
  <2>1. Changes \in Nat /\ Decays \in Nat
    BY Sizes
  <2> QED
    BY ONLY <2>1
<1>3. TypeOK
  BY <1>1, <1>2 DEF TypeOK
<1>4. Untouched /\ ~Writes /\ DOMAIN target = Covers(0, TargetSectors)
  BY <1>1 DEF Untouched, Writes
<1>5. Making => esp \in EspFiles /\ root \in RootFiles /\ medium = None
  BY DEF Init, Making
<1>6. ~Making => Foreign
  BY <1>1, <1>4 DEF Init, Making, Foreign
<1>7. CacheHoldsBlocks(cache) /\ stage # "packed"
  BY <1>1 DEF CacheHoldsBlocks
<1> QED
  BY <1>1, <1>3, <1>4, <1>5, <1>6, <1>7 DEF Inv

\* The payload's inductive invariant: the container is the graph of the two
\* files, the medium ships what is left of it, and the target holds the extents
\* up to the next one and nothing behind them (build.rs, write.rs).
THEOREM PayloadInvariant == Spec => []Inv
<1>1. Init => Inv
  BY InitHolds
<1>2. Inv /\ [Next]_vars => Inv'
  <2> SUFFICES ASSUME Inv, [Next]_vars PROVE Inv'
    OBVIOUS
  <2>1. CASE Change
    BY <2>1, ChangeKeeps
  <2>2. CASE Pack
    BY <2>2, PackKeeps
  <2>3. CASE PackFails
    BY <2>3, PackFailsKeeps
  <2>4. CASE Publish
    BY <2>4, PublishKeeps
  <2>5. CASE Decay
    BY <2>5, DecayKeeps
  <2>6. CASE Find
    BY <2>6, FindKeeps
  <2>7. CASE Begin
    BY <2>7, BeginKeeps
  <2>8. CASE WriteExtent
    BY <2>8, WriteExtentKeeps
  <2>9. CASE WriteFails
    BY <2>9, WriteFailsKeeps
  <2>10. CASE UNCHANGED vars
    BY <2>10 DEF Inv, TypeOK, Making, Writes, Untouched, PlanHolds, Foreign, Own,
                 Layout, Payload, Image, vars, inputs
  <2> QED
    BY <2>1, <2>2, <2>3, <2>4, <2>5, <2>6, <2>7, <2>8, <2>9, <2>10 DEF Next
<1> QED
  BY <1>1, <1>2, PTL DEF Spec

\* No extent of a container or of the cache is longer than the 64 MiB that a
\* decoder is given room for (PAYLOAD_EXTENT_MAX_UNCOMPRESSED_BYTES).
THEOREM PayloadTypeCorrect == Spec => []TypeOK
<1>1. Inv => TypeOK
  BY DEF Inv
<1> QED
  BY <1>1, PayloadInvariant, PTL

\* What the builder packs is the image the flat writer would have made, whose
\* GPT reads back, and its medium passes the full check (build.rs, artifacts.rs).
THEOREM PayloadGraphIsTheImage == Spec => []TheGraphIsTheImage
<1>1. Inv => TheGraphIsTheImage
  BY GraphIsTheImage
<1> QED
  BY <1>1, PayloadInvariant, PTL

\* Whoever made the medium, a table that is accepted covers the target once and
\* a write touches the image's sectors and no other (validate.rs, write.rs).
THEOREM PayloadAcceptedCoversTheTarget == Spec => []AcceptedCoversTheTarget
<1>1. Inv => AcceptedCoversTheTarget
  BY PlanCovers
<1> QED
  BY <1>1, PayloadInvariant, PTL

\* When a write reports success, what the medium still had of the image is on
\* the disk where it belongs, whatever else has decayed (write.rs).
THEOREM PayloadWrittenIsTheImage == Spec => []WrittenIsTheImage
<1>1. Inv => WrittenIsTheImage
  BY WrittenImage
<1> QED
  BY <1>1, PayloadInvariant, PTL
==============================================================================
