---------------------------- MODULE SamplerProofs ----------------------------
(***************************************************************************)
(* The safety properties of Sampler: TypeOK, RatesNeverOverstate,          *)
(* RetainedAreTheLatest and StaticIsRecent, from one inductive invariant   *)
(* that relates every sample to what the meters have moved since.  Sums    *)
(* over sets and the filtered log are recursive, so their laws come first, *)
(* by induction.                                                           *)
(***************************************************************************)
EXTENDS Sampler, FiniteSetTheorems, SequenceTheorems, WellFoundedInduction, TLAPS

-----------------------------------------------------------------------------
(* Sums.  The library's sum folds over a set with a recursive function.    *)

\* A set of numbers that has 0, and with each number the next, has them all.
LEMMA Induction ==
  ASSUME NEW Holds, 0 \in Holds, \A n \in Nat : n \in Holds => n + 1 \in Holds
  PROVE  \A n \in Nat : n \in Holds
<1> SUFFICES ASSUME NEW m \in Nat, m \notin Holds PROVE FALSE
  OBVIOUS
<1> DEFINE T == {n \in Nat : n \notin Holds}
           R == OpToRel(<, Nat)
<1>1. T \subseteq Nat /\ T # {}
  OBVIOUS
<1>2. PICK x \in T : \A y \in T : <<y, x>> \notin R
  <2> HIDE DEF T, R
  <2>1. IsWellFoundedOn(R, Nat)
    BY NatLessThanWellFounded DEF R
  <2> QED
    BY ONLY <1>1, <2>1, WFMin
<1>3. \A y, z \in Nat : y < z => <<y, z>> \in R
  BY DEF OpToRel
<1>4. x \in Nat /\ x # 0
  OBVIOUS
<1>5. x - 1 \in Nat /\ x - 1 < x /\ (x - 1) + 1 = x
  BY <1>4
<1> QED
  BY <1>2, <1>3, <1>4, <1>5

\* The element the fold takes next, and its recursion over the parts D of a set.
Pick(s) == CHOOSE x \in s : TRUE
Adds(h, f, D) ==
  h = [s \in D |-> IF s = {} THEN 0 ELSE f[Pick(s)] + h[s \ {Pick(s)}]]

\* A finite set with an element taken away has one element less.
LEMMA OneLess ==
  ASSUME NEW S, IsFiniteSet(S), NEW x \in S
  PROVE  /\ IsFiniteSet(S \ {x}) /\ Cardinality(S \ {x}) = Cardinality(S) - 1
         /\ Cardinality(S) \in Nat /\ Cardinality(S) # 0 /\ Cardinality(S \ {x}) \in Nat
<1>1. IsFiniteSet(S \ {x}) /\ Cardinality(S \ {x}) = Cardinality(S) - 1
  BY FS_RemoveElement
<1>2. Cardinality(S) \in Nat /\ Cardinality(S \ {x}) \in Nat
  BY <1>1, FS_CardinalityType
<1> QED
  BY <1>1, <1>2

\* The recursion has a solution.
LEMMA AddsExists ==
  ASSUME NEW f, NEW S, IsFiniteSet(S)
  PROVE  \E h : Adds(h, f, SUBSET S)
<1> DEFINE Small(n) == {s \in SUBSET S : Cardinality(s) <= n}
           Holds == {n \in Nat : \E h : Adds(h, f, Small(n))}
<1>0. \A s \in SUBSET S : IsFiniteSet(s) /\ Cardinality(s) \in Nat
  BY FS_Subset, FS_CardinalityType
<1>1. 0 \in Holds
  <2>1. Small(0) = {{}}
    BY <1>0, FS_EmptySet
  <2>2. Adds([s \in Small(0) |-> 0], f, Small(0))
    BY <2>1 DEF Adds
  <2> QED
    BY <2>2
<1>2. ASSUME NEW n \in Nat, n \in Holds PROVE n + 1 \in Holds
  <2>1. PICK h : Adds(h, f, Small(n))
    BY <1>2
  <2> DEFINE g == [s \in Small(n + 1) |-> IF s = {} THEN 0 ELSE f[Pick(s)] + h[s \ {Pick(s)}]]
  <2>2. \A s \in Small(n + 1) : s # {} => s \ {Pick(s)} \in Small(n)
    <3> SUFFICES ASSUME NEW s \in Small(n + 1), s # {} PROVE s \ {Pick(s)} \in Small(n)
      OBVIOUS
    <3>1. Pick(s) \in s
      BY DEF Pick
    <3>2. Cardinality(s \ {Pick(s)}) = Cardinality(s) - 1 /\ Cardinality(s) \in Nat
      BY <1>0, <3>1, OneLess
    <3> QED
      BY <3>2
  <2>3. \A s \in Small(n) : s \in Small(n + 1)
    BY <1>0
  <2>4. \A s \in Small(n) : g[s] = h[s]
    <3> HIDE DEF Small
    <3> QED
      BY <2>1, <2>3 DEF Adds
  <2>5. Adds(g, f, Small(n + 1))
    <3> HIDE DEF Small
    <3>1. \A s \in Small(n + 1) : s # {} => h[s \ {Pick(s)}] = g[s \ {Pick(s)}]
      <4> HIDE DEF g
      <4> QED
        BY <2>2, <2>4
    <3>2. g = [s \in Small(n + 1) |-> IF s = {} THEN 0 ELSE f[Pick(s)] + g[s \ {Pick(s)}]]
      BY <3>1
    <3> QED
      BY <3>2 DEF Adds
  <2>6. \E h_ : Adds(h_, f, Small(n + 1))
    <3> HIDE DEF g, Small
    <3> QED
      BY <2>5
  <2> QED
    <3> HIDE DEF Small
    <3>1. n + 1 \in Nat
      OBVIOUS
    <3> QED
      BY ONLY <2>6, <3>1
<1>3. \A n \in Nat : n \in Holds
  <2> HIDE DEF Holds
  <2> QED
    BY ONLY <1>1, <1>2, Induction
<1>4. Cardinality(S) \in Nat /\ Small(Cardinality(S)) = SUBSET S
  <2>1. \A s \in SUBSET S : Cardinality(s) <= Cardinality(S)
    BY FS_Subset
  <2> QED
    BY <1>0, <2>1
<1>5. \E h : Adds(h, f, Small(Cardinality(S)))
  BY <1>3, <1>4
<1> QED
  BY <1>4, <1>5

\* Induction over the parts of a finite set: what a part has as soon as it is
\* empty or every part with one element less has it, all of them have.
LEMMA SetInduction ==
  ASSUME NEW S, IsFiniteSet(S), NEW Holds,
         \A T \in SUBSET S : (\A x \in T : T \ {x} \in Holds) => T \in Holds
  PROVE  \A T \in SUBSET S : T \in Holds
<1> DEFINE Upto == {n \in Nat : \A T \in SUBSET S : Cardinality(T) = n => T \in Holds}
<1>0. \A T \in SUBSET S : IsFiniteSet(T) /\ Cardinality(T) \in Nat
  BY FS_Subset, FS_CardinalityType
<1>1. 0 \in Upto
  <2>1. \A T \in SUBSET S : Cardinality(T) = 0 => T = {}
    BY <1>0, FS_EmptySet
  <2> QED
    BY <2>1
<1>2. ASSUME NEW n \in Nat, n \in Upto PROVE n + 1 \in Upto
  <2> SUFFICES ASSUME NEW T \in SUBSET S, Cardinality(T) = n + 1 PROVE T \in Holds
    OBVIOUS
  <2>1. \A x \in T : Cardinality(T \ {x}) = n
    BY <1>0, OneLess
  <2>2. \A x \in T : T \ {x} \in Holds
    BY <1>2, <2>1
  <2> QED
    BY <2>2
<1>3. \A n \in Nat : n \in Upto
  <2> HIDE DEF Upto
  <2> QED
    BY ONLY <1>1, <1>2, Induction
<1> QED
  BY <1>0, <1>3

\* It has only one: two solutions agree wherever both are defined.
LEMMA AddsUnique ==
  ASSUME NEW f, NEW S, IsFiniteSet(S), NEW T \in SUBSET S,
         NEW h, Adds(h, f, SUBSET S), NEW k, Adds(k, f, SUBSET T)
  PROVE  h[T] = k[T]
<1> DEFINE Holds == {s \in SUBSET T : h[s] = k[s]}
<1>0. IsFiniteSet(T)
  BY FS_Subset
<1>1. ASSUME NEW s \in SUBSET T, \A x \in s : s \ {x} \in Holds
      PROVE  s \in Holds
  <2>1. CASE s = {}
    BY <2>1 DEF Adds
  <2>2. CASE s # {}
    <3>1. Pick(s) \in s
      BY <2>2 DEF Pick
    <3>2. h[s \ {Pick(s)}] = k[s \ {Pick(s)}]
      BY <1>1, <3>1
    <3>3. h[s] = f[Pick(s)] + h[s \ {Pick(s)}]
      BY <2>2 DEF Adds
    <3>4. k[s] = f[Pick(s)] + k[s \ {Pick(s)}]
      BY <2>2 DEF Adds
    <3> QED
      BY <3>2, <3>3, <3>4
  <2> QED
    BY <2>1, <2>2
<1>2. \A s \in SUBSET T : s \in Holds
  <2> HIDE DEF Holds
  <2> QED
    BY ONLY <1>0, <1>1, SetInduction
<1> QED
  BY <1>2

\* So the library's sum is the value of any solution.
LEMMA TotalIs ==
  ASSUME NEW f, NEW S, IsFiniteSet(S), NEW T \in SUBSET S, NEW h, Adds(h, f, SUBSET S)
  PROVE  Total(f, T) = h[T]
<1>1. IsFiniteSet(T)
  BY FS_Subset
<1>2. PICK g : Adds(g, f, SUBSET T)
  BY <1>1, AddsExists
<1> DEFINE Solves(k) ==
      k = [s \in SUBSET T |-> IF s = {} THEN 0
                              ELSE LET x == CHOOSE x \in s : TRUE IN f[x] + k[s \ {x}]]
<1>3. Solves(g)
  BY <1>2 DEF Adds, Pick
<1>4. PICK k : Solves(k) /\ Total(f, T) = k[T]
  BY <1>3 DEF Total, MapThenSumSet, MapThenFoldSet
<1>5. Adds(k, f, SUBSET T)
  BY <1>4 DEF Adds, Pick
<1>6. \E a : Adds(a, f, SUBSET T) /\ Total(f, T) = a[T]
  <2> HIDE DEF Solves
  <2> QED
    BY <1>4, <1>5
<1> QED
  BY <1>6, AddsUnique

\* The sum of nothing, and of something.
LEMMA TotalStep ==
  ASSUME NEW f, NEW S, IsFiniteSet(S)
  PROVE  /\ Total(f, {}) = 0
         /\ S # {} => /\ Pick(S) \in S
                      /\ Total(f, S) = f[Pick(S)] + Total(f, S \ {Pick(S)})
<1>1. PICK h : Adds(h, f, SUBSET S)
  BY AddsExists
<1>2. \A T \in SUBSET S : Total(f, T) = h[T]
  BY <1>1, TotalIs
<1>3. h[{}] = 0
  BY <1>1 DEF Adds
<1>4. S # {} => Pick(S) \in S /\ h[S] = f[Pick(S)] + h[S \ {Pick(S)}]
  BY <1>1 DEF Adds, Pick
<1> QED
  BY <1>2, <1>3, <1>4

\* What is summed is a number.
Numbers(f, S) == \A x \in S : f[x] \in Nat

\* The sum of numbers is a number.
LEMMA TotalType ==
  ASSUME NEW f, NEW S, IsFiniteSet(S), Numbers(f, S)
  PROVE  Total(f, S) \in Nat
<1> DEFINE Holds == {T \in SUBSET S : Total(f, T) \in Nat}
<1>1. ASSUME NEW T \in SUBSET S, \A x \in T : T \ {x} \in Holds
      PROVE  T \in Holds
  <2>1. IsFiniteSet(T)
    BY FS_Subset
  <2>2. CASE T = {}
    <3>1. Total(f, {}) = 0
      BY <2>1, TotalStep
    <3> QED
      BY <2>2, <3>1
  <2>3. CASE T # {}
    <3>1. Pick(T) \in T /\ Total(f, T) = f[Pick(T)] + Total(f, T \ {Pick(T)})
      BY <2>1, <2>3, TotalStep
    <3>2. f[Pick(T)] \in Nat /\ Total(f, T \ {Pick(T)}) \in Nat
      BY <1>1, <3>1 DEF Numbers
    <3> QED
      BY <3>1, <3>2
  <2> QED
    BY <2>2, <2>3
<1>2. \A T \in SUBSET S : T \in Holds
  <2> HIDE DEF Holds
  <2> QED
    BY ONLY IsFiniteSet(S), <1>1, SetInduction
<1> QED
  BY <1>2

\* The order of the summands does not matter: any of them may come first.
LEMMA TotalRemove ==
  ASSUME NEW f, NEW S, IsFiniteSet(S), Numbers(f, S), NEW x \in S
  PROVE  Total(f, S) = f[x] + Total(f, S \ {x})
<1> DEFINE Holds == {T \in SUBSET S : \A y \in T : Total(f, T) = f[y] + Total(f, T \ {y})}
<1>0. \A T \in SUBSET S : IsFiniteSet(T) /\ Numbers(f, T) /\ Total(f, T) \in Nat
  BY FS_Subset, TotalType DEF Numbers
<1>1. ASSUME NEW T \in SUBSET S, \A y \in T : T \ {y} \in Holds
      PROVE  T \in Holds
  <2> SUFFICES ASSUME NEW y \in T PROVE Total(f, T) = f[y] + Total(f, T \ {y})
    OBVIOUS
  <2> DEFINE c == Pick(T)
  <2>1. c \in T /\ Total(f, T) = f[c] + Total(f, T \ {c})
    BY <1>0, TotalStep
  <2> HIDE DEF c
  <2>2. CASE y = c
    BY <2>1, <2>2
  <2>3. CASE y # c
    <3>1. y \in T \ {c} /\ c \in T \ {y} /\ (T \ {c}) \ {y} = (T \ {y}) \ {c}
      BY <2>1, <2>3
    <3>2. Total(f, T \ {c}) = f[y] + Total(f, (T \ {c}) \ {y})
      BY <1>1, <2>1, <3>1
    <3>3. Total(f, T \ {y}) = f[c] + Total(f, (T \ {y}) \ {c})
      BY <1>1, <3>1
    <3>4. f[y] \in Nat /\ f[c] \in Nat /\ Total(f, (T \ {y}) \ {c}) \in Nat
      BY <1>0, <2>1 DEF Numbers
    <3> DEFINE r == Total(f, (T \ {y}) \ {c})
    <3>5. Total(f, T) = f[c] + (f[y] + r) /\ Total(f, T \ {y}) = f[c] + r
      BY <2>1, <3>1, <3>2, <3>3
    <3>6. r \in Nat
      BY <3>4
    <3> HIDE DEF r
    <3> QED
      BY <3>4, <3>5, <3>6
  <2> QED
    BY <2>2, <2>3
<1>2. \A T \in SUBSET S : T \in Holds
  <2> HIDE DEF Holds
  <2> QED
    BY ONLY IsFiniteSet(S), <1>1, SetInduction
<1> QED
  BY <1>2

\* A sum grows with its summands ...
LEMMA TotalBound ==
  ASSUME NEW f, NEW g, NEW S, IsFiniteSet(S), Numbers(f, S), Numbers(g, S),
         \A x \in S : f[x] <= g[x]
  PROVE  Total(f, S) <= Total(g, S)
<1> DEFINE Holds == {T \in SUBSET S : Total(f, T) <= Total(g, T)}
<1>0. \A T \in SUBSET S : /\ IsFiniteSet(T) /\ Numbers(f, T) /\ Numbers(g, T)
                          /\ Total(f, T) \in Nat /\ Total(g, T) \in Nat
  BY FS_Subset, TotalType DEF Numbers
<1>1. ASSUME NEW T \in SUBSET S, \A y \in T : T \ {y} \in Holds
      PROVE  T \in Holds
  <2>1. CASE T = {}
    <3>1. Total(f, {}) = 0 /\ Total(g, {}) = 0
      BY TotalStep
    <3> QED
      BY <2>1, <3>1
  <2>2. CASE T # {}
    <3>1. PICK y \in T : TRUE
      BY <2>2
    <3>2. Total(f, T) = f[y] + Total(f, T \ {y}) /\ Total(g, T) = g[y] + Total(g, T \ {y})
      BY <1>0, <3>1, TotalRemove
    <3>3. Total(f, T \ {y}) <= Total(g, T \ {y})
      BY <1>1, <3>1
    <3>4. f[y] \in Nat /\ g[y] \in Nat /\ f[y] <= g[y]
      BY <3>1 DEF Numbers
    <3>5. Total(f, T \ {y}) \in Nat /\ Total(g, T \ {y}) \in Nat
      BY <1>0
    <3> QED
      BY <3>2, <3>3, <3>4, <3>5
  <2> QED
    BY <2>1, <2>2
<1>2. \A T \in SUBSET S : T \in Holds
  <2> HIDE DEF Holds
  <2> QED
    BY ONLY IsFiniteSet(S), <1>1, SetInduction
<1> QED
  BY <1>2

\* ... and with its set.
LEMMA TotalPart ==
  ASSUME NEW f, NEW S, IsFiniteSet(S), Numbers(f, S), NEW P \in SUBSET S
  PROVE  Total(f, P) <= Total(f, S)
<1> DEFINE Holds == {T \in SUBSET S : P \subseteq T => Total(f, P) <= Total(f, T)}
<1>0. \A T \in SUBSET S : IsFiniteSet(T) /\ Numbers(f, T) /\ Total(f, T) \in Nat
  BY FS_Subset, TotalType DEF Numbers
<1>1. ASSUME NEW T \in SUBSET S, \A y \in T : T \ {y} \in Holds
      PROVE  T \in Holds
  <2>1. CASE P = T
    BY <1>0, <2>1
  <2>2. CASE P # T /\ P \subseteq T
    <3>1. PICK y \in T : y \notin P
      BY <2>2
    <3>2. Total(f, T) = f[y] + Total(f, T \ {y})
      BY <1>0, <3>1, TotalRemove
    <3>3. Total(f, P) <= Total(f, T \ {y})
      BY <1>1, <2>2, <3>1
    <3>4. f[y] \in Nat /\ Total(f, P) \in Nat /\ Total(f, T \ {y}) \in Nat
      BY <1>0, <3>1 DEF Numbers
    <3> QED
      BY <3>2, <3>3, <3>4
  <2> QED
    BY <2>1, <2>2
<1>2. \A T \in SUBSET S : T \in Holds
  <2> HIDE DEF Holds
  <2> QED
    BY ONLY IsFiniteSet(S), <1>1, SetInduction
<1> QED
  BY <1>2

\* Equal summands have equal sums, and zeros the sum zero.
LEMMA TotalSame ==
  ASSUME NEW f, NEW g, NEW S, IsFiniteSet(S), Numbers(f, S), \A x \in S : f[x] = g[x]
  PROVE  Total(f, S) = Total(g, S)
<1>1. Numbers(g, S) /\ (\A x \in S : f[x] <= g[x] /\ g[x] <= f[x])
  BY DEF Numbers
<1>2. Total(f, S) <= Total(g, S) /\ Total(g, S) <= Total(f, S)
  BY <1>1, TotalBound
<1>3. Total(f, S) \in Nat /\ Total(g, S) \in Nat
  BY <1>1, TotalType
<1> QED
  BY <1>2, <1>3

\* Where the summands balance, the sums do.
LEMMA TotalBalance ==
  ASSUME NEW f, NEW g, NEW p, NEW q, NEW S, IsFiniteSet(S),
         Numbers(f, S), Numbers(g, S), Numbers(p, S), Numbers(q, S),
         \A x \in S : f[x] + g[x] = p[x] + q[x]
  PROVE  Total(f, S) + Total(g, S) = Total(p, S) + Total(q, S)
<1> DEFINE Holds == {T \in SUBSET S : Total(f, T) + Total(g, T) = Total(p, T) + Total(q, T)}
<1>0. \A T \in SUBSET S :
        /\ IsFiniteSet(T) /\ Numbers(f, T) /\ Numbers(g, T) /\ Numbers(p, T) /\ Numbers(q, T)
        /\ Total(f, T) \in Nat /\ Total(g, T) \in Nat
        /\ Total(p, T) \in Nat /\ Total(q, T) \in Nat
  BY FS_Subset, TotalType DEF Numbers
<1>1. ASSUME NEW T \in SUBSET S, \A y \in T : T \ {y} \in Holds
      PROVE  T \in Holds
  <2>1. CASE T = {}
    <3>1. Total(f, {}) = 0 /\ Total(g, {}) = 0 /\ Total(p, {}) = 0 /\ Total(q, {}) = 0
      BY TotalStep
    <3> QED
      BY <2>1, <3>1
  <2>2. CASE T # {}
    <3>1. PICK y \in T : TRUE
      BY <2>2
    <3>2. /\ Total(f, T) = f[y] + Total(f, T \ {y}) /\ Total(g, T) = g[y] + Total(g, T \ {y})
          /\ Total(p, T) = p[y] + Total(p, T \ {y}) /\ Total(q, T) = q[y] + Total(q, T \ {y})
      BY <1>0, <3>1, TotalRemove
    <3>3. Total(f, T \ {y}) + Total(g, T \ {y}) = Total(p, T \ {y}) + Total(q, T \ {y})
      BY <1>1, <3>1
    <3>4. /\ f[y] \in Nat /\ g[y] \in Nat /\ p[y] \in Nat /\ q[y] \in Nat
          /\ f[y] + g[y] = p[y] + q[y]
      BY <3>1 DEF Numbers
    <3>5. /\ Total(f, T \ {y}) \in Nat /\ Total(g, T \ {y}) \in Nat
          /\ Total(p, T \ {y}) \in Nat /\ Total(q, T \ {y}) \in Nat
      BY <1>0
    <3> QED
      BY <3>2, <3>3, <3>4, <3>5
  <2> QED
    BY <2>1, <2>2
<1>2. \A T \in SUBSET S : T \in Holds
  <2> HIDE DEF Holds
  <2> QED
    BY ONLY IsFiniteSet(S), <1>1, SetInduction
<1> QED
  BY <1>2

\* The sum of zeros is zero.
LEMMA TotalZero ==
  ASSUME NEW f, NEW S, IsFiniteSet(S), \A x \in S : f[x] = 0
  PROVE  Total(f, S) = 0
<1> DEFINE Holds == {T \in SUBSET S : Total(f, T) = 0}
<1>1. ASSUME NEW T \in SUBSET S, \A y \in T : T \ {y} \in Holds
      PROVE  T \in Holds
  <2>1. IsFiniteSet(T)
    BY FS_Subset
  <2>2. CASE T = {}
    BY <2>1, <2>2, TotalStep
  <2>3. CASE T # {}
    <3>1. Pick(T) \in T /\ Total(f, T) = f[Pick(T)] + Total(f, T \ {Pick(T)})
      BY <2>1, <2>3, TotalStep
    <3>2. f[Pick(T)] = 0 /\ Total(f, T \ {Pick(T)}) = 0
      BY <1>1, <3>1
    <3> QED
      BY <3>1, <3>2
  <2> QED
    BY <2>2, <2>3
<1>2. \A T \in SUBSET S : T \in Holds
  <2> HIDE DEF Holds
  <2> QED
    BY ONLY IsFiniteSet(S), <1>1, SetInduction
<1> QED
  BY <1>2

-----------------------------------------------------------------------------
(* The alerts among the records read.                                      *)

\* The recursion of AlertsIn, as far as D goes: what the n-th record from
\* first on adds to the alerts.
Noted(records, i, s) == IF records[i] \in Alerting THEN Append(s, i) ELSE s
Collects(h, records, first, D) ==
  h = [n \in D |-> IF n = 0 THEN <<>> ELSE Noted(records, first + n - 1, h[n - 1])]

Upto(n) == {m \in Nat : m <= n}

\* The recursion has a solution up to every n ...
LEMMA CollectsExists ==
  ASSUME NEW records, NEW first \in Nat, NEW n \in Nat
  PROVE  \E h : Collects(h, records, first, Upto(n))
<1> USE DEF Upto
<1> DEFINE Holds == {k \in Nat : \E h : Collects(h, records, first, Upto(k))}
<1>1. 0 \in Holds
  <2>1. Collects([m \in Upto(0) |-> <<>>], records, first, Upto(0))
    BY DEF Collects
  <2> QED
    BY <2>1
<1>2. ASSUME NEW k \in Nat, k \in Holds PROVE k + 1 \in Holds
  <2>1. PICK h : Collects(h, records, first, Upto(k))
    BY <1>2
  <2> DEFINE g == [m \in Upto(k + 1) |-> IF m = 0 THEN <<>>
                                        ELSE Noted(records, first + m - 1, h[m - 1])]
  <2>2. \A m \in Upto(k + 1) : m # 0 => m - 1 \in Upto(k)
    OBVIOUS
  <2>3. \A m \in Upto(k) : m \in Upto(k + 1)
    OBVIOUS
  <2>4. \A m \in Upto(k) : g[m] = h[m]
    <3> HIDE DEF Upto
    <3> QED
      BY <2>1, <2>3 DEF Collects
  <2>5. \A m \in Upto(k + 1) : m # 0 => h[m - 1] = g[m - 1]
    <3> HIDE DEF Upto, g
    <3> QED
      BY <2>2, <2>4
  <2>6. Collects(g, records, first, Upto(k + 1))
    <3> HIDE DEF Upto
    <3>1. g = [m \in Upto(k + 1) |-> IF m = 0 THEN <<>>
                                    ELSE Noted(records, first + m - 1, g[m - 1])]
      BY <2>5
    <3> QED
      BY <3>1 DEF Collects
  <2>7. \E a : Collects(a, records, first, Upto(k + 1))
    <3> HIDE DEF g, Upto
    <3> QED
      BY <2>6
  <2> QED
    <3> HIDE DEF Upto
    <3>1. k + 1 \in Nat
      OBVIOUS
    <3> QED
      BY ONLY <2>7, <3>1
<1>3. \A k \in Nat : k \in Holds
  <2> HIDE DEF Holds
  <2> QED
    BY ONLY <1>1, <1>2, Induction
<1> QED
  BY <1>3

\* ... only one ...
LEMMA CollectsUnique ==
  ASSUME NEW records, NEW first \in Nat, NEW n \in Nat, NEW m \in Nat, m <= n,
         NEW h, Collects(h, records, first, Upto(n)),
         NEW g, Collects(g, records, first, Upto(m))
  PROVE  h[m] = g[m]
<1> USE DEF Upto
<1> DEFINE Holds == {k \in Nat : k <= m => h[k] = g[k]}
<1>1. 0 \in Holds
  BY DEF Collects
<1>2. ASSUME NEW k \in Nat, k \in Holds PROVE k + 1 \in Holds
  <2> SUFFICES ASSUME k + 1 <= m PROVE h[k + 1] = g[k + 1]
    OBVIOUS
  <2>1. h[k] = g[k]
    BY <1>2
  <2>2. k + 1 \in Nat /\ k + 1 # 0 /\ (k + 1) - 1 = k /\ k + 1 <= n
    OBVIOUS
  <2>3. h[k + 1] = Noted(records, first + (k + 1) - 1, h[(k + 1) - 1])
    BY <2>2 DEF Collects
  <2>4. g[k + 1] = Noted(records, first + (k + 1) - 1, g[(k + 1) - 1])
    BY <2>2 DEF Collects
  <2> QED
    BY <2>1, <2>2, <2>3, <2>4
<1>3. \A k \in Nat : k \in Holds
  <2> HIDE DEF Holds
  <2> QED
    BY ONLY <1>1, <1>2, Induction
<1> QED
  BY <1>3

\* ... and so one for all n.
LEMMA CollectsForAll ==
  ASSUME NEW records, NEW first \in Nat
  PROVE  \E h : Collects(h, records, first, Nat)
<1> DEFINE part(n) == CHOOSE h : Collects(h, records, first, Upto(n))
           all == [n \in Nat |-> part(n)[n]]
<1>1. \A n \in Nat : Collects(part(n), records, first, Upto(n))
  BY CollectsExists
<1>2. all[0] = <<>>
  <2>1. Collects(part(0), records, first, Upto(0))
    BY <1>1
  <2> HIDE DEF part
  <2>2. part(0)[0] = <<>>
    BY <2>1 DEF Collects, Upto
  <2> QED
    BY <2>2
<1>3. ASSUME NEW n \in Nat, n # 0
      PROVE  all[n] = Noted(records, first + n - 1, all[n - 1])
  <2>1. n - 1 \in Nat /\ n - 1 <= n /\ n \in Upto(n)
    BY <1>3 DEF Upto
  <2>2. Collects(part(n), records, first, Upto(n)) /\ Collects(part(n - 1), records, first, Upto(n - 1))
    BY <1>1, <2>1
  <2> HIDE DEF part
  <2>3. part(n)[n] = Noted(records, first + n - 1, part(n)[n - 1])
    BY <1>3, <2>1, <2>2 DEF Collects
  <2>4. part(n)[n - 1] = part(n - 1)[n - 1]
    BY <2>1, <2>2, CollectsUnique
  <2> QED
    BY <2>1, <2>3, <2>4
<1>4. all = [n \in Nat |-> IF n = 0 THEN <<>> ELSE Noted(records, first + n - 1, all[n - 1])]
  <2>1. all = [n \in Nat |-> all[n]]
    OBVIOUS
  <2> HIDE DEF all
  <2> QED
    BY <1>2, <1>3, <2>1
<1>5. Collects(all, records, first, Nat)
  <2> HIDE DEF all
  <2> QED
    BY <1>4 DEF Collects
<1> QED
  <2> HIDE DEF all
  <2> QED
    BY <1>5

\* No record holds no alert, and each record adds itself if it is one.
LEMMA AlertsStep ==
  ASSUME NEW records, NEW first \in Nat, NEW last \in Nat
  PROVE  /\ first > last => AlertsIn(records, first, last) = <<>>
         /\ first <= last + 1 => AlertsIn(records, first, last + 1)
                                 = Noted(records, last + 1, AlertsIn(records, first, last))
<1> DEFINE Solves(k) ==
      k = [n \in Nat |-> IF n = 0 THEN <<>>
                         ELSE IF records[first + n - 1] \in Alerting
                              THEN Append(k[n - 1], first + n - 1) ELSE k[n - 1]]
           h == CHOOSE k : Solves(k)
<1>1. \E k : Solves(k)
  <2>1. PICK k : Collects(k, records, first, Nat)
    BY CollectsForAll
  <2>2. Solves(k)
    BY <2>1 DEF Collects, Noted
  <2> HIDE DEF Solves
  <2> QED
    BY <2>2
<1>2. Solves(h)
  <2> HIDE DEF Solves
  <2> QED
    BY <1>1
<1>3. \A l \in Nat : AlertsIn(records, first, l) = h[saturating_sub(l + 1, first)]
  BY DEF AlertsIn
<1> HIDE DEF h
<1>4. h[0] = <<>>
  BY <1>2
<1>5. \A n \in Nat : n # 0 => h[n] = Noted(records, first + n - 1, h[n - 1])
  BY <1>2 DEF Noted
<1>6. first > last => saturating_sub(last + 1, first) = 0
  BY DEF saturating_sub
<1>7. ASSUME first <= last + 1
      PROVE  AlertsIn(records, first, last + 1) = Noted(records, last + 1, AlertsIn(records, first, last))
  <2> DEFINE n == (last + 2) - first
  <2>1. n \in Nat /\ n # 0 /\ first + n - 1 = last + 1
    BY <1>7
  <2>2. saturating_sub((last + 1) + 1, first) = n /\ saturating_sub(last + 1, first) = n - 1
    BY <1>7 DEF saturating_sub
  <2> HIDE DEF n
  <2>3. h[n] = Noted(records, last + 1, h[n - 1])
    BY <1>5, <2>1
  <2> QED
    BY <1>3, <2>2, <2>3
<1> QED
  BY <1>3, <1>4, <1>6, <1>7

\* The alerts are places between first and last.
LEMMA AlertsType ==
  ASSUME NEW records, NEW first \in Nat \ {0}, NEW last \in Nat
  PROVE  /\ AlertsIn(records, first, last) \in Seq(Nat)
         /\ \A i \in 1 .. Len(AlertsIn(records, first, last)) :
              AlertsIn(records, first, last)[i] \in first .. last
<1> DEFINE Places == {i \in Nat : first <= i /\ i <= last}
           Holds == {l \in Nat : l <= last => AlertsIn(records, first, l) \in Seq(Places)}
<1>0. ASSUME NEW l \in Nat, first > l PROVE AlertsIn(records, first, l) \in Seq(Places)
  <2>1. AlertsIn(records, first, l) = <<>>
    BY <1>0, AlertsStep
  <2> QED
    BY <2>1
<1>1. 0 \in Holds
  BY <1>0
<1>2. ASSUME NEW l \in Nat, l \in Holds PROVE l + 1 \in Holds
  <2> SUFFICES ASSUME l + 1 <= last PROVE AlertsIn(records, first, l + 1) \in Seq(Places)
    OBVIOUS
  <2>1. CASE first > l + 1
    BY <1>0, <2>1
  <2>2. CASE first <= l + 1
    <3>1. AlertsIn(records, first, l + 1) = Noted(records, l + 1, AlertsIn(records, first, l))
      BY <2>2, AlertsStep
    <3>2. AlertsIn(records, first, l) \in Seq(Places)
      BY <1>2
    <3>3. l + 1 \in Places
      BY <2>2
    <3> DEFINE s == AlertsIn(records, first, l)
    <3> HIDE DEF Places, s
    <3>4. s \in Seq(Places)
      BY <3>2 DEF s
    <3>5. Append(s, l + 1) \in Seq(Places)
      BY <3>3, <3>4
    <3>6. Noted(records, l + 1, s) \in Seq(Places)
      BY <3>4, <3>5, Zenon DEF Noted
    <3> QED
      BY <3>1, <3>6 DEF s
  <2> QED
    BY <2>1, <2>2
<1>3. \A l \in Nat : l \in Holds
  <2> HIDE DEF Holds
  <2> QED
    BY ONLY <1>1, <1>2, Induction
<1> DEFINE s == AlertsIn(records, first, last)
<1>4. s \in Seq(Places)
  BY <1>3
<1>5. Places \subseteq Nat /\ \A i \in Places : i \in first .. last
  OBVIOUS
<1> HIDE DEF s, Places
<1>6. s \in Seq(Nat) /\ \A i \in 1 .. Len(s) : s[i] \in Places
  <2>1. s \in Seq(Nat)
    BY ONLY <1>4, <1>5, SeqMonotonic
  <2>2. \A i \in 1 .. Len(s) : s[i] \in Places
    BY <1>4
  <2> QED
    BY <2>1, <2>2
<1> QED
  BY <1>5, <1>6 DEF s

\* They depend on the records up to last only.
LEMMA AlertsSame ==
  ASSUME NEW records, NEW more, NEW first \in Nat \ {0}, NEW last \in Nat,
         \A i \in 1 .. last : more[i] = records[i]
  PROVE  AlertsIn(more, first, last) = AlertsIn(records, first, last)
<1> DEFINE Holds == {l \in Nat : l <= last => AlertsIn(more, first, l) = AlertsIn(records, first, l)}
<1>0. ASSUME NEW l \in Nat, first > l PROVE AlertsIn(more, first, l) = AlertsIn(records, first, l)
  <2>1. AlertsIn(records, first, l) = <<>> /\ AlertsIn(more, first, l) = <<>>
    BY <1>0, AlertsStep
  <2> QED
    BY <2>1
<1>1. 0 \in Holds
  BY <1>0
<1>2. ASSUME NEW l \in Nat, l \in Holds PROVE l + 1 \in Holds
  <2> SUFFICES ASSUME l + 1 <= last
               PROVE  AlertsIn(more, first, l + 1) = AlertsIn(records, first, l + 1)
    OBVIOUS
  <2>1. CASE first > l + 1
    BY <1>0, <2>1
  <2>2. CASE first <= l + 1
    <3>1. /\ AlertsIn(records, first, l + 1) = Noted(records, l + 1, AlertsIn(records, first, l))
          /\ AlertsIn(more, first, l + 1) = Noted(more, l + 1, AlertsIn(more, first, l))
      BY <2>2, AlertsStep
    <3>2. AlertsIn(more, first, l) = AlertsIn(records, first, l)
      BY <1>2
    <3>3. more[l + 1] = records[l + 1]
      OBVIOUS
    <3> QED
      BY <3>1, <3>2, <3>3 DEF Noted
  <2> QED
    BY <2>1, <2>2
<1>3. \A l \in Nat : l \in Holds
  <2> HIDE DEF Holds
  <2> QED
    BY ONLY <1>1, <1>2, Induction
<1> QED
  BY <1>3

\* Two readings in a row hold the alerts of both.
LEMMA AlertsJoin ==
  ASSUME NEW records, NEW first \in Nat \ {0}, NEW mid \in Nat, NEW last \in Nat,
         first <= mid + 1, mid <= last
  PROVE  AlertsIn(records, first, last)
           = AlertsIn(records, first, mid) \o AlertsIn(records, mid + 1, last)
<1> DEFINE a == AlertsIn(records, first, mid)
           Holds == {l \in Nat : AlertsIn(records, first, mid + l)
                                   = a \o AlertsIn(records, mid + 1, mid + l)}
<1>0. \A l \in Nat : AlertsIn(records, mid + 1, mid + l) \in Seq(Nat)
  <2> SUFFICES ASSUME NEW l \in Nat PROVE AlertsIn(records, mid + 1, mid + l) \in Seq(Nat)
    OBVIOUS
  <2>1. mid + 1 \in Nat \ {0} /\ mid + l \in Nat
    OBVIOUS
  <2> QED
    BY <2>1, AlertsType
<1>1. a \in Seq(Nat)
  BY AlertsType
<1>2. 0 \in Holds
  <2>1. AlertsIn(records, mid + 1, mid) = <<>>
    BY AlertsStep
  <2>2. mid + 0 = mid
    OBVIOUS
  <2>3. a \o <<>> = a
    BY <1>1, ConcatEmptySeq
  <2> QED
    BY <2>1, <2>2, <2>3
<1>3. ASSUME NEW l \in Nat, l \in Holds PROVE l + 1 \in Holds
  <2> DEFINE b == AlertsIn(records, mid + 1, mid + l)
             n == mid + l
  <2>1. n \in Nat /\ n + 1 = mid + (l + 1) /\ first <= n + 1 /\ mid + 1 <= n + 1
    OBVIOUS
  <2>2. /\ AlertsIn(records, first, n + 1) = Noted(records, n + 1, AlertsIn(records, first, n))
        /\ AlertsIn(records, mid + 1, n + 1) = Noted(records, n + 1, b)
    <3> HIDE DEF n
    <3>1. b = AlertsIn(records, mid + 1, n)
      BY DEF n
    <3> HIDE DEF b
    <3> QED
      BY <2>1, <3>1, AlertsStep
  <2>3. AlertsIn(records, first, n) = a \o b
    BY <1>3
  <2>4. a \in Seq(Nat) /\ b \in Seq(Nat)
    BY <1>0, <1>1
  <2> HIDE DEF a, b, n
  <2>5. Append(a \o b, n + 1) = a \o Append(b, n + 1)
    <3>0. a \o b \in Seq(Nat) /\ n + 1 \in Nat
      BY <2>1, <2>4
    <3>1. /\ Append(a \o b, n + 1) = (a \o b) \o <<n + 1>>
          /\ Append(b, n + 1) = b \o <<n + 1>>
      <4> DEFINE ab == a \o b
                 m == n + 1
      <4>1. ab \in Seq(Nat) /\ b \in Seq(Nat) /\ m \in Nat
        BY <2>4, <3>0
      <4> HIDE DEF ab, m
      <4>2. Append(ab, m) = ab \o <<m>> /\ Append(b, m) = b \o <<m>>
        BY ONLY <4>1, AppendIsConcat
      <4> QED
        BY <4>2 DEF ab, m
    <3>2. <<n + 1>> \in Seq(Nat)
      BY <2>1
    <3>3. (a \o b) \o <<n + 1>> = a \o (b \o <<n + 1>>)
      BY ONLY <2>4, <3>2, ConcatAssociative, SMTT(30)
    <3> QED
      BY <3>1, <3>3
  <2>6. Noted(records, n + 1, a \o b) = a \o Noted(records, n + 1, b)
    BY <2>5 DEF Noted
  <2>7. AlertsIn(records, first, mid + (l + 1)) = a \o AlertsIn(records, mid + 1, mid + (l + 1))
    BY <2>1, <2>2, <2>3, <2>6
  <2> QED
    BY <2>7
<1>4. \A l \in Nat : l \in Holds
  <2> HIDE DEF Holds
  <2> QED
    BY ONLY <1>2, <1>3, Induction
<1>5. last - mid \in Nat /\ mid + (last - mid) = last
  OBVIOUS
<1>6. AlertsIn(records, first, mid + (last - mid)) = a \o AlertsIn(records, mid + 1, mid + (last - mid))
  BY <1>4, <1>5
<1> QED
  BY <1>5, <1>6

\* The last n of a sequence.
LEMMA LastOfIs ==
  ASSUME NEW S, NEW s \in Seq(S), NEW n \in Nat
  PROVE  /\ LastOf(s, n) \in Seq(S)
         /\ Len(LastOf(s, n)) = Len(s) - saturating_sub(Len(s), n)
         /\ \A i \in 1 .. Len(LastOf(s, n)) :
              LastOf(s, n)[i] = s[i + saturating_sub(Len(s), n)]
<1> DEFINE d == saturating_sub(Len(s), n)
<1>1. Len(s) \in Nat /\ d \in Nat /\ d <= Len(s)
  BY DEF saturating_sub
<1>2. LastOf(s, n) = SubSeq(s, d + 1, Len(s))
  BY DEF LastOf
<1> HIDE DEF d
<1>3. \A i \in (d + 1) .. Len(s) : s[i] \in S
  <2>1. \A i \in (d + 1) .. Len(s) : i \in 1 .. Len(s)
    BY <1>1
  <2> QED
    BY <2>1
<1> DEFINE m == d + 1
           l == Len(s)
<1>4. m \in Int /\ l \in Int /\ (\A i \in m .. l : s[i] \in S)
  BY <1>1, <1>3
<1>5. m = d + 1 /\ l = Len(s) /\ LastOf(s, n) = SubSeq(s, m, l)
  BY <1>2
<1> HIDE DEF m, l
<1>6. /\ SubSeq(s, m, l) \in Seq(S)
      /\ Len(SubSeq(s, m, l)) = IF m <= l THEN l - m + 1 ELSE 0
      /\ \A i \in 1 .. l - m + 1 : SubSeq(s, m, l)[i] = s[m + i - 1]
  BY ONLY <1>4, SubSeqProperties
<1>7. Len(LastOf(s, n)) = Len(s) - d /\ l - m + 1 = Len(s) - d
  BY <1>1, <1>5, <1>6
<1>8. ASSUME NEW i \in 1 .. Len(LastOf(s, n)) PROVE LastOf(s, n)[i] = s[i + d]
  <2>1. i \in 1 .. l - m + 1 /\ m + i - 1 = i + d
    BY <1>1, <1>5, <1>7
  <2> QED
    BY <1>5, <1>6, <2>1
<1> QED
  BY <1>5, <1>6, <1>7, <1>8 DEF d

\* What is kept of the last n and what follows is the last n of all.
LEMMA LastOfJoin ==
  ASSUME NEW S, NEW s \in Seq(S), NEW t \in Seq(S), NEW n \in Nat
  PROVE  LastOf(LastOf(s, n) \o t, n) = LastOf(s \o t, n)
<1> DEFINE u == LastOf(s, n)
           skip == saturating_sub(Len(s), n)
<1>1. /\ u \in Seq(S) /\ Len(u) = Len(s) - skip
      /\ \A i \in 1 .. Len(u) : u[i] = s[i + skip]
  BY LastOfIs
<1>2. /\ skip \in Nat /\ skip <= Len(s) /\ Len(s) \in Nat /\ Len(t) \in Nat
      /\ skip # 0 => Len(s) - skip = n
  BY DEF saturating_sub
<1> HIDE DEF u, skip
<1> DEFINE a == u \o t
           b == s \o t
<1>3. /\ a \in Seq(S) /\ Len(a) = Len(u) + Len(t)
      /\ \A i \in 1 .. Len(u) + Len(t) : a[i] = IF i <= Len(u) THEN u[i] ELSE t[i - Len(u)]
  <2>1. u \in Seq(S) /\ t \in Seq(S)
    BY <1>1
  <2> QED
    BY ONLY <2>1, ConcatProperties
<1>4. /\ b \in Seq(S) /\ Len(b) = Len(s) + Len(t)
      /\ \A i \in 1 .. Len(s) + Len(t) : b[i] = IF i <= Len(s) THEN s[i] ELSE t[i - Len(s)]
  <2>1. s \in Seq(S) /\ t \in Seq(S)
    OBVIOUS
  <2> QED
    BY ONLY <2>1, ConcatProperties
<1> HIDE DEF a, b
<1> DEFINE x == LastOf(a, n)
           y == LastOf(b, n)
           da == saturating_sub(Len(a), n)
           db == saturating_sub(Len(b), n)
<1>5. /\ x \in Seq(S) /\ Len(x) = Len(a) - da
      /\ \A i \in 1 .. Len(x) : x[i] = a[i + da]
  BY <1>3, LastOfIs
<1>6. /\ y \in Seq(S) /\ Len(y) = Len(b) - db
      /\ \A i \in 1 .. Len(y) : y[i] = b[i + db]
  BY <1>4, LastOfIs
<1>7. /\ Len(u) \in Nat /\ Len(a) \in Nat /\ Len(b) \in Nat /\ Len(a) + skip = Len(b)
  BY <1>1, <1>2, <1>3, <1>4
<1>8. da \in Nat /\ db \in Nat /\ db = da + skip /\ da <= Len(a)
  <2>1. CASE skip = 0
    BY <1>7, <2>1 DEF saturating_sub
  <2>2. CASE skip # 0
    <3>1. Len(u) = n
      BY <1>1, <1>2, <2>2
    <3>2. Len(a) = n + Len(t) /\ Len(b) = n + Len(t) + skip
      BY <1>3, <1>7, <3>1
    <3> QED
      BY <1>2, <1>7, <3>2 DEF saturating_sub
  <2> QED
    BY <2>1, <2>2
<1> HIDE DEF x, y, da, db
<1>9. Len(x) = Len(y)
  <2>1. Len(x) = Len(a) - da /\ Len(y) = Len(b) - db
    BY <1>5, <1>6
  <2> QED
    BY ONLY <1>2, <1>7, <1>8, <2>1
<1>10. ASSUME NEW i \in 1 .. Len(x) PROVE x[i] = y[i]
  <2> DEFINE k == i + da
  <2>1. k \in 1 .. Len(u) + Len(t) /\ k + skip \in 1 .. Len(s) + Len(t) /\ i + db = k + skip
    BY <1>1, <1>2, <1>3, <1>4, <1>5, <1>7, <1>8
  <2>2. x[i] = a[k] /\ y[i] = b[k + skip]
    BY <1>5, <1>6, <1>9, <2>1
  <2> HIDE DEF k
  <2>3. a[k] = b[k + skip]
    <3>1. CASE k <= Len(u)
      <4>1. k \in 1 .. Len(u) /\ k + skip <= Len(s)
        BY <1>1, <1>2, <1>7, <2>1, <3>1
      <4>2. a[k] = u[k] /\ b[k + skip] = s[k + skip] /\ u[k] = s[k + skip]
        BY <1>1, <1>3, <1>4, <2>1, <4>1
      <4> QED
        BY <4>2
    <3>2. CASE ~(k <= Len(u))
      <4>1. ~(k + skip <= Len(s)) /\ k - Len(u) = (k + skip) - Len(s)
        BY <1>1, <1>2, <1>7, <2>1, <3>2
      <4>2. a[k] = t[k - Len(u)] /\ b[k + skip] = t[(k + skip) - Len(s)]
        BY <1>3, <1>4, <2>1, <3>2, <4>1
      <4> QED
        BY <4>1, <4>2
    <3> QED
      BY <3>1, <3>2
  <2> QED
    BY <2>2, <2>3
<1>11. x = y
  BY <1>5, <1>6, <1>9, <1>10, SeqEqual
<1> QED
  BY <1>11 DEF x, y, a, b, u

-----------------------------------------------------------------------------
(* The inductive invariant.                                                *)

\* The machine: which devices are there, what they have counted, which files
\* cannot be read, and what is in those that can.
Machines ==
  [present : SUBSET Meters, bad : SUBSET Sources, hostname : Nat,
   count : [Meters -> Nat], idle : [Cores -> Nat], rss : [Pids -> Nat],
   prepare : PrepareTexts, growth : GrowthTexts,
   keys : {"enabled", "disabled", "unavailable"},
   sshd : {"running", "not-running"}, tcp22 : {"listening", "not-listening"},
   addressed : SUBSET Nics, route : Nics \cup {None}]

\* The types of what the sampler reads from; a processor is always up.
MachineOK ==
  /\ machine \in Machines /\ real \in [Meters -> Nat] /\ log \in Seq(Priorities)
  /\ Present("core") # {}
  /\ moving \in DOMAIN Budget /\ events \in Nat /\ events <= Budget[moving]

\* The types of what it shows.
SnapshotOK ==
  /\ pc \in {"static", "cpu", "process", "disks", "network", "boot", "alerts", "show"}
  /\ DOMAIN snapshot = {"hostname", "cpu", "cores", "top", "disk", "net", "nics", "netstate",
                        "prepare", "growth", "ssh", "kernel", "health"}
  /\ snapshot.cpu \in Texts /\ snapshot.top \in Texts
  /\ snapshot.disk \in Texts /\ snapshot.net \in Texts
  /\ snapshot.health \in {"critical", "warning", "unavailable", "ok"}

\* The sample of the processors: they have been idle and busy since for what
\* was counted since.
CpuOK ==
  cpu # None =>
    /\ cpu.idle \in Nat /\ cpu.total \in Nat /\ cpu.idle <= cpu.total
    /\ Len(cpu.cores) \in 1 .. Cardinality(Cores)
    /\ cpu.idle <= Total(machine.idle, Cores)
    /\ Total(machine.count, MetersOf("core"))
         <= (cpu.total - cpu.idle) + Total(real, MetersOf("core"))

\* A line of that sample, of processor c: c has been idle and busy since for
\* what it counted since.
Ticked(line, c, idle, count, moved) ==
  /\ c \in Cores /\ line.idle \in Nat /\ line.total \in Nat /\ line.idle <= line.total
  /\ line.idle <= idle[c]
  /\ count[<<"core", c>>] <= (line.total - line.idle) + moved[<<"core", c>>]

\* The lines of the sample are those of the processors that were up.
CoresOK ==
  cpu # None =>
    /\ Len(cpu.cores) = Cardinality(counted)
    /\ \A i \in 1 .. Cardinality(counted) :
         Ticked(cpu.cores[i], CoreAt(counted, i), machine.idle, machine.count, real)

\* A sample of meters: one that is there has counted no more than what was
\* sampled and what it really moved since, even if it has been away.
Within(previous, kind, present, count, moved) ==
  /\ DOMAIN previous \subseteq MetersOf(kind)
  /\ \A m \in DOMAIN previous :
       previous[m] \in Nat /\ (m \in present => count[m] <= previous[m] + moved[m])
ReadingOf(previous, kind) == Within(previous, kind, machine.present, machine.count, real)

ReadingsOK ==
  /\ process_cpu # None => process_cpu.total \in Nat /\ ReadingOf(process_cpu.ticks, "pid")
  /\ disk # None => ReadingOf(disk, "disk")
  /\ network # None => ReadingOf(network, "nic")

\* The static sample: if it has another host name than the machine, the name
\* changed after it was taken.
StaticOK ==
  /\ renamed \in Nat
  /\ static_sample # None \/ pc = "cpu" =>
       /\ DOMAIN static_sample = {"age", "hostname"}
       /\ static_sample.age \in 1 .. StaticAge
       /\ static_sample.hostname # machine.hostname => renamed < static_sample.age
  /\ pc = "cpu" => snapshot.hostname = static_sample.hostname

\* The alerts: what was read through the open descriptor.
AlertsOK ==
  /\ kernel_alerts \in Seq(Nat) /\ Len(kernel_alerts) <= AlertLimit
  /\ \A i \in 1 .. Len(kernel_alerts) : kernel_alerts[i] \in 1 .. Len(log)
  /\ kmsg = None => kernel_alerts = <<>>
  /\ kmsg # None =>
       /\ kmsg \in 1 .. (Len(log) + 1) /\ opened \in Nat \ {0} /\ opened <= kmsg
       /\ kernel_alerts = LastOf(AlertsIn(log, opened, kmsg - 1), AlertLimit)

SInv == MachineOK /\ SnapshotOK /\ CpuOK /\ CoresOK /\ ReadingsOK /\ StaticOK /\ AlertsOK

-----------------------------------------------------------------------------
(* The machine.                                                            *)

\* A meter is a pair of its kind and its number or name.
LEMMA MetersAre ==
  /\ \A kind \in Kinds : MetersOf(kind) \subseteq Meters /\ IsFiniteSet(MetersOf(kind))
  /\ \A kind \in Kinds : \A m \in MetersOf(kind) : m[1] = kind
  /\ \A m \in Meters : m[1] \in Kinds /\ m \in MetersOf(m[1])
  /\ \A m \in MetersOf("core") : m[2] \in Cores
  /\ \A c \in Cores : <<"core", c>> \in MetersOf("core")
  /\ \A m \in MetersOf("pid") : m[2] \in Pids
<1>1. /\ MetersOf("core") = {"core"} \X Cores /\ MetersOf("pid") = {"pid"} \X Pids
      /\ MetersOf("disk") = {"disk"} \X Disks /\ MetersOf("nic") = {"nic"} \X Nics
  BY DEF MetersOf
<1>2. \A kind \in Kinds : MetersOf(kind) \subseteq Meters
  BY DEF Meters
<1>3. \A kind \in Kinds : IsFiniteSet(MetersOf(kind))
  <2>1. IsFiniteSet(Cores) /\ IsFiniteSet(Pids) /\ IsFiniteSet(Disks) /\ IsFiniteSet(Nics)
    BY SamplerLimits
  <2>2. \A k : IsFiniteSet({k})
    BY FS_Singleton
  <2>3. /\ IsFiniteSet({"core"} \X Cores) /\ IsFiniteSet({"pid"} \X Pids)
        /\ IsFiniteSet({"disk"} \X Disks) /\ IsFiniteSet({"nic"} \X Nics)
    BY ONLY <2>1, <2>2, FS_Product
  <2> QED
    BY <1>1, <2>3 DEF Kinds
<1>4. \A kind \in Kinds : \A m \in MetersOf(kind) : m[1] = kind
  BY <1>1 DEF Kinds
<1>5. \A m \in Meters : m[1] \in Kinds /\ m \in MetersOf(m[1])
  BY <1>4 DEF Meters
<1> QED
  BY <1>1, <1>2, <1>3, <1>4, <1>5

\* The numbers on the meters can be added.
LEMMA MachineNumbers ==
  ASSUME MachineOK
  PROVE  /\ \A kind \in Kinds : Numbers(machine.count, MetersOf(kind)) /\ Numbers(real, MetersOf(kind))
         /\ Numbers(machine.idle, Cores) /\ machine.present \subseteq Meters
         /\ machine.count \in [Meters -> Nat] /\ real \in [Meters -> Nat]
         /\ machine.idle \in [Cores -> Nat] /\ machine.rss \in [Pids -> Nat]
  BY MetersAre DEF MachineOK, Machines, Numbers

\* What any step of the machine does: it moves a meter and what it really
\* moved together, or lets one arrive that has counted since.
Moved ==
  /\ UNCHANGED <<pc, baselines, static_sample, alerts, snapshot, counted, moving>>
  /\ \A m \in MetersOf("core") : machine'.count[m] + real[m] = machine.count[m] + real'[m]
  /\ \A c \in Cores : machine.idle[c] <= machine'.idle[c]
  /\ \A m \in machine'.present : m[1] # "core" =>
       IF m \in machine.present THEN machine'.count[m] + real[m] = machine.count[m] + real'[m]
                                ELSE machine'.count[m] <= real'[m]
  /\ log' = log \/ \E p \in Priorities : log' = Append(log, p)
  /\ \/ renamed' = renamed /\ machine'.hostname = machine.hostname
     \/ pc = "static" /\ renamed' = 0

\* A step that leaves meters, log and name alone.
LEMMA MovedElsewhere ==
  ASSUME MachineOK,
         UNCHANGED <<pc, baselines, static_sample, alerts, snapshot, counted, moving>>,
         UNCHANGED <<log, real, renamed>>, events' \in Nat, events' <= events,
         machine' \in Machines, machine'.count = machine.count, machine'.idle = machine.idle,
         machine'.hostname = machine.hostname,
         machine'.present \subseteq machine.present, Present("core")' # {}
  PROVE  MachineOK' /\ Moved
<1>1. MachineOK'
  BY SamplerLimits DEF MachineOK
<1>2. /\ machine.count \in [Meters -> Nat] /\ machine.idle \in [Cores -> Nat]
      /\ real \in [Meters -> Nat] /\ machine.present \subseteq Meters
  BY MachineNumbers
<1>3. Moved
  BY <1>2, MetersAre DEF Moved, Kinds
<1> QED
  BY <1>1, <1>3

\* A meter that is there moves.
LEMMA MovesMoves ==
  ASSUME MachineOK, NEW m \in Meters, NEW n \in Loads, m \in machine.present, Moves(m, n)
  PROVE  MachineOK' /\ Moved
<1>0. n \in Nat /\ events' \in Nat /\ events' <= events
  BY SamplerLimits DEF Moves, Spend, MachineOK
<1>1. /\ machine.count \in [Meters -> Nat] /\ machine.idle \in [Cores -> Nat]
      /\ real \in [Meters -> Nat] /\ machine.present \subseteq Meters /\ machine \in Machines
  BY MachineNumbers DEF MachineOK
<1>2. real' = [real EXCEPT ![m] = @ + n] /\ machine' = [machine EXCEPT !.count[m] = @ + n]
  BY DEF Moves
<1>3. machine' \in Machines /\ real' \in [Meters -> Nat]
  BY <1>0, <1>1, <1>2 DEF Machines
<1>4. /\ machine'.present = machine.present /\ machine'.idle = machine.idle
      /\ machine'.hostname = machine.hostname
      /\ machine'.count = [machine.count EXCEPT ![m] = @ + n]
  BY <1>1, <1>2 DEF Machines
<1>5. \A x \in Meters : machine'.count[x] + real[x] = machine.count[x] + real'[x]
  BY <1>0, <1>1, <1>2, <1>4
<1>6. MachineOK'
  BY <1>0, <1>3, <1>4, SamplerLimits DEF MachineOK, Present, Moves, Spend, Happens
<1>7. Moved
  BY <1>1, <1>4, <1>5, MetersAre DEF Moved, Moves, Spend, Happens, Kinds
<1> QED
  BY <1>6, <1>7

\* A process runs on a processor.
LEMMA RunMoves ==
  ASSUME MachineOK, NEW p \in MetersOf("pid"), NEW c \in MetersOf("core"), NEW n \in Loads,
         Run(p, c, n)
  PROVE  MachineOK' /\ Moved
<1>0. n \in Nat /\ events' \in Nat /\ events' <= events
  BY SamplerLimits DEF Run, Spend, MachineOK
<1>1. /\ machine.count \in [Meters -> Nat] /\ machine.idle \in [Cores -> Nat]
      /\ real \in [Meters -> Nat] /\ machine.present \subseteq Meters /\ machine \in Machines
  BY MachineNumbers DEF MachineOK
<1>2. p \in Meters /\ c \in Meters /\ p # c
  BY MetersAre DEF Kinds
<1> DEFINE f == [machine.count EXCEPT ![p] = @ + n, ![c] = @ + n]
           g == [real EXCEPT ![p] = @ + n, ![c] = @ + n]
<1>3. real' = g /\ machine' = [machine EXCEPT !.count = f]
  <2>1. machine' = [machine EXCEPT !.count[p] = @ + n, !.count[c] = @ + n]
    BY DEF Run
  <2>2. machine' = [machine EXCEPT !.count = f]
    BY <1>1, <2>1 DEF Machines
  <2> QED
    BY <2>2 DEF Run
<1>4. f \in [Meters -> Nat] /\ g \in [Meters -> Nat]
  BY <1>0, <1>1, <1>2
<1>5. \A x \in Meters : f[x] + real[x] = machine.count[x] + g[x]
  BY <1>0, <1>1, <1>2
<1> HIDE DEF f, g
<1>6. machine' \in Machines /\ real' \in [Meters -> Nat]
  BY <1>1, <1>3, <1>4 DEF Machines
<1>7. /\ machine'.present = machine.present /\ machine'.idle = machine.idle
      /\ machine'.hostname = machine.hostname /\ machine'.count = f
  BY <1>1, <1>3 DEF Machines
<1>8. /\ UNCHANGED <<pc, baselines, static_sample, alerts, snapshot, counted, moving>>
      /\ UNCHANGED <<log, renamed>>
  BY DEF Run, Spend, Happens
<1>9. MachineOK'
  BY <1>0, <1>6, <1>7, <1>8, SamplerLimits DEF MachineOK, Present
<1>10. Moved
  BY <1>1, <1>3, <1>5, <1>7, <1>8, MetersAre DEF Moved, Kinds
<1> QED
  BY <1>9, <1>10

\* A processor is idle.
LEMMA IdleMoves ==
  ASSUME MachineOK, NEW c \in Cores, NEW n \in Loads, Idle(c, n)
  PROVE  MachineOK' /\ Moved
<1>0. n \in Nat /\ events' \in Nat /\ events' <= events
  BY SamplerLimits DEF Idle, Spend, MachineOK
<1>1. /\ machine.count \in [Meters -> Nat] /\ machine.idle \in [Cores -> Nat]
      /\ real \in [Meters -> Nat] /\ machine.present \subseteq Meters /\ machine \in Machines
  BY MachineNumbers DEF MachineOK
<1>2. machine' = [machine EXCEPT !.idle[c] = @ + n] /\ real' = real
  BY DEF Idle
<1>3. machine' \in Machines
  BY <1>0, <1>1, <1>2 DEF Machines
<1>4. /\ machine'.present = machine.present /\ machine'.count = machine.count
      /\ machine'.hostname = machine.hostname
      /\ machine'.idle = [machine.idle EXCEPT ![c] = @ + n]
  BY <1>1, <1>2 DEF Machines
<1>5. \A x \in Cores : machine.idle[x] <= machine'.idle[x]
  BY <1>0, <1>1, <1>4
<1>6. MachineOK'
  BY <1>0, <1>2, <1>3, <1>4, SamplerLimits DEF MachineOK, Present, Idle, Spend, Happens
<1>7. Moved
  BY <1>1, <1>2, <1>4, <1>5, MetersAre DEF Moved, Idle, Spend, Happens, Kinds
<1> QED
  BY <1>6, <1>7

\* A meter leaves; the last processor does not.
LEMMA LeaveMoves ==
  ASSUME MachineOK, NEW m \in Meters, Leave(m)
  PROVE  MachineOK' /\ Moved
<1>0. events' \in Nat /\ events' <= events
  BY SamplerLimits DEF Leave, Spend, MachineOK
<1>1. machine.present \subseteq Meters /\ machine \in Machines
  BY MachineNumbers DEF MachineOK
<1>2. machine' = [machine EXCEPT !.present = @ \ {m}]
  BY DEF Leave
<1>3. machine' \in Machines
  BY <1>1, <1>2 DEF Machines
<1>4. /\ machine'.present = machine.present \ {m} /\ machine'.count = machine.count
      /\ machine'.hostname = machine.hostname /\ machine'.idle = machine.idle
  BY <1>1, <1>2 DEF Machines
<1>5. Present("core")' # {}
  <2>1. Present("core")' = Present("core") \ {m}
    BY <1>4 DEF Present
  <2>2. CASE m[1] # "core"
    <3>1. m \notin Present("core")
      BY <2>2, MetersAre DEF Present, Kinds
    <3> QED
      BY <2>1, <3>1 DEF MachineOK
  <2>3. CASE m[1] = "core"
    <3>1. Cardinality(Present("core")) > 1
      BY <2>3 DEF Leave
    <3>2. ASSUME Present("core") \subseteq {m} PROVE FALSE
      <4>1. IsFiniteSet({m}) /\ Cardinality({m}) = 1
        BY FS_Singleton
      <4>2. Cardinality(Present("core")) \in Nat /\ Cardinality(Present("core")) <= 1
        BY <3>2, <4>1, FS_Subset, FS_CardinalityType
      <4> QED
        BY <3>1, <4>2
    <3> QED
      BY <2>1, <3>2
  <2> QED
    BY <2>2, <2>3
<1>6. /\ UNCHANGED <<pc, baselines, static_sample, alerts, snapshot, counted, moving>>
      /\ UNCHANGED <<log, real, renamed>>
  BY DEF Leave, Spend, Happens
<1> QED
  BY <1>0, <1>3, <1>4, <1>5, <1>6, MovedElsewhere

\* A meter arrives: a processor with its old ticks, another with what it has
\* counted since.
LEMMA ArriveMoves ==
  ASSUME MachineOK, NEW m \in Meters, NEW n \in Loads, Arrive(m, n)
  PROVE  MachineOK' /\ Moved
<1>0. n \in Nat /\ events' \in Nat /\ events' <= events
  BY SamplerLimits DEF Arrive, Spend, MachineOK
<1>1. /\ machine.count \in [Meters -> Nat] /\ machine.idle \in [Cores -> Nat]
      /\ real \in [Meters -> Nat] /\ machine.present \subseteq Meters /\ machine \in Machines
  BY MachineNumbers DEF MachineOK
<1> DEFINE from == IF m[1] = "core" THEN machine.count[m] ELSE n
           by == IF m[1] = "core" THEN 0 ELSE n
<1>2. /\ machine' = [machine EXCEPT !.present = @ \cup {m}, !.count[m] = from]
      /\ real' = [real EXCEPT ![m] = @ + by] /\ m \notin machine.present
  BY DEF Arrive
<1>3. from \in Nat /\ by \in Nat
  BY <1>0, <1>1
<1>4. m[1] = "core" => from = machine.count[m] /\ by = 0
  OBVIOUS
<1>5. m[1] # "core" => from = n /\ by = n
  OBVIOUS
<1> HIDE DEF from, by
<1>6. machine' \in Machines /\ real' \in [Meters -> Nat]
  <2> DEFINE f == [machine.count EXCEPT ![m] = from]
             there == machine.present \cup {m}
  <2>1. f \in [Meters -> Nat] /\ there \in SUBSET Meters
    BY <1>1, <1>3
  <2>2. machine' = [machine EXCEPT !.present = there, !.count = f]
    BY <1>1, <1>2 DEF Machines
  <2>3. real' \in [Meters -> Nat]
    BY <1>1, <1>2, <1>3
  <2> HIDE DEF f, there
  <2>4. machine' \in Machines
    BY <1>1, <2>1, <2>2 DEF Machines
  <2> QED
    BY <2>3, <2>4
<1>7. /\ machine'.present = machine.present \cup {m} /\ machine'.idle = machine.idle
      /\ machine'.hostname = machine.hostname
      /\ machine'.count = [machine.count EXCEPT ![m] = from]
  BY <1>1, <1>2 DEF Machines
<1>8. \A x \in MetersOf("core") : machine'.count[x] + real[x] = machine.count[x] + real'[x]
  <2>1. \A x \in MetersOf("core") : x \in Meters /\ x[1] = "core"
    BY MetersAre DEF Kinds
  <2> QED
    BY <1>1, <1>2, <1>3, <1>4, <1>7, <2>1
<1>9. \A x \in machine'.present : x[1] # "core" =>
        IF x \in machine.present THEN machine'.count[x] + real[x] = machine.count[x] + real'[x]
                                 ELSE machine'.count[x] <= real'[x]
  BY <1>0, <1>1, <1>2, <1>3, <1>5, <1>7
<1>10. MachineOK'
  BY <1>0, <1>6, <1>7, SamplerLimits DEF MachineOK, Present, Arrive, Spend, Happens
<1>11. \A x \in Cores : machine.idle[x] <= machine'.idle[x]
  BY <1>1, <1>7
<1>12. /\ UNCHANGED <<pc, baselines, static_sample, alerts, snapshot, counted, moving>>
       /\ UNCHANGED <<log, renamed>>
  BY DEF Arrive, Spend, Happens
<1>13. Moved
  BY <1>7, <1>8, <1>9, <1>11, <1>12 DEF Moved
<1> QED
  BY <1>10, <1>13

\* Whatever the machine does, its state keeps its type and its meters tell
\* what really moved.
LEMMA MachineMoves ==
  ASSUME MachineOK, Machine
  PROVE  MachineOK' /\ Moved
<1>0. /\ machine \in Machines /\ machine.present \subseteq Meters
      /\ Present("core") # {} /\ events \in Nat
  BY MachineNumbers DEF MachineOK
<1>1. ASSUME NEW m \in Meters, NEW n \in Loads, Work(m, n) PROVE MachineOK' /\ Moved
  BY <1>1, MovesMoves DEF Work
<1>2. ASSUME NEW m \in Meters, NEW n \in Loads, Arrive(m, n) PROVE MachineOK' /\ Moved
  BY <1>2, ArriveMoves
<1>3. ASSUME NEW p \in MetersOf("pid"), NEW c \in MetersOf("core"), NEW n \in Loads, Run(p, c, n)
      PROVE  MachineOK' /\ Moved
  BY <1>3, RunMoves
<1>4. ASSUME NEW c \in Cores, NEW n \in Loads, Idle(c, n) PROVE MachineOK' /\ Moved
  BY <1>4, IdleMoves
<1>5. ASSUME NEW m \in Meters, Leave(m) PROVE MachineOK' /\ Moved
  BY <1>5, LeaveMoves
<1>6. ASSUME NEW s \in Sources, Break(s) \/ Mend(s) PROVE MachineOK' /\ Moved
  <2>1. /\ UNCHANGED <<pc, baselines, static_sample, alerts, snapshot, counted, moving>>
        /\ UNCHANGED <<log, real, renamed>>
    BY <1>6 DEF Break, Mend, Spend, Happens
  <2>2. events' \in Nat /\ events' <= events
    BY <1>0, <1>6 DEF Break, Mend, Spend
  <2>3. \E bad \in SUBSET Sources : machine' = [machine EXCEPT !.bad = bad]
    BY <1>0, <1>6 DEF Break, Mend, Machines
  <2>4. /\ machine' \in Machines /\ machine'.count = machine.count
        /\ machine'.idle = machine.idle /\ machine'.hostname = machine.hostname
        /\ machine'.present = machine.present
    BY <1>0, <2>3 DEF Machines
  <2>5. Present("core")' # {}
    BY <1>0, <2>4 DEF Present
  <2> QED
    BY <2>1, <2>2, <2>4, <2>5, MovedElsewhere
<1>7. ASSUME NEW p \in Priorities, Log(p) PROVE MachineOK' /\ Moved
  <2>1. /\ UNCHANGED <<pc, baselines, static_sample, alerts, snapshot, counted, moving>>
        /\ UNCHANGED <<machine, real, renamed>>
        /\ log' = Append(log, p)
    BY <1>7 DEF Log, Spend, Happens
  <2>2. log' \in Seq(Priorities)
    BY <2>1 DEF MachineOK
  <2>3. events' \in Nat /\ events' <= events
    BY <1>0, <1>7 DEF Log, Spend
  <2>4. MachineOK'
    BY <2>1, <2>2, <2>3, SamplerLimits DEF MachineOK, Present
  <2>5. Moved
    BY <2>1, MachineNumbers, MetersAre DEF Moved, Kinds
  <2> QED
    BY <2>4, <2>5
<1>8. ASSUME Rename PROVE MachineOK' /\ Moved
  <2>1. /\ UNCHANGED <<pc, baselines, static_sample, alerts, snapshot, counted, moving>>
        /\ UNCHANGED <<log, real>> /\ renamed' = 0 /\ pc = "static"
    BY <1>8 DEF Rename, Spend, Happens, SeenBy
  <2>2. events' \in Nat /\ events' <= events
    BY <1>0, <1>8 DEF Rename, Spend
  <2>3. /\ machine' \in Machines /\ machine'.count = machine.count
        /\ machine'.idle = machine.idle /\ machine'.present = machine.present
    BY <1>0, <1>8 DEF Rename, Machines
  <2>4. MachineOK'
    BY <2>1, <2>2, <2>3, SamplerLimits DEF MachineOK, Present
  <2>5. Moved
    BY <2>1, <2>3, MachineNumbers, MetersAre DEF Moved, Kinds
  <2> QED
    BY <2>4, <2>5
<1>9. ASSUME Progress \/ Configure PROVE MachineOK' /\ Moved
  <2>1. /\ UNCHANGED <<pc, baselines, static_sample, alerts, snapshot, counted, moving>>
        /\ UNCHANGED <<log, real, renamed>>
    BY <1>9 DEF Progress, Configure, Spend, Happens
  <2>2. events' \in Nat /\ events' <= events
    <3>1. events > 0 /\ events' = events - 1
      BY <1>9 DEF Progress, Configure, Spend
    <3> QED
      BY <1>0, <3>1
  <2>3. ASSUME Progress
        PROVE  /\ machine' \in Machines /\ machine'.count = machine.count
               /\ machine'.idle = machine.idle /\ machine'.hostname = machine.hostname
               /\ machine'.present = machine.present
    BY <1>0, <2>3 DEF Progress, Machines
  <2>4. ASSUME Configure
        PROVE  /\ machine' \in Machines /\ machine'.count = machine.count
               /\ machine'.idle = machine.idle /\ machine'.hostname = machine.hostname
               /\ machine'.present = machine.present
    BY <1>0, <2>4 DEF Configure, Machines
  <2>5. Present("core")' # {} /\ machine'.present \subseteq machine.present
    BY <1>0, <1>9, <2>3, <2>4 DEF Present
  <2> QED
    BY <1>9, <2>1, <2>2, <2>3, <2>4, <2>5, MovedElsewhere
<1> QED
  BY <1>1, <1>2, <1>3, <1>4, <1>5, <1>6, <1>7, <1>8, <1>9 DEF Machine

-----------------------------------------------------------------------------
(* The first state and the steps of the machine keep the invariant.        *)

\* Quotients are rounded down.
LEMMA Quotient ==
  ASSUME NEW a \in Nat, NEW b \in Nat \ {0}
  PROVE  a \div b \in Nat /\ (a \div b) * b <= a
<1>1. a \div b \in Int
  OBVIOUS
<1>2. a \div b >= 0
  OBVIOUS
<1>3. (a \div b) * b <= a
  OBVIOUS
<1> QED
  BY <1>1, <1>2, <1>3

\* Nothing has been sampled in the first state.
LEMMA StartsRight ==
  ASSUME Init
  PROVE  SInv
<1>1. MachineOK
  <2>1. PICK bad \in SUBSET (Sources \cap moving) :
         machine = [present |-> Meters, bad |-> bad, hostname |-> 0,
                    count |-> [m \in Meters |-> 1], idle |-> [c \in Cores |-> 1],
                    rss |-> [p \in Pids |-> 1],
                    prepare |-> "applied", growth |-> "expanded", keys |-> "enabled",
                    sshd |-> "running", tcp22 |-> "listening",
                    addressed |-> Nics \ {Loopback}, route |-> None]
    BY DEF Init
  <2>2. machine \in Machines
    BY <2>1 DEF Machines, PrepareTexts, GrowthTexts
  <2>3. Present("core") # {}
    <3>1. Present("core") = Meters \cap MetersOf("core")
      BY <2>1 DEF Present
    <3> QED
      BY <3>1, MetersAre, SomeCore DEF Kinds
  <2>4. log \in Seq(Priorities)
    BY SamplerLimits DEF Init, Priorities
  <2>5. real \in [Meters -> Nat]
    BY DEF Init
  <2>6. moving \in DOMAIN Budget /\ events \in Nat /\ events <= Budget[moving]
    BY SamplerLimits DEF Init
  <2> QED
    BY <2>2, <2>3, <2>4, <2>5, <2>6 DEF MachineOK
<1>2. SnapshotOK
  BY DEF Init, SnapshotOK, NothingRead, Texts, Measuring
<1>3. CpuOK /\ CoresOK /\ ReadingsOK
  BY DEF Init, CpuOK, CoresOK, ReadingsOK
<1>4. StaticOK
  BY SamplerLimits DEF Init, StaticOK
<1>5. AlertsOK
  <2>1. kernel_alerts = <<>> /\ kmsg = None
    BY DEF Init
  <2>2. AlertLimit \in Nat
    BY SamplerLimits
  <2> QED
    BY <2>1, <2>2 DEF AlertsOK
<1> QED
  BY <1>1, <1>2, <1>3, <1>4, <1>5 DEF SInv

\* A sample of meters stays true of them while they move.
LEMMA MovedWithin ==
  ASSUME MachineOK, MachineOK', Moved, NEW previous, NEW kind \in Kinds \ {"core"},
         Within(previous, kind, machine.present, machine.count, real)
  PROVE  Within(previous, kind, machine'.present, machine'.count, real')
<1>1. DOMAIN previous \subseteq MetersOf(kind)
  BY DEF Within
<1>2. ASSUME NEW m \in DOMAIN previous, m \in machine'.present
      PROVE  machine'.count[m] <= previous[m] + real'[m]
  <2>1. m \in Meters /\ m[1] # "core" /\ previous[m] \in Nat
    BY <1>1, MetersAre DEF Within
  <2>2. /\ machine.count[m] \in Nat /\ real[m] \in Nat
        /\ machine'.count[m] \in Nat /\ real'[m] \in Nat
    BY <2>1 DEF MachineOK, Machines
  <2>3. CASE m \in machine.present
    <3>1. machine.count[m] <= previous[m] + real[m]
      BY <2>3 DEF Within
    <3>2. machine'.count[m] + real[m] = machine.count[m] + real'[m]
      BY <1>2, <2>1, <2>3 DEF Moved
    <3> QED
      BY <2>1, <2>2, <3>1, <3>2
  <2>4. CASE m \notin machine.present
    <3>1. machine'.count[m] <= real'[m]
      BY <1>2, <2>1, <2>4 DEF Moved
    <3> QED
      BY <2>1, <2>2, <3>1
  <2> QED
    BY <2>3, <2>4
<1> QED
  BY <1>1, <1>2 DEF Within

\* The sample of the processors stays true while the machine moves.
LEMMA MovedCpu ==
  ASSUME MachineOK, MachineOK', Moved, CpuOK
  PROVE  CpuOK'
<1> DEFINE core == MetersOf("core")
<1>1. IsFiniteSet(core) /\ core \subseteq Meters /\ IsFiniteSet(Cores)
  BY MetersAre, SamplerLimits DEF Kinds
<1>2. /\ Numbers(machine.count, core) /\ Numbers(real, core)
      /\ Numbers(machine'.count, core) /\ Numbers(real', core)
      /\ Numbers(machine.idle, Cores) /\ Numbers(machine'.idle, Cores)
  BY <1>1 DEF MachineOK, Machines, Numbers
<1>3. \A m \in core : machine'.count[m] + real[m] = machine.count[m] + real'[m]
  BY DEF Moved
<1>4. \A c \in Cores : machine.idle[c] <= machine'.idle[c]
  BY DEF Moved
<1> HIDE DEF core
<1>5. Total(machine'.count, core) + Total(real, core) = Total(machine.count, core) + Total(real', core)
  BY ONLY <1>1, <1>2, <1>3, TotalBalance
<1>6. Total(machine.idle, Cores) <= Total(machine'.idle, Cores)
  BY ONLY <1>1, <1>2, <1>4, TotalBound
<1>7. /\ Total(machine'.count, core) \in Nat /\ Total(real, core) \in Nat
      /\ Total(machine.count, core) \in Nat /\ Total(real', core) \in Nat
      /\ Total(machine.idle, Cores) \in Nat /\ Total(machine'.idle, Cores) \in Nat
  BY ONLY <1>1, <1>2, TotalType
<1>8. cpu' = cpu
  BY DEF Moved, baselines
<1> SUFFICES ASSUME cpu' # None
             PROVE  /\ cpu'.idle \in Nat /\ cpu'.total \in Nat /\ cpu'.idle <= cpu'.total
                    /\ Len(cpu'.cores) \in 1 .. Cardinality(Cores)
                    /\ cpu'.idle <= Total(machine'.idle, Cores)
                    /\ Total(machine'.count, core)
                         <= (cpu'.total - cpu'.idle) + Total(real', core)
  BY DEF CpuOK, core
<1>9. /\ cpu.idle \in Nat /\ cpu.total \in Nat /\ cpu.idle <= cpu.total
      /\ Len(cpu.cores) \in 1 .. Cardinality(Cores)
      /\ cpu.idle <= Total(machine.idle, Cores)
      /\ Total(machine.count, core) <= (cpu.total - cpu.idle) + Total(real, core)
  BY <1>8 DEF CpuOK, core
<1> DEFINE i == cpu.idle
           t == cpu.total
<1>10. i <= Total(machine'.idle, Cores)
  BY <1>6, <1>7, <1>9
<1>11. Total(machine'.count, core) <= (t - i) + Total(real', core)
  BY <1>5, <1>7, <1>9
<1> QED
  BY <1>8, <1>9, <1>10, <1>11

\* So does each of its lines.
LEMMA MovedCores ==
  ASSUME MachineOK, MachineOK', Moved, CoresOK
  PROVE  CoresOK'
<1>1. cpu' = cpu /\ counted' = counted
  BY DEF Moved, baselines
<1>2. ASSUME NEW c \in Cores, NEW line, Ticked(line, c, machine.idle, machine.count, real)
      PROVE  Ticked(line, c, machine'.idle, machine'.count, real')
  <2> DEFINE m == <<"core", c>>
  <2>1. m \in MetersOf("core") /\ m \in Meters
    BY MetersAre DEF Kinds
  <2>2. machine'.count[m] + real[m] = machine.count[m] + real'[m]
    BY <2>1 DEF Moved
  <2>3. machine.idle[c] <= machine'.idle[c]
    BY DEF Moved
  <2>4. /\ machine.count[m] \in Nat /\ machine'.count[m] \in Nat
        /\ real[m] \in Nat /\ real'[m] \in Nat
        /\ machine.idle[c] \in Nat /\ machine'.idle[c] \in Nat
    BY <2>1 DEF MachineOK, Machines
  <2>5. /\ line.idle \in Nat /\ line.total \in Nat /\ line.idle <= line.total
        /\ line.idle <= machine.idle[c]
        /\ machine.count[m] <= (line.total - line.idle) + real[m]
    BY <1>2 DEF Ticked
  <2> HIDE DEF m
  <2>6. /\ line.idle <= machine'.idle[c]
        /\ machine'.count[m] <= (line.total - line.idle) + real'[m]
    BY <2>2, <2>3, <2>4, <2>5
  <2> QED
    BY <2>5, <2>6 DEF Ticked, m
<1>3. ASSUME cpu # None, NEW i \in 1 .. Cardinality(counted)
      PROVE  Ticked(cpu.cores[i], CoreAt(counted, i), machine'.idle, machine'.count, real')
  <2>1. /\ Ticked(cpu.cores[i], CoreAt(counted, i), machine.idle, machine.count, real)
        /\ CoreAt(counted, i) \in Cores
    BY <1>3 DEF CoresOK, Ticked
  <2> QED
    BY <1>2, <2>1
<1> QED
  BY <1>1, <1>3 DEF CoresOK

\* Records are appended to the log: what was read stays what it was.
LEMMA MovedAlerts ==
  ASSUME MachineOK, MachineOK', Moved, AlertsOK
  PROVE  AlertsOK'
<1>1. kernel_alerts' = kernel_alerts /\ kmsg' = kmsg /\ opened' = opened
  BY DEF Moved, alerts
<1>2. /\ Len(log) \in Nat /\ Len(log') \in Nat /\ Len(log) <= Len(log')
      /\ \A i \in 1 .. Len(log) : log'[i] = log[i]
  <2>1. log \in Seq(Priorities)
    BY DEF MachineOK
  <2>2. CASE log' = log
    BY <2>1, <2>2
  <2>3. ASSUME NEW p \in Priorities, log' = Append(log, p)
        PROVE  /\ Len(log) \in Nat /\ Len(log') \in Nat /\ Len(log) <= Len(log')
               /\ \A i \in 1 .. Len(log) : log'[i] = log[i]
    BY <2>1, <2>3
  <2> QED
    BY <2>2, <2>3 DEF Moved
<1>3. /\ kernel_alerts' \in Seq(Nat) /\ Len(kernel_alerts') <= AlertLimit
      /\ kmsg' = None => kernel_alerts' = <<>>
  BY <1>1 DEF AlertsOK
<1>4. \A i \in 1 .. Len(kernel_alerts') : kernel_alerts'[i] \in 1 .. Len(log')
  <2>1. \A i \in 1 .. Len(kernel_alerts) : kernel_alerts[i] \in 1 .. Len(log)
    BY DEF AlertsOK
  <2>2. \A i \in 1 .. Len(log) : i \in 1 .. Len(log')
    BY <1>2
  <2> QED
    BY <1>1, <2>1, <2>2
<1>5. ASSUME kmsg' # None
      PROVE  /\ kmsg' \in 1 .. (Len(log') + 1) /\ opened' \in Nat \ {0} /\ opened' <= kmsg'
             /\ kernel_alerts' = LastOf(AlertsIn(log', opened', kmsg' - 1), AlertLimit)
  <2>1. /\ kmsg \in 1 .. (Len(log) + 1) /\ opened \in Nat \ {0} /\ opened <= kmsg
        /\ kernel_alerts = LastOf(AlertsIn(log, opened, kmsg - 1), AlertLimit)
    BY <1>1, <1>5 DEF AlertsOK
  <2> DEFINE last == kmsg - 1
  <2>2. last \in Nat /\ last <= Len(log) /\ kmsg \in 1 .. (Len(log') + 1)
    BY <1>2, <2>1
  <2>3. \A i \in 1 .. last : log'[i] = log[i]
    BY <1>2, <2>2
  <2> HIDE DEF last
  <2>4. AlertsIn(log', opened, last) = AlertsIn(log, opened, last)
    BY ONLY <2>1, <2>2, <2>3, AlertsSame
  <2> QED
    BY <1>1, <2>1, <2>2, <2>4 DEF last
<1> QED
  BY <1>3, <1>4, <1>5 DEF AlertsOK

\* The machine keeps the invariant.
LEMMA MachineKeeps ==
  ASSUME SInv, Machine
  PROVE  SInv'
<1>1. MachineOK' /\ Moved
  BY MachineMoves DEF SInv
<1>2. SnapshotOK'
  BY <1>1 DEF SInv, SnapshotOK, Moved
<1>3. CpuOK'
  BY <1>1, MovedCpu DEF SInv
<1>4. ReadingsOK'
  <2>1. process_cpu' = process_cpu /\ disk' = disk /\ network' = network
    BY <1>1 DEF Moved, baselines
  <2>2. {"pid", "disk", "nic"} \subseteq Kinds \ {"core"}
    BY DEF Kinds
  <2>3. process_cpu' # None => process_cpu'.total \in Nat /\ ReadingOf(process_cpu.ticks, "pid")'
    BY <1>1, <2>1, <2>2, MovedWithin DEF SInv, ReadingsOK, ReadingOf
  <2>4. disk' # None => ReadingOf(disk, "disk")'
    BY <1>1, <2>1, <2>2, MovedWithin DEF SInv, ReadingsOK, ReadingOf
  <2>5. network' # None => ReadingOf(network, "nic")'
    BY <1>1, <2>1, <2>2, MovedWithin DEF SInv, ReadingsOK, ReadingOf
  <2> QED
    BY <2>3, <2>4, <2>5 DEF ReadingsOK
<1>5. StaticOK'
  <2>1. pc' = pc /\ static_sample' = static_sample /\ snapshot' = snapshot
    BY <1>1 DEF Moved
  <2>2. CASE renamed' = renamed /\ machine'.hostname = machine.hostname
    BY <2>1, <2>2 DEF SInv, StaticOK
  <2>3. CASE pc = "static" /\ renamed' = 0
    BY <2>1, <2>3, SamplerLimits DEF SInv, StaticOK
  <2> QED
    BY <1>1, <2>2, <2>3 DEF Moved
<1>6. AlertsOK'
  BY <1>1, MovedAlerts DEF SInv
<1>7. CoresOK'
  BY <1>1, MovedCores DEF SInv
<1> QED
  BY <1>1, <1>2, <1>3, <1>4, <1>5, <1>6, <1>7 DEF SInv

-----------------------------------------------------------------------------
(* A round keeps the invariant: what no read has looked at stays.          *)

\* The element at a place of a set of numbers, in their order, is in the set:
\* each element has a place of its own, and there are as many of both.
LEMMA CoreAtIs ==
  ASSUME NEW S, S \subseteq Nat, IsFiniteSet(S), NEW i \in 1 .. Cardinality(S)
  PROVE  CoreAt(S, i) \in S
<1> DEFINE Below(c) == {d \in S : d <= c}
           place == [c \in S |-> Cardinality(Below(c))]
           n == Cardinality(S)
<1>1. n \in Nat
  BY FS_CardinalityType
<1>2. ASSUME NEW c \in S
      PROVE  /\ IsFiniteSet(Below(c)) /\ c \in Below(c)
             /\ Cardinality(Below(c)) \in 1 .. n
  <2>1. c \in Below(c) /\ Below(c) \in SUBSET S
    OBVIOUS
  <2> HIDE DEF Below
  <2>2. IsFiniteSet(Below(c)) /\ Cardinality(Below(c)) <= n
    BY <2>1, FS_Subset
  <2>3. Cardinality(Below(c)) \in Nat /\ Cardinality(Below(c)) # 0
    BY <2>1, <2>2, FS_CardinalityType, FS_EmptySet
  <2> QED
    BY <1>1, <2>1, <2>2, <2>3
<1>3. ASSUME NEW x \in S, NEW y \in S, x < y PROVE place[x] # place[y]
  <2>1. Below(x) \in SUBSET Below(y) /\ y \notin Below(x)
    <3>1. x \in Nat /\ y \in Nat /\ ~(y <= x)
      BY <1>3
    <3>2. \A d \in S : d \in Nat /\ (d <= x => d <= y)
      BY <1>3, <3>1
    <3> QED
      BY <3>1, <3>2
  <2>2. IsFiniteSet(Below(y)) /\ y \in Below(y)
    BY <1>2
  <2>3. place[x] = Cardinality(Below(x)) /\ place[y] = Cardinality(Below(y))
    OBVIOUS
  <2> HIDE DEF Below, place
  <2>4. Cardinality(Below(y)) = Cardinality(Below(x)) => Below(y) = Below(x)
    BY <2>1, <2>2, FS_Subset
  <2> QED
    BY <2>1, <2>2, <2>3, <2>4
<1>4. place \in [S -> 1 .. n]
  BY <1>2
<1>5. \A x, y \in S : place[x] = place[y] => x = y
  <2> HIDE DEF place
  <2> SUFFICES ASSUME NEW x \in S, NEW y \in S, x # y PROVE place[x] # place[y]
    OBVIOUS
  <2>1. x < y \/ y < x
    OBVIOUS
  <2> QED
    BY <1>3, <2>1
<1>6. place \in Surjection(S, 1 .. n)
  <2> HIDE DEF place
  <2>1. place \in Injection(S, 1 .. n)
    BY <1>4, <1>5 DEF Injection, IsInjective
  <2>2. IsFiniteSet(1 .. n) /\ Cardinality(1 .. n) = n
    BY <1>1, FS_Interval
  <2> QED
    BY <2>1, <2>2, FS_Injection
<1>7. PICK c \in S : place[c] = i
  <2> HIDE DEF place
  <2> QED
    BY <1>6 DEF Surjection
<1>8. \E c_ \in S : Cardinality({d \in S : d <= c_}) = i
  BY <1>7
<1> QED
  BY <1>8 DEF CoreAt

\* The processors as /proc/stat tells them, in all and one by one.
LEMMA CpuTimesAre ==
  ASSUME MachineOK
  PROVE  /\ CpuTimes.idle = Total(machine.idle, Cores) /\ CpuTimes.idle \in Nat
         /\ CpuTimes.total = CpuTimes.idle + Total(machine.count, MetersOf("core"))
         /\ CpuTimes.total \in Nat
         /\ Total(machine.count, MetersOf("core")) \in Nat
         /\ Len(CpuTimes.cores) \in 1 .. Cardinality(Cores)
         /\ Len(CpuTimes.cores) = Cardinality(Online)
         /\ DOMAIN CpuTimes.cores = 1 .. Cardinality(Online)
         /\ \A i \in 1 .. Cardinality(Online) :
              /\ CoreAt(Online, i) \in Cores
              /\ CpuTimes.cores[i] = CoreTimes(CoreAt(Online, i))
<1> DEFINE core == MetersOf("core")
           rows == [i \in 1 .. Cardinality(Online) |-> CoreTimes(CoreAt(Online, i))]
<1>1. IsFiniteSet(core) /\ IsFiniteSet(Cores)
  BY MetersAre, SamplerLimits DEF Kinds
<1>2. Numbers(machine.count, core) /\ Numbers(machine.idle, Cores)
  BY MachineNumbers DEF Kinds
<1>3. Total(machine.idle, Cores) \in Nat /\ Total(machine.count, core) \in Nat
  BY <1>1, <1>2, TotalType
<1>4. /\ CpuTimes.idle = Total(machine.idle, Cores)
      /\ CpuTimes.total = Total(machine.idle, Cores) + Total(machine.count, core)
      /\ CpuTimes.cores = rows
  BY DEF CpuTimes
<1>5. Online \subseteq Cores /\ Online # {}
  <2>1. \A m \in Present("core") : m[2] \in Cores
    BY MetersAre DEF Present
  <2> QED
    BY <2>1 DEF MachineOK, Online
<1>6. IsFiniteSet(Online) /\ Cardinality(Online) \in 1 .. Cardinality(Cores)
  <2>1. IsFiniteSet(Online) /\ Cardinality(Online) <= Cardinality(Cores)
    BY <1>1, <1>5, FS_Subset
  <2>2. Cardinality(Online) \in Nat /\ Cardinality(Cores) \in Nat /\ Cardinality(Online) # 0
    BY <1>1, <1>5, <2>1, FS_CardinalityType, FS_EmptySet
  <2> QED
    BY <2>1, <2>2
<1>7. Len(rows) = Cardinality(Online) /\ DOMAIN rows = 1 .. Cardinality(Online)
  BY <1>6
<1>8. \A i \in 1 .. Cardinality(Online) : CoreAt(Online, i) \in Cores
  <2>1. Online \subseteq Nat
    BY <1>5, SamplerLimits
  <2> QED
    BY <1>5, <1>6, <2>1, CoreAtIs
<1>9. \A i \in 1 .. Cardinality(Online) : rows[i] = CoreTimes(CoreAt(Online, i))
  OBVIOUS
<1> HIDE DEF rows
<1> QED
  BY <1>3, <1>4, <1>6, <1>7, <1>8, <1>9

\* Reading a kind of meters starts its count of what really moved anew, and
\* leaves the other kinds alone.
LEMMA ReadIs ==
  ASSUME MachineOK, NEW kind \in Kinds, Read(kind)
  PROVE  /\ real' \in [Meters -> Nat]
         /\ \A m \in MetersOf(kind) : real'[m] = 0
         /\ \A other \in Kinds \ {kind} : \A m \in MetersOf(other) : real'[m] = real[m]
         /\ counted' = IF kind = "core" THEN Online ELSE counted
<1>1. /\ \A x \in Kinds : \A m \in MetersOf(x) : m \in Meters /\ m[1] = x
      /\ real \in [Meters -> Nat]
  BY MetersAre DEF MachineOK
<1> QED
  BY <1>1 DEF Read

\* The machine does not move while it is read.
LEMMA MachineStays ==
  ASSUME MachineOK, machine' = machine, log' = log, moving' = moving, events' = events,
         real' \in [Meters -> Nat]
  PROVE  MachineOK'
  BY DEF MachineOK, Present

\* The sample of the processors stays true when other meters are read.
LEMMA CpuStays ==
  ASSUME MachineOK, CpuOK, cpu' = cpu, machine'.idle = machine.idle,
         machine'.count = machine.count,
         \A m \in MetersOf("core") : real'[m] = real[m]
  PROVE  CpuOK'
<1>1. Total(real, MetersOf("core")) = Total(real', MetersOf("core"))
  BY MachineNumbers, MetersAre, TotalSame DEF Kinds
<1> QED
  BY <1>1 DEF CpuOK

\* So do its lines.
LEMMA CoresStay ==
  ASSUME CoresOK, cpu' = cpu, counted' = counted, machine'.idle = machine.idle,
         machine'.count = machine.count,
         \A m \in MetersOf("core") : real'[m] = real[m]
  PROVE  CoresOK'
<1>1. ASSUME NEW line, NEW c, Ticked(line, c, machine.idle, machine.count, real)
      PROVE  Ticked(line, c, machine'.idle, machine'.count, real')
  <2>1. <<"core", c>> \in MetersOf("core")
    BY <1>1, MetersAre DEF Ticked
  <2> QED
    BY <1>1, <2>1 DEF Ticked
<1> QED
  BY <1>1 DEF CoresOK

\* So does a sample of meters, also when one of them leaves.
LEMMA WithinStays ==
  ASSUME NEW previous, NEW kind, Within(previous, kind, machine.present, machine.count, real),
         machine'.count = machine.count, machine'.present \subseteq machine.present,
         \A m \in MetersOf(kind) : real'[m] = real[m]
  PROVE  Within(previous, kind, machine'.present, machine'.count, real')
  BY DEF Within

\* What the alerts are of.
LEMMA AlertsStay ==
  ASSUME AlertsOK, UNCHANGED alerts, log' = log
  PROVE  AlertsOK'
  BY DEF AlertsOK, alerts

\* The static sample.
LEMMA StaticStays ==
  ASSUME StaticOK, static_sample' = static_sample, renamed' = renamed,
         machine'.hostname = machine.hostname, pc' # "cpu"
  PROVE  StaticOK'
  BY DEF StaticOK

\* The readings that this read does not replace.
LEMMA ReadingsStay ==
  ASSUME MachineOK, ReadingsOK, NEW kind \in Kinds, Read(kind), machine'.count = machine.count,
         machine'.present \subseteq machine.present
  PROVE  /\ process_cpu' = process_cpu /\ kind # "pid" =>
              (process_cpu' # None => process_cpu'.total \in Nat /\ ReadingOf(process_cpu.ticks, "pid")')
         /\ disk' = disk /\ kind # "disk" => (disk' # None => ReadingOf(disk, "disk")')
         /\ network' = network /\ kind # "nic" => (network' # None => ReadingOf(network, "nic")')
<1>1. {"pid", "disk", "nic"} \subseteq Kinds
  BY DEF Kinds
<1>2. ASSUME process_cpu' = process_cpu, kind # "pid", process_cpu' # None
      PROVE  process_cpu'.total \in Nat /\ ReadingOf(process_cpu.ticks, "pid")'
  BY <1>1, <1>2, ReadIs, WithinStays DEF ReadingsOK, ReadingOf
<1>3. ASSUME disk' = disk, kind # "disk", disk' # None PROVE ReadingOf(disk, "disk")'
  BY <1>1, <1>3, ReadIs, WithinStays DEF ReadingsOK, ReadingOf
<1>4. ASSUME network' = network, kind # "nic", network' # None PROVE ReadingOf(network, "nic")'
  BY <1>1, <1>4, ReadIs, WithinStays DEF ReadingsOK, ReadingOf
<1> QED
  BY <1>2, <1>3, <1>4

\* A difference of samples is a number.
LEMMA DeltaType ==
  ASSUME NEW previous, NEW current, NEW S, IsFiniteSet(S), DOMAIN previous \subseteq S,
         \A m \in DOMAIN previous : previous[m] \in Nat,
         \A m \in DOMAIN current : current[m] \in Nat
  PROVE  Delta(previous, current) \in Nat
<1> DEFINE both == DOMAIN previous \cap DOMAIN current
           f == [m \in both |-> saturating_sub(current[m], previous[m])]
<1>1. IsFiniteSet(both)
  BY FS_Subset
<1>2. \A m \in both : f[m] \in Nat
  BY DEF saturating_sub
<1>3. Delta(previous, current) = Total(f, both)
  BY DEF Delta
<1> HIDE DEF f, both
<1>4. Numbers(f, both)
  BY <1>2 DEF Numbers
<1> QED
  BY <1>1, <1>3, <1>4, TotalType

\* A text that shows a number, or none.
LEMMA TextsAre ==
  /\ \A n \in Nat : Value(n) \in Texts
  /\ Measuring \in Texts /\ Unavailable \in Texts
  BY DEF Texts, Value, Measuring, Unavailable

\* The static sample is read: if its name is not the machine's, it is too young.
LEMMA StaticKeeps ==
  ASSUME SInv, StaticSample, UNCHANGED moving
  PROVE  SInv'
<1> DEFINE fresh == static_sample = None \/ static_sample.age >= StaticAge
           kept == IF fresh THEN [age |-> 0, hostname |-> machine.hostname] ELSE static_sample
<1>0. /\ pc = "static" /\ pc' = "cpu"
      /\ static_sample' = [kept EXCEPT !.age = @ + 1]
      /\ snapshot' = [snapshot EXCEPT !.hostname = kept.hostname]
      /\ renamed' = renamed + (IF renamed > StaticAge THEN 0 ELSE 1)
      /\ UNCHANGED <<baselines, alerts, machine, log, real, counted, events>>
  BY DEF StaticSample, StaticRead
<1>1. /\ MachineOK /\ SnapshotOK /\ CpuOK /\ CoresOK /\ ReadingsOK /\ StaticOK /\ AlertsOK
      /\ StaticAge \in Nat \ {0}
  BY SamplerLimits DEF SInv
<1>2. /\ DOMAIN kept = {"age", "hostname"} /\ kept.age \in Nat /\ kept.age < StaticAge
      /\ kept.hostname # machine.hostname => renamed < kept.age
  <2>1. CASE fresh
    BY <1>1, <2>1
  <2>2. CASE ~fresh
    BY <1>1, <2>2 DEF StaticOK
  <2> QED
    BY <2>1, <2>2
<1> HIDE DEF kept
<1>3. MachineOK'
  BY <1>0, <1>1 DEF MachineOK, Present
<1>4. SnapshotOK'
  BY <1>0, <1>1 DEF SnapshotOK
<1>5. CpuOK' /\ CoresOK' /\ ReadingsOK'
  BY <1>0, <1>1 DEF CpuOK, CoresOK, ReadingsOK, ReadingOf, baselines
<1>6. AlertsOK'
  BY <1>0, <1>1, AlertsStay
<1>7. StaticOK'
  <2>1. /\ DOMAIN static_sample' = {"age", "hostname"} /\ static_sample'.age = kept.age + 1
        /\ static_sample'.hostname = kept.hostname
    BY <1>0, <1>2
  <2>2. snapshot'.hostname = kept.hostname
    BY <1>0, <1>1 DEF SnapshotOK
  <2>3. renamed' \in Nat /\ renamed' <= renamed + 1 /\ renamed \in Nat
    BY <1>0, <1>1 DEF StaticOK
  <2> QED
    BY <1>0, <1>1, <1>2, <2>1, <2>2, <2>3 DEF StaticOK
<1> QED
  BY <1>3, <1>4, <1>5, <1>6, <1>7 DEF SInv

\* The share of the processors that was used.
LEMMA UsedSinceType ==
  ASSUME NEW previous, NEW now, previous.idle \in Nat, previous.total \in Nat,
         now.idle \in Nat, now.total \in Nat
  PROVE  UsedSince(previous, now) \in Texts
<1> DEFINE share == Share(previous, now)
<1>1. share.total \in Nat /\ share.used \in Nat
  BY DEF Share, saturating_sub
<1>2. UsedSince(previous, now) = IF share.total = 0 THEN Unavailable ELSE Percent(share)
  BY DEF UsedSince
<1> HIDE DEF share
<1>3. ASSUME share.total # 0 PROVE Percent(share) \in Texts
  <2> DEFINE a == share.used * 100
             b == share.total
  <2>1. a \in Nat /\ b \in Nat \ {0}
    BY <1>1, <1>3
  <2>2. Percent(share) = Value(a \div b)
    BY DEF Percent
  <2> HIDE DEF a, b
  <2> QED
    BY <2>1, <2>2, Quotient, TextsAre
<1> QED
  BY <1>2, <1>3, TextsAre

\* The processors are read: the sample is what they show now.
LEMMA CpuKeeps ==
  ASSUME SInv, CpuUsage, UNCHANGED moving
  PROVE  SInv'
<1>1. /\ MachineOK /\ SnapshotOK /\ CpuOK /\ CoresOK /\ ReadingsOK /\ StaticOK /\ AlertsOK
  BY DEF SInv
<1>2. /\ pc' = "process" /\ Read("core")
      /\ UNCHANGED <<disk, network, process_cpu, static_sample, alerts, machine, log,
                     renamed, events>>
  BY DEF CpuUsage
<1>3. "core" \in Kinds /\ "core" # "pid" /\ "core" # "disk" /\ "core" # "nic"
  BY DEF Kinds
<1>4. /\ real' \in [Meters -> Nat] /\ \A m \in MetersOf("core") : real'[m] = 0
      /\ counted' = Online
  BY <1>1, <1>2, <1>3, ReadIs
<1>5. MachineOK'
  BY <1>1, <1>2, <1>4, MachineStays
<1>6. SnapshotOK'
  <2>1. CASE cpu' = None /\ snapshot' = [snapshot EXCEPT !.cpu = Unavailable, !.cores = <<>>]
    BY <1>1, <1>2, <2>1, TextsAre DEF SnapshotOK
  <2> DEFINE used == IF cpu = None THEN Measuring ELSE UsedSince(cpu, CpuTimes)
             rows == render_core_rows(IF cpu = None THEN <<>> ELSE cpu.cores, CpuTimes.cores)
  <2>2. CASE snapshot' = [snapshot EXCEPT !.cpu = used, !.cores = rows]
    <3>1. used \in Texts
      BY <1>1, CpuTimesAre, UsedSinceType, TextsAre DEF CpuOK
    <3> HIDE DEF used, rows
    <3> QED
      BY <1>1, <1>2, <2>2, <3>1 DEF SnapshotOK
  <2> QED
    BY <2>1, <2>2 DEF CpuUsage
<1>7. CpuOK'
  <2>1. CASE cpu' = None
    BY <2>1 DEF CpuOK
  <2>2. CASE cpu' = CpuTimes
    <3>1. Total(real', MetersOf("core")) = 0
      BY <1>3, <1>4, MetersAre, TotalZero
    <3>2. /\ CpuTimes.idle = Total(machine.idle, Cores) /\ CpuTimes.idle \in Nat
          /\ CpuTimes.total = CpuTimes.idle + Total(machine.count, MetersOf("core"))
          /\ CpuTimes.total \in Nat /\ Total(machine.count, MetersOf("core")) \in Nat
          /\ Len(CpuTimes.cores) \in 1 .. Cardinality(Cores)
      BY <1>1, CpuTimesAre
    <3>3. CpuTimes.idle <= CpuTimes.total
      BY <3>2
    <3>4. Total(machine.count, MetersOf("core")) <= (CpuTimes.total - CpuTimes.idle) + 0
      BY <3>2
    <3>5. machine' = machine
      BY <1>2
    <3> QED
      BY <2>2, <3>1, <3>2, <3>3, <3>4, <3>5 DEF CpuOK
  <2> QED
    BY <2>1, <2>2 DEF CpuUsage
<1>8. ReadingsOK'
  <2>1. machine'.count = machine.count /\ machine'.present \subseteq machine.present
    BY <1>2
  <2> QED
    BY <1>1, <1>2, <1>3, <2>1, ReadingsStay DEF ReadingsOK, ReadingOf
<1>9. StaticOK'
  BY <1>1, <1>2, StaticStays
<1>10. AlertsOK'
  BY <1>1, <1>2, AlertsStay
<1>11. CoresOK'
  <2>1. CASE cpu' = None
    BY <2>1 DEF CoresOK
  <2>2. CASE cpu' = CpuTimes
    <3>1. ASSUME NEW i \in 1 .. Cardinality(Online)
          PROVE  Ticked(CpuTimes.cores[i], CoreAt(Online, i), machine.idle, machine.count, real')
      <4> DEFINE c == CoreAt(Online, i)
                 m == <<"core", c>>
      <4>1. c \in Cores /\ CpuTimes.cores[i] = CoreTimes(c)
        BY <1>1, CpuTimesAre
      <4> HIDE DEF c
      <4>2. m \in MetersOf("core") /\ m \in Meters
        BY <1>3, <4>1, MetersAre
      <4>3. machine.idle[c] \in Nat /\ machine.count[m] \in Nat /\ real'[m] = 0
        BY <1>1, <1>4, <4>1, <4>2, MachineNumbers
      <4>4. /\ CoreTimes(c).idle = machine.idle[c]
            /\ CoreTimes(c).total = machine.idle[c] + machine.count[m]
        BY DEF CoreTimes
      <4>5. Ticked(CoreTimes(c), c, machine.idle, machine.count, real')
        BY <4>1, <4>3, <4>4 DEF Ticked
      <4> QED
        BY <4>1, <4>5 DEF c
    <3>2. Len(CpuTimes.cores) = Cardinality(Online) /\ machine' = machine
      BY <1>1, <1>2, CpuTimesAre
    <3> QED
      BY <1>4, <2>2, <3>1, <3>2 DEF CoresOK
  <2> QED
    BY <2>1, <2>2 DEF CpuUsage
<1> QED
  BY <1>5, <1>6, <1>7, <1>8, <1>9, <1>10, <1>11 DEF SInv

\* Of finitely many that are known there is a busiest.
LEMMA BusiestIs ==
  ASSUME MachineOK, NEW previous, NEW ticks, NEW known, known \subseteq MetersOf("pid"), known # {},
         \A p \in known : previous[p] \in Nat /\ ticks[p] \in Nat
  PROVE  \E p \in known : \A q \in known : Busier(previous, ticks, p, q)
<1> DEFINE Holds == {T \in SUBSET known : T = {} \/ \E p \in T : \A q \in T : Busier(previous, ticks, p, q)}
           d(p) == saturating_sub(ticks[p], previous[p])
<1>1. IsFiniteSet(known)
  BY MetersAre, FS_Subset DEF Kinds
<1>2. /\ \A p \in known : d(p) \in Nat /\ p[2] \in Nat /\ machine.rss[p[2]] \in Nat
      /\ \A p, q \in known : Busier(previous, ticks, p, q)
           <=> \/ d(p) > d(q)
               \/ d(p) = d(q) /\ machine.rss[p[2]] > machine.rss[q[2]]
               \/ d(p) = d(q) /\ machine.rss[p[2]] = machine.rss[q[2]] /\ p[2] <= q[2]
  <2>1. \A p \in known : p[2] \in Pids
    BY MetersAre
  <2>2. \A p \in known : p[2] \in Nat /\ machine.rss[p[2]] \in Nat
    BY <2>1, MachineNumbers, SamplerLimits
  <2> QED
    BY <2>2 DEF saturating_sub, Busier
<1> HIDE DEF d
<1>3. \A p \in known : Busier(previous, ticks, p, p)
  BY <1>2
<1>4. \A p, q \in known : Busier(previous, ticks, p, q) \/ Busier(previous, ticks, q, p)
  BY <1>2
<1>5. \A p, q, r \in known :
        Busier(previous, ticks, p, q) /\ Busier(previous, ticks, q, r) => Busier(previous, ticks, p, r)
  BY <1>2
<1>6. ASSUME NEW T \in SUBSET known, \A x \in T : T \ {x} \in Holds
      PROVE  T \in Holds
  <2>1. CASE T = {}
    BY <2>1
  <2>2. ASSUME NEW x \in T PROVE T \in Holds
    <3>1. T \ {x} = {} \/ \E p \in T \ {x} : \A q \in T \ {x} : Busier(previous, ticks, p, q)
      BY <1>6, <2>2
    <3>2. CASE T \ {x} = {}
      BY <1>3, <3>2
    <3>3. ASSUME NEW p \in T \ {x}, \A q \in T \ {x} : Busier(previous, ticks, p, q)
          PROVE  \E r \in T : \A q \in T : Busier(previous, ticks, r, q)
      <4>1. CASE Busier(previous, ticks, p, x)
        BY <3>3, <4>1
      <4>2. CASE Busier(previous, ticks, x, p)
        BY <1>3, <1>5, <3>3, <4>2
      <4> QED
        BY <1>4, <4>1, <4>2
    <3> QED
      BY <3>1, <3>2, <3>3
  <2> QED
    BY <2>1, <2>2
<1>7. known \in Holds
  <2> HIDE DEF Holds
  <2>1. \A T \in SUBSET known : T \in Holds
    BY ONLY <1>1, <1>6, SetInduction
  <2> QED
    BY <2>1
<1> QED
  BY <1>7

\* What is shown of the busiest process is a share of what it counted.
LEMMA TopProcessIs ==
  ASSUME MachineOK, NEW previous, NEW total \in Nat, NEW ticks,
         previous.total \in Nat, DOMAIN previous.ticks \subseteq MetersOf("pid"),
         \A p \in DOMAIN previous.ticks : previous.ticks[p] \in Nat,
         \A p \in DOMAIN ticks : ticks[p] \in Nat
  PROVE  /\ TopProcess(previous, total, ticks) \in Texts
         /\ TopProcess(previous, total, ticks).kind = "value" =>
              \E p \in DOMAIN previous.ticks \cap DOMAIN ticks :
                TopProcess(previous, total, ticks).n * saturating_sub(total, previous.total)
                  <= saturating_sub(ticks[p], previous.ticks[p]) * 100
<1> DEFINE known == DOMAIN previous.ticks \cap DOMAIN ticks
           span == saturating_sub(total, previous.total)
           top == CHOOSE p \in known : \A q \in known : Busier(previous.ticks, ticks, p, q)
           a == saturating_sub(ticks[top], previous.ticks[top]) * 100
           shown == TopProcess(previous, total, ticks)
<1>1. span \in Nat
  BY DEF saturating_sub
<1>2. CASE span = 0
  <2>1. shown = Unavailable
    BY <1>2 DEF TopProcess
  <2> QED
    BY <2>1, TextsAre DEF Unavailable
<1>3. CASE span # 0 /\ known = {}
  <2>1. shown = Measuring
    BY <1>1, <1>3 DEF TopProcess
  <2> QED
    BY <2>1, TextsAre DEF Measuring
<1>4. CASE span # 0 /\ known # {}
  <2>1. shown = Value(a \div span)
    BY <1>1, <1>4 DEF TopProcess
  <2>2. \A p \in known : previous.ticks[p] \in Nat /\ ticks[p] \in Nat
    OBVIOUS
  <2>3. \E p \in known : \A q \in known : Busier(previous.ticks, ticks, p, q)
    <3> HIDE DEF known
    <3>1. known \subseteq MetersOf("pid")
      BY DEF known
    <3> QED
      BY <1>4, <2>2, <3>1, BusiestIs
  <2>4. top \in known
    BY <2>3
  <2> HIDE DEF top
  <2>5. a \in Nat /\ span \in Nat \ {0}
    BY <1>1, <1>4, <2>2, <2>4 DEF saturating_sub
  <2> HIDE DEF span, shown, a
  <2>6. a \div span \in Nat /\ (a \div span) * span <= a
    BY ONLY <2>5, Quotient
  <2>7. shown \in Texts
    BY <2>1, <2>6, TextsAre
  <2>8. shown.n = a \div span
    BY <2>1 DEF Value
  <2>9. shown.n * span <= a
    BY <2>6, <2>8
  <2>10. \E p \in known : shown.n * span <= saturating_sub(ticks[p], previous.ticks[p]) * 100
    BY <2>4, <2>9 DEF a
  <2> QED
    BY <2>7, <2>10 DEF shown, span
<1> QED
  BY <1>2, <1>3, <1>4

\* The processes are read.
LEMMA ProcessKeeps ==
  ASSUME SInv, ProcessSummary, UNCHANGED moving
  PROVE  SInv'
<1> DEFINE ticks == [m \in Present("pid") |-> machine.count[m]]
           top == IF process_cpu = None THEN Measuring
                  ELSE TopProcess(process_cpu, CpuTimes.total, ticks)
           shown == IF top_process_required(snapshot.cpu, top) THEN top ELSE Measuring
<1>1. /\ MachineOK /\ SnapshotOK /\ CpuOK /\ CoresOK /\ ReadingsOK /\ StaticOK /\ AlertsOK
  BY DEF SInv
<1>2. /\ pc' = "disks" /\ Read("pid")
      /\ \/ process_cpu' = [total |-> CpuTimes.total, ticks |-> ticks]
            /\ snapshot' = [snapshot EXCEPT !.top = shown]
         \/ process_cpu' = None /\ snapshot' = [snapshot EXCEPT !.top = Unavailable]
      /\ UNCHANGED <<cpu, disk, network, static_sample, alerts, machine, log, renamed, events>>
  BY DEF ProcessSummary
<1>3. "pid" \in Kinds /\ "pid" # "core" /\ "pid" # "disk" /\ "pid" # "nic" /\ "core" \in Kinds
  BY DEF Kinds
<1>4. /\ real' \in [Meters -> Nat]
      /\ \A m \in MetersOf("pid") : real'[m] = 0
      /\ \A m \in MetersOf("core") : real'[m] = real[m]
      /\ counted' = counted
  BY <1>1, <1>2, <1>3, ReadIs
<1>5. MachineOK'
  BY <1>1, <1>2, <1>4, MachineStays
<1>6. /\ DOMAIN ticks = Present("pid") /\ Present("pid") \subseteq MetersOf("pid")
      /\ \A m \in DOMAIN ticks : ticks[m] \in Nat /\ ticks[m] = machine.count[m]
  BY <1>1, MachineNumbers DEF Present
<1>7. top \in Texts
  <2>1. process_cpu # None =>
          /\ process_cpu.total \in Nat /\ DOMAIN process_cpu.ticks \subseteq MetersOf("pid")
          /\ \A p \in DOMAIN process_cpu.ticks : process_cpu.ticks[p] \in Nat
    BY <1>1 DEF ReadingsOK, ReadingOf, Within
  <2>2. CpuTimes.total \in Nat
    BY <1>1, CpuTimesAre
  <2> HIDE DEF ticks
  <2> QED
    BY <1>1, <1>6, <2>1, <2>2, TopProcessIs, TextsAre
<1> HIDE DEF ticks, top
<1>8. shown \in Texts
  BY <1>7, TextsAre
<1> HIDE DEF shown
<1>9. SnapshotOK'
  BY <1>1, <1>2, <1>8, TextsAre DEF SnapshotOK
<1>10. CpuOK'
  BY <1>1, <1>2, <1>4, CpuStays
<1>11. ReadingsOK'
  <2>1. machine'.count = machine.count /\ machine'.present \subseteq machine.present
    BY <1>2
  <2>2. process_cpu' # None => process_cpu'.total \in Nat /\ ReadingOf(process_cpu.ticks, "pid")'
    <3>1. ASSUME process_cpu' = [total |-> CpuTimes.total, ticks |-> ticks]
          PROVE  process_cpu'.total \in Nat /\ ReadingOf(process_cpu.ticks, "pid")'
      <4>1. process_cpu'.total = CpuTimes.total /\ process_cpu'.ticks = ticks
        BY <3>1
      <4>2. CpuTimes.total \in Nat
        BY <1>1, CpuTimesAre
      <4>3. \A m \in DOMAIN ticks : real'[m] = 0 /\ ticks[m] <= ticks[m] + real'[m]
        BY <1>4, <1>6
      <4> QED
        BY <1>2, <1>6, <4>1, <4>2, <4>3 DEF ReadingOf, Within
    <3> QED
      BY <1>2, <3>1
  <2>3. /\ disk' # None => ReadingOf(disk, "disk")'
        /\ network' # None => ReadingOf(network, "nic")'
    BY <1>1, <1>2, <1>3, <2>1, ReadingsStay
  <2> QED
    BY <2>2, <2>3 DEF ReadingsOK
<1>12. StaticOK'
  BY <1>1, <1>2, StaticStays
<1>13. AlertsOK'
  BY <1>1, <1>2, AlertsStay
<1>14. CoresOK'
  BY <1>1, <1>2, <1>4, CoresStay
<1> QED
  BY <1>5, <1>9, <1>10, <1>11, <1>12, <1>13, <1>14 DEF SInv

\* The difference to a sample that is not known is shown as none.
LEMMA RateType ==
  ASSUME NEW kind \in Kinds, NEW previous, NEW current, NEW present, NEW count, NEW moved,
         previous # None => Within(previous, kind, present, count, moved),
         \A m \in DOMAIN current : current[m] \in Nat
  PROVE  RateAgainst(previous, current) \in Texts
<1>1. ASSUME previous # None PROVE Delta(previous, current) \in Nat
  <2>1. IsFiniteSet(MetersOf(kind))
    BY MetersAre
  <2>2. DOMAIN previous \subseteq MetersOf(kind) /\ \A m \in DOMAIN previous : previous[m] \in Nat
    BY <1>1 DEF Within
  <2> QED
    BY <2>1, <2>2, DeltaType
<1> QED
  BY <1>1, TextsAre DEF RateAgainst

\* The disks are read; a failed reading leaves no sample.
LEMMA DisksKeep ==
  ASSUME SInv, ReadDisks, UNCHANGED moving
  PROVE  SInv'
<1>1. /\ MachineOK /\ SnapshotOK /\ CpuOK /\ CoresOK /\ ReadingsOK /\ StaticOK /\ AlertsOK
  BY DEF SInv
<1>2. /\ pc' = "network" /\ Read("disk")
      /\ \/ disk' = DiskCounters
            /\ snapshot' = [snapshot EXCEPT !.disk = RateAgainst(disk, DiskCounters)]
         \/ disk' = None /\ snapshot' = [snapshot EXCEPT !.disk = Unavailable]
      /\ UNCHANGED <<cpu, network, process_cpu, static_sample, alerts, machine, log,
                     renamed, events>>
  BY DEF ReadDisks, DiskRates
<1>3. "disk" \in Kinds /\ "disk" # "core" /\ "disk" # "pid" /\ "disk" # "nic" /\ "core" \in Kinds
  BY DEF Kinds
<1>4. /\ real' \in [Meters -> Nat]
      /\ \A m \in MetersOf("disk") : real'[m] = 0
      /\ \A m \in MetersOf("core") : real'[m] = real[m]
      /\ counted' = counted
  BY <1>1, <1>2, <1>3, ReadIs
<1>5. MachineOK'
  BY <1>1, <1>2, <1>4, MachineStays
<1>6. /\ DOMAIN DiskCounters \subseteq MetersOf("disk")
      /\ \A m \in DOMAIN DiskCounters : DiskCounters[m] \in Nat /\ DiskCounters[m] = machine.count[m]
  BY <1>1, MachineNumbers DEF Present, DiskCounters
<1>7. SnapshotOK'
  <2>1. RateAgainst(disk, DiskCounters) \in Texts
    BY <1>1, <1>3, <1>6, RateType DEF ReadingsOK, ReadingOf
  <2> QED
    BY <1>1, <1>2, <2>1, TextsAre DEF SnapshotOK
<1>8. CpuOK'
  BY <1>1, <1>2, <1>4, CpuStays
<1>9. ReadingsOK'
  <2>1. machine'.count = machine.count /\ machine'.present \subseteq machine.present
    BY <1>2
  <2>2. ASSUME disk' = DiskCounters PROVE ReadingOf(disk, "disk")'
    <3>1. \A m \in DOMAIN DiskCounters : DiskCounters[m] <= DiskCounters[m] + real'[m]
      BY <1>4, <1>6
    <3> QED
      BY <1>2, <1>6, <2>2, <3>1 DEF ReadingOf, Within
  <2>3. /\ process_cpu' # None => process_cpu'.total \in Nat /\ ReadingOf(process_cpu.ticks, "pid")'
        /\ network' # None => ReadingOf(network, "nic")'
    BY <1>1, <1>2, <1>3, <2>1, ReadingsStay
  <2> QED
    BY <1>2, <2>2, <2>3 DEF ReadingsOK
<1>10. StaticOK'
  BY <1>1, <1>2, StaticStays
<1>11. AlertsOK'
  BY <1>1, <1>2, AlertsStay
<1>12. CoresOK'
  BY <1>1, <1>2, <1>4, CoresStay
<1> QED
  BY <1>5, <1>7, <1>8, <1>9, <1>10, <1>11, <1>12 DEF SInv

\* The interfaces that count are there.
LEMMA InterfacesAre == Interfaces \subseteq machine.present /\ Interfaces \subseteq MetersOf("nic")
  BY DEF Interfaces, Present

\* What a reading of the network finds: 0 of an interface that went away.
Found(gone) == [m \in Interfaces |-> IF m \in gone THEN 0 ELSE machine.count[m]]

\* It is a number that an interface has really counted, or 0.
LEMMA FoundIs ==
  ASSUME MachineOK, NEW gone
  PROVE  /\ DOMAIN Found(gone) = Interfaces
         /\ \A m \in Interfaces :
              /\ Found(gone)[m] \in Nat /\ Found(gone)[m] <= machine.count[m]
              /\ m \notin gone => Found(gone)[m] = machine.count[m]
<1>1. \A m \in Interfaces : machine.count[m] \in Nat
  BY InterfacesAre, MachineNumbers
<1> QED
  BY <1>1 DEF Found

\* What a reading of the network does.
LEMMA NetworkIs ==
  ASSUME ReadNetwork
  PROVE  \/ /\ network' = None /\ UNCHANGED <<machine, events>>
            /\ snapshot' = [snapshot EXCEPT !.net = Unavailable, !.nics = <<>>,
                                            !.netstate = "unavailable"]
         \/ \E gone \in SUBSET Interfaces :
              /\ Cardinality(gone) <= events /\ events' = events - Cardinality(gone)
              /\ network' = Found(gone)
              /\ machine' = [machine EXCEPT !.present = @ \ gone]
              /\ snapshot' = [snapshot EXCEPT
                     !.net = RateAgainst(network, Found(gone)),
                     !.nics = [m \in Interfaces |-> NicRow(m, Found(gone))],
                     !.netstate = NetworkState]
<1>1. CASE ~Readable("net")
  BY <1>1 DEF ReadNetwork, NetworkRates
<1>2. CASE Readable("net")
  <2>1. PICK gone \in SUBSET (IF "nic" \in moving THEN Interfaces ELSE {}) :
          /\ Cardinality(gone) <= events /\ events' = events - Cardinality(gone)
          /\ network' = Found(gone)
          /\ machine' = [machine EXCEPT !.present = @ \ gone]
          /\ snapshot' = [snapshot EXCEPT
                 !.net = RateAgainst(network, Found(gone)),
                 !.nics = [m \in Interfaces |-> NicRow(m, Found(gone))],
                 !.netstate = NetworkState]
    BY <1>2, Zenon DEF ReadNetwork, NetworkRates, Found
  <2>2. gone \in SUBSET Interfaces
    OBVIOUS
  <2> QED
    BY <2>1, <2>2, Zenon
<1> QED
  BY <1>1, <1>2

\* The network is read; interfaces may go away meanwhile.
LEMMA NetworkKeeps ==
  ASSUME SInv, ReadNetwork, UNCHANGED moving
  PROVE  SInv'
<1>1. /\ MachineOK /\ SnapshotOK /\ CpuOK /\ CoresOK /\ ReadingsOK /\ StaticOK /\ AlertsOK
  BY DEF SInv
<1>2. /\ pc' = "boot" /\ Read("nic")
      /\ UNCHANGED <<cpu, disk, process_cpu, static_sample, alerts, log, renamed>>
  BY DEF ReadNetwork, NetworkRates
<1>3. "nic" \in Kinds /\ "nic" # "core" /\ "nic" # "pid" /\ "nic" # "disk" /\ "core" \in Kinds
  BY DEF Kinds
<1>4. /\ real' \in [Meters -> Nat]
      /\ \A m \in MetersOf("nic") : real'[m] = 0
      /\ \A m \in MetersOf("core") : real'[m] = real[m]
      /\ counted' = counted
  BY <1>1, <1>2, <1>3, ReadIs
<1>5. \/ /\ network' = None /\ UNCHANGED <<machine, events>>
         /\ snapshot' = [snapshot EXCEPT !.net = Unavailable, !.nics = <<>>,
                                         !.netstate = "unavailable"]
      \/ \E gone \in SUBSET Interfaces :
           /\ Cardinality(gone) <= events /\ events' = events - Cardinality(gone)
           /\ network' = Found(gone)
           /\ machine' = [machine EXCEPT !.present = @ \ gone]
           /\ snapshot' = [snapshot EXCEPT
                  !.net = RateAgainst(network, Found(gone)),
                  !.nics = [m \in Interfaces |-> NicRow(m, Found(gone))],
                  !.netstate = NetworkState]
  BY NetworkIs
<1>6. machine \in Machines /\ machine.present \subseteq Meters /\ events \in Nat
  BY <1>1, MachineNumbers DEF MachineOK
<1>7. /\ machine' \in Machines /\ machine'.count = machine.count /\ machine'.idle = machine.idle
      /\ machine'.hostname = machine.hostname /\ machine'.present \subseteq machine.present
      /\ Present("core")' = Present("core") /\ events' \in Nat /\ events' <= events
  <2>1. CASE UNCHANGED <<machine, events>>
    BY <1>6, <2>1 DEF Present
  <2>2. ASSUME NEW gone \in SUBSET Interfaces, Cardinality(gone) <= events,
               events' = events - Cardinality(gone),
               machine' = [machine EXCEPT !.present = @ \ gone]
        PROVE  /\ machine' \in Machines /\ machine'.count = machine.count
               /\ machine'.idle = machine.idle /\ machine'.hostname = machine.hostname
               /\ machine'.present \subseteq machine.present
               /\ Present("core")' = Present("core") /\ events' \in Nat /\ events' <= events
    <3>1. Cardinality(gone) \in Nat
      <4>1. IsFiniteSet(MetersOf("nic")) /\ gone \subseteq MetersOf("nic")
        BY <1>3, MetersAre, InterfacesAre
      <4> QED
        BY <4>1, FS_Subset, FS_CardinalityType
    <3>2. events' \in Nat /\ events' <= events
      BY <1>6, <2>2, <3>1
    <3>3. /\ machine' \in Machines /\ machine'.count = machine.count
          /\ machine'.idle = machine.idle /\ machine'.hostname = machine.hostname
          /\ machine'.present = machine.present \ gone
      BY <1>6, <2>2 DEF Machines
    <3>4. \A m \in MetersOf("core") : m \notin gone
      BY <1>3, MetersAre, InterfacesAre
    <3>5. Present("core")' = Present("core")
      BY <3>3, <3>4 DEF Present
    <3> QED
      BY <3>2, <3>3, <3>5
  <2> QED
    BY <1>5, <2>1, <2>2
<1>8. MachineOK'
  BY <1>1, <1>2, <1>4, <1>7, SamplerLimits DEF MachineOK
<1>9. SnapshotOK'
  <2>1. CASE snapshot' = [snapshot EXCEPT !.net = Unavailable, !.nics = <<>>,
                                          !.netstate = "unavailable"]
    BY <1>1, <1>2, <2>1, TextsAre DEF SnapshotOK
  <2>2. ASSUME NEW gone \in SUBSET Interfaces,
               snapshot' = [snapshot EXCEPT
                  !.net = RateAgainst(network, Found(gone)),
                  !.nics = [m \in Interfaces |-> NicRow(m, Found(gone))],
                  !.netstate = NetworkState]
        PROVE  SnapshotOK'
    <3> DEFINE rate == RateAgainst(network, Found(gone))
               rows == [m \in Interfaces |-> NicRow(m, Found(gone))]
    <3>1. \A m \in DOMAIN Found(gone) : Found(gone)[m] \in Nat
      BY <1>1, FoundIs
    <3>2. rate \in Texts
      BY <1>1, <1>3, <3>1, RateType DEF ReadingsOK, ReadingOf
    <3>3. snapshot' = [snapshot EXCEPT !.net = rate, !.nics = rows, !.netstate = NetworkState]
      BY <2>2
    <3> HIDE DEF rate, rows
    <3> QED
      BY <1>1, <1>2, <3>2, <3>3 DEF SnapshotOK
  <2> QED
    BY <1>5, <2>1, <2>2
<1>10. CpuOK'
  BY <1>1, <1>2, <1>4, <1>7, CpuStays
<1>11. ReadingsOK'
  <2>1. ASSUME NEW gone \in SUBSET Interfaces, network' = Found(gone),
               machine' = [machine EXCEPT !.present = @ \ gone]
        PROVE  ReadingOf(network, "nic")'
    <3>1. machine'.present = machine.present \ gone
      BY <1>6, <2>1 DEF Machines
    <3>2. ASSUME NEW m \in Interfaces
          PROVE  /\ Found(gone)[m] \in Nat
                 /\ m \in machine'.present =>
                      machine'.count[m] <= Found(gone)[m] + real'[m]
      <4>1. /\ Found(gone)[m] \in Nat
            /\ m \notin gone => Found(gone)[m] = machine.count[m]
        BY <1>1, FoundIs
      <4>2. real'[m] = 0
        BY <1>4, InterfacesAre
      <4> QED
        BY <1>7, <3>1, <4>1, <4>2
    <3>3. DOMAIN Found(gone) = Interfaces
      BY <1>1, FoundIs
    <3> QED
      BY <2>1, <3>2, <3>3, InterfacesAre DEF ReadingOf, Within
  <2>2. network' # None => ReadingOf(network, "nic")'
    BY <1>5, <2>1
  <2>3. /\ process_cpu' # None => process_cpu'.total \in Nat /\ ReadingOf(process_cpu.ticks, "pid")'
        /\ disk' # None => ReadingOf(disk, "disk")'
    BY <1>1, <1>2, <1>3, <1>7, ReadingsStay
  <2> QED
    BY <2>2, <2>3 DEF ReadingsOK
<1>12. StaticOK'
  BY <1>1, <1>2, <1>7, StaticStays
<1>13. AlertsOK'
  BY <1>1, <1>2, AlertsStay
<1>14. CoresOK'
  BY <1>1, <1>2, <1>4, <1>7, CoresStay
<1> QED
  BY <1>8, <1>9, <1>10, <1>11, <1>12, <1>13, <1>14 DEF SInv

\* The state files are read.
LEMMA BootKeeps ==
  ASSUME SInv, BootStates, UNCHANGED moving
  PROVE  SInv'
<1>1. /\ MachineOK /\ SnapshotOK /\ CpuOK /\ CoresOK /\ ReadingsOK /\ StaticOK /\ AlertsOK
  BY DEF SInv
<1>2. /\ pc' = "alerts"
      /\ UNCHANGED <<baselines, static_sample, alerts, machine, log, real, counted,
                     renamed, events>>
  BY DEF BootStates
<1>3. MachineOK'
  BY <1>1, <1>2 DEF MachineOK, Present
<1>4. SnapshotOK'
  BY <1>1, <1>2 DEF SnapshotOK, BootStates
<1>5. CpuOK' /\ CoresOK' /\ ReadingsOK'
  BY <1>1, <1>2 DEF CpuOK, CoresOK, ReadingsOK, ReadingOf, baselines
<1>6. StaticOK'
  BY <1>1, <1>2, StaticStays
<1>7. AlertsOK'
  BY <1>1, <1>2, AlertsStay
<1> QED
  BY <1>3, <1>4, <1>5, <1>6, <1>7 DEF SInv

\* What was read is shown.
LEMMA ShowKeeps ==
  ASSUME SInv, Show, UNCHANGED moving
  PROVE  SInv'
<1>1. /\ MachineOK /\ SnapshotOK /\ CpuOK /\ CoresOK /\ ReadingsOK /\ StaticOK /\ AlertsOK
  BY DEF SInv
<1>2. /\ pc' = "static"
      /\ UNCHANGED <<baselines, static_sample, alerts, machine, log, real, counted,
                     renamed, events>>
  BY DEF Show
<1>3. MachineOK'
  BY <1>1, <1>2 DEF MachineOK, Present
<1>4. SnapshotOK'
  <2> DEFINE complete == [snapshot EXCEPT !.kernel = AlertState]
  <2>1. snapshot' = [complete EXCEPT !.health = HealthState(complete)]
    BY DEF Show
  <2>2. HealthState(complete) \in {"critical", "warning", "unavailable", "ok"}
    <3> HIDE DEF complete
    <3> QED
      BY DEF HealthState
  <2>3. /\ DOMAIN complete = DOMAIN snapshot /\ complete.cpu = snapshot.cpu
        /\ complete.top = snapshot.top /\ complete.disk = snapshot.disk
        /\ complete.net = snapshot.net
    BY <1>1 DEF SnapshotOK
  <2> HIDE DEF complete
  <2> QED
    BY <1>1, <1>2, <2>1, <2>2, <2>3 DEF SnapshotOK
<1>5. CpuOK' /\ CoresOK' /\ ReadingsOK'
  BY <1>1, <1>2 DEF CpuOK, CoresOK, ReadingsOK, ReadingOf, baselines
<1>6. StaticOK'
  BY <1>1, <1>2, StaticStays
<1>7. AlertsOK'
  BY <1>1, <1>2, AlertsStay
<1> QED
  BY <1>3, <1>4, <1>5, <1>6, <1>7 DEF SInv

\* The last alerts of a part of the log are few, and in the log.
LEMMA LatestAre ==
  ASSUME NEW records, NEW first \in Nat \ {0}, NEW last \in Nat, NEW limit \in Nat,
         NEW size \in Nat, last <= size
  PROVE  LET s == LastOf(AlertsIn(records, first, last), limit)
         IN  s \in Seq(Nat) /\ Len(s) <= limit /\ \A i \in 1 .. Len(s) : s[i] \in 1 .. size
<1> DEFINE a == AlertsIn(records, first, last)
           s == LastOf(a, limit)
           skip == saturating_sub(Len(a), limit)
<1>1. a \in Seq(Nat) /\ \A i \in 1 .. Len(a) : a[i] \in first .. last
  BY AlertsType
<1> HIDE DEF a
<1>2. /\ s \in Seq(Nat) /\ Len(s) = Len(a) - skip
      /\ \A i \in 1 .. Len(s) : s[i] = a[i + skip]
  BY <1>1, LastOfIs
<1>3. Len(a) \in Nat /\ skip \in Nat /\ skip <= Len(a) /\ Len(a) - skip <= limit
  BY <1>1 DEF saturating_sub
<1> HIDE DEF s, skip
<1>4. Len(s) <= limit
  BY <1>2, <1>3
<1>5. ASSUME NEW i \in 1 .. Len(s) PROVE s[i] \in 1 .. size
  <2>1. i + skip \in 1 .. Len(a)
    BY <1>2, <1>3
  <2>2. s[i] \in first .. last
    BY <1>1, <1>2, <2>1
  <2> QED
    BY <2>2
<1> QED
  BY <1>2, <1>4, <1>5 DEF s, a

\* The records since the last reading are read: with what was kept, the last
\* alerts of all that was read.
LEMMA AlertsKeep ==
  ASSUME SInv, SampleKernelAlerts, UNCHANGED moving
  PROVE  SInv'
<1> DEFINE at == IF kmsg = None THEN Oldest ELSE kmsg
           failed == ~Readable("kmsg") \/ at < Oldest
           last == Min({Len(log), at + ReadLimit - 1})
           start == IF kmsg = None THEN Oldest ELSE opened
           news == AlertsIn(log, at, last)
           all == AlertsIn(log, start, last)
<1>1. /\ MachineOK /\ SnapshotOK /\ CpuOK /\ CoresOK /\ ReadingsOK /\ StaticOK /\ AlertsOK
  BY DEF SInv
<1>2. /\ pc' = "show"
      /\ UNCHANGED <<baselines, static_sample, snapshot, machine, log, real, counted,
                     renamed, events>>
  BY DEF SampleKernelAlerts, KernelAlerts
<1>3. \/ kmsg' = None /\ kernel_alerts' = <<>>
      \/ kmsg' = last + 1 /\ opened' = start /\ kernel_alerts' = LastOf(kernel_alerts \o news, AlertLimit)
  BY DEF SampleKernelAlerts, KernelAlerts
<1>4. /\ Len(log) \in Nat /\ AlertLimit \in Nat \ {0}
      /\ ReadLimit \in Nat \ {0} /\ RingSize \in Nat \ {0}
  BY <1>1, SamplerLimits DEF MachineOK
<1>5. Oldest \in Nat \ {0} /\ Oldest <= Len(log) + 1
  BY <1>4 DEF Oldest
<1>6. kmsg # None =>
        /\ kmsg \in 1 .. (Len(log) + 1) /\ opened \in Nat \ {0} /\ opened <= kmsg
        /\ kernel_alerts = LastOf(AlertsIn(log, opened, kmsg - 1), AlertLimit)
  BY <1>1 DEF AlertsOK
<1>7. /\ at \in Nat \ {0} /\ at <= Len(log) + 1
      /\ start \in Nat \ {0} /\ start <= at
  BY <1>4, <1>5, <1>6
<1>8. last \in Nat /\ last <= Len(log) /\ at <= last + 1
  <2> DEFINE x == Len(log)
             y == at + ReadLimit - 1
             m == Min({x, y})
  <2>1. x \in Nat /\ y \in Nat
    BY <1>4, <1>7
  <2>2. m = CHOOSE k \in {x, y} : \A j \in {x, y} : k =< j
    BY DEF Min
  <2> HIDE DEF x, y, m
  <2>3. \E k \in {x, y} : \A j \in {x, y} : k =< j
    BY <2>1
  <2>4. m \in {x, y} /\ \A j \in {x, y} : m =< j
    BY <2>2, <2>3
  <2>5. m = last
    BY DEF m, x, y
  <2> QED
    BY <1>4, <1>7, <2>4, <2>5 DEF x, y
<1> HIDE DEF at, last
<1>9. LastOf(kernel_alerts \o news, AlertLimit) = LastOf(all, AlertLimit)
  <2>1. news \in Seq(Nat)
    BY <1>7, <1>8, AlertsType
  <2>2. CASE kmsg = None
    <3>1. kernel_alerts = <<>> /\ start = at
      BY <1>1, <2>2 DEF AlertsOK, at
    <3>2. kernel_alerts \o news = news
      <4> HIDE DEF news
      <4> QED
        BY <2>1, <3>1, ConcatEmptySeq
    <3> QED
      BY <3>1, <3>2
  <2>3. CASE kmsg # None
    <3> DEFINE mid == at - 1
               old == AlertsIn(log, start, mid)
    <3>1. mid \in Nat /\ start <= mid + 1 /\ mid <= last /\ mid + 1 = at
      BY <1>7, <1>8
    <3>2. kernel_alerts = LastOf(old, AlertLimit)
      BY <1>6, <2>3 DEF at
    <3> HIDE DEF mid, start
    <3>3. all = old \o news
      <4>0. /\ start \in Nat \ {0} /\ mid \in Nat /\ last \in Nat
            /\ start <= mid + 1 /\ mid <= last
        BY <1>7, <1>8, <3>1
      <4>1. AlertsIn(log, start, last) = AlertsIn(log, start, mid) \o AlertsIn(log, mid + 1, last)
        BY ONLY <4>0, AlertsJoin, ZenonT(30)
      <4> QED
        BY <3>1, <4>1
    <3>4. old \in Seq(Nat)
      BY <1>7, <3>1, AlertsType
    <3> HIDE DEF old, news, all
    <3>5. LastOf(LastOf(old, AlertLimit) \o news, AlertLimit) = LastOf(old \o news, AlertLimit)
      BY <1>4, <2>1, <3>4, LastOfJoin
    <3> QED
      BY <3>2, <3>3, <3>5
  <2> QED
    BY <2>2, <2>3
<1>10. /\ LastOf(all, AlertLimit) \in Seq(Nat) /\ Len(LastOf(all, AlertLimit)) <= AlertLimit
       /\ \A i \in 1 .. Len(LastOf(all, AlertLimit)) : LastOf(all, AlertLimit)[i] \in 1 .. Len(log)
  <2> HIDE DEF start
  <2> QED
    BY <1>4, <1>7, <1>8, LatestAre
<1> HIDE DEF start, news
<1>11. AlertsOK'
  <2>1. CASE kmsg' = None /\ kernel_alerts' = <<>>
    BY <1>4, <2>1 DEF AlertsOK
  <2>2. CASE kmsg' = last + 1 /\ opened' = start
             /\ kernel_alerts' = LastOf(kernel_alerts \o news, AlertLimit)
    <3>1. kernel_alerts' = LastOf(all, AlertLimit) /\ log' = log
      BY <1>2, <1>9, <2>2
    <3>2. kmsg' - 1 = last /\ kmsg' \in 1 .. (Len(log) + 1) /\ kmsg' # None
      BY <1>4, <1>8, <2>2, SomeCore
    <3>3. opened' \in Nat \ {0} /\ opened' <= kmsg'
      BY <1>7, <1>8, <2>2
    <3>4. kernel_alerts' = LastOf(AlertsIn(log', opened', kmsg' - 1), AlertLimit)
      BY <2>2, <3>1, <3>2
    <3> HIDE DEF all
    <3> QED
      BY <1>10, <3>1, <3>2, <3>3, <3>4 DEF AlertsOK
  <2> QED
    BY <1>3, <2>1, <2>2
<1>12. MachineOK'
  BY <1>1, <1>2 DEF MachineOK, Present
<1>13. SnapshotOK'
  BY <1>1, <1>2 DEF SnapshotOK
<1>14. CpuOK' /\ CoresOK' /\ ReadingsOK'
  BY <1>1, <1>2 DEF CpuOK, CoresOK, ReadingsOK, ReadingOf, baselines
<1>15. StaticOK'
  BY <1>1, <1>2, StaticStays
<1> QED
  BY <1>11, <1>12, <1>13, <1>14, <1>15 DEF SInv

-----------------------------------------------------------------------------
(* The theorems.                                                           *)

\* The invariant is inductive.
LEMMA StepKeeps ==
  ASSUME SInv, [Next]_vars
  PROVE  SInv'
<1>1. CASE Round /\ UNCHANGED moving
  BY <1>1, StaticKeeps, CpuKeeps, ProcessKeeps, DisksKeep, NetworkKeeps, BootKeeps, AlertsKeep,
     ShowKeeps DEF Round
<1>2. CASE Machine
  BY <1>2, MachineKeeps
<1>3. CASE UNCHANGED vars
  BY <1>3 DEF vars, baselines, alerts, SInv, MachineOK, SnapshotOK, CpuOK, CoresOK,
              ReadingsOK, ReadingOf, StaticOK, AlertsOK, Present
<1> QED
  BY <1>1, <1>2, <1>3 DEF Next

\* Every sample is true of what the meters have moved since it was taken, in
\* every behaviour.
THEOREM SamplerInvariant == Spec => []SInv
  BY StartsRight, StepKeeps, PTL DEF Spec

\* What the sampler holds has its types (sampler.rs).
THEOREM SamplerTypeCorrect == Spec => []TypeOK
<1>1. SInv => TypeOK
  <2> SUFFICES ASSUME SInv PROVE TypeOK
    OBVIOUS
  <2>1. /\ SnapshotOK /\ CpuOK /\ ReadingsOK /\ StaticOK /\ AlertsOK /\ MachineOK
    BY DEF SInv
  <2>2. /\ disk = None \/ DOMAIN disk \subseteq MetersOf("disk")
        /\ network = None \/ DOMAIN network \subseteq MetersOf("nic")
        /\ process_cpu = None \/ DOMAIN process_cpu.ticks \subseteq MetersOf("pid")
    BY <2>1 DEF ReadingsOK, ReadingOf, Within
  <2>3. /\ cpu = None \/ Len(cpu.cores) \in 1..Cardinality(Cores)
        /\ static_sample = None \/ static_sample.age \in 1..StaticAge
    BY <2>1 DEF CpuOK, StaticOK
  <2>4. /\ Len(kernel_alerts) <= AlertLimit
        /\ \A i \in DOMAIN kernel_alerts : kernel_alerts[i] \in DOMAIN log
        /\ kmsg = None \/ kmsg \in 1..(Len(log) + 1)
    <3>1. /\ kernel_alerts \in Seq(Nat) /\ Len(kernel_alerts) <= AlertLimit
          /\ \A i \in 1 .. Len(kernel_alerts) : kernel_alerts[i] \in 1 .. Len(log)
          /\ kmsg = None \/ kmsg \in 1 .. (Len(log) + 1)
      BY <2>1 DEF AlertsOK
    <3>2. log \in Seq(Priorities)
      BY <2>1 DEF MachineOK
    <3>3. DOMAIN kernel_alerts = 1 .. Len(kernel_alerts) /\ DOMAIN log = 1 .. Len(log)
      BY <3>1, <3>2
    <3> QED
      BY <3>1, <3>3
  <2>5. moving \in DOMAIN Budget /\ events \in 0..Budget[moving]
    BY <2>1, SamplerLimits DEF MachineOK
  <2> QED
    BY <2>1, <2>2, <2>3, <2>4, <2>5 DEF TypeOK, SnapshotOK
<1> QED
  BY <1>1, SamplerInvariant, PTL

\* The retained alerts are the latest of those that were read through the
\* open descriptor (sampler/state.rs).
THEOREM SamplerRetainedAreTheLatest == Spec => []RetainedAreTheLatest
<1>1. SInv => RetainedAreTheLatest
  BY DEF SInv, AlertsOK, RetainedAreTheLatest
<1> QED
  BY <1>1, SamplerInvariant, PTL

\* A host name that changed more than StaticAge rounds ago is on the screen
\* (sampler.rs).
THEOREM SamplerStaticIsRecent == Spec => []StaticIsRecent
<1>1. SInv => StaticIsRecent
  BY SamplerLimits DEF SInv, StaticOK, StaticIsRecent
<1> QED
  BY <1>1, SamplerInvariant, PTL

\* A difference of two samples of meters is no more than they really moved,
\* whatever left, arrived or was reset between them.
LEMMA DeltaBound ==
  ASSUME MachineOK, NEW kind \in Kinds, NEW previous, NEW current,
         Within(previous, kind, machine.present, machine.count, real),
         \A m \in DOMAIN current :
           m \in machine.present /\ current[m] \in Nat /\ current[m] <= machine.count[m]
  PROVE  /\ \A m \in DOMAIN previous \cap DOMAIN current :
              saturating_sub(current[m], previous[m]) <= real[m]
         /\ Delta(previous, current) <= Total(real, MetersOf(kind))
<1> DEFINE both == DOMAIN previous \cap DOMAIN current
           f == [m \in both |-> saturating_sub(current[m], previous[m])]
           meters == MetersOf(kind)
<1>1. IsFiniteSet(meters) /\ both \subseteq meters /\ IsFiniteSet(both)
  <2>1. IsFiniteSet(meters) /\ both \subseteq meters
    BY MetersAre DEF Within
  <2> QED
    BY <2>1, FS_Subset
<1>2. Numbers(real, meters) /\ Numbers(real, both)
  BY <1>1, MachineNumbers DEF Numbers
<1>3. ASSUME NEW m \in both PROVE f[m] \in Nat /\ f[m] <= real[m]
  <2>1. /\ previous[m] \in Nat /\ current[m] \in Nat /\ current[m] <= machine.count[m]
        /\ machine.count[m] <= previous[m] + real[m]
    BY DEF Within
  <2>2. real[m] \in Nat /\ machine.count[m] \in Nat
    BY MachineNumbers
  <2>3. f[m] = saturating_sub(current[m], previous[m])
    OBVIOUS
  <2> QED
    BY <2>1, <2>2, <2>3 DEF saturating_sub
<1>4. Numbers(f, both)
  BY <1>3 DEF Numbers
<1>5. Delta(previous, current) = Total(f, both)
  BY DEF Delta
<1>6. \A m \in both : saturating_sub(current[m], previous[m]) <= real[m]
  BY <1>3
<1> HIDE DEF f
<1>7. Total(f, both) <= Total(real, both)
  <2> HIDE DEF both
  <2> QED
    BY <1>1, <1>2, <1>3, <1>4, TotalBound
<1>8. Total(real, both) <= Total(real, meters)
  <2> HIDE DEF both, meters
  <2> QED
    BY <1>1, <1>2, TotalPart
<1>9. Total(f, both) \in Nat /\ Total(real, both) \in Nat /\ Total(real, meters) \in Nat
  <2> HIDE DEF both, meters
  <2> QED
    BY <1>1, <1>2, <1>4, TotalType
<1> QED
  BY <1>5, <1>6, <1>7, <1>8, <1>9

\* What is shown of the processors.
LEMMA CpuBound ==
  ASSUME SInv, CpuUsage, snapshot'.cpu.kind = "value"
  PROVE  snapshot'.cpu.n * SpanOf(cpu) <= 100 * Total(real, MetersOf("core"))
<1> DEFINE R == Total(real, MetersOf("core"))
           C == Total(machine.count, MetersOf("core"))
           span == Share(cpu, CpuTimes).total
           used == Share(cpu, CpuTimes).used
           a == used * 100
<1>1. MachineOK /\ SnapshotOK /\ CpuOK
  BY DEF SInv
<1>2. cpu # None /\ snapshot'.cpu = UsedSince(cpu, CpuTimes)
  <2> DEFINE shown == IF cpu = None THEN Measuring ELSE UsedSince(cpu, CpuTimes)
             rows == render_core_rows(IF cpu = None THEN <<>> ELSE cpu.cores, CpuTimes.cores)
  <2>1. CASE snapshot' = [snapshot EXCEPT !.cpu = Unavailable, !.cores = <<>>]
    BY <1>1, <2>1 DEF SnapshotOK, Unavailable
  <2>2. CASE snapshot' = [snapshot EXCEPT !.cpu = shown, !.cores = rows]
    <3> HIDE DEF shown, rows
    <3>1. snapshot'.cpu = shown
      BY <1>1, <2>2 DEF SnapshotOK
    <3> QED
      BY <3>1 DEF shown, Measuring
  <2> QED
    BY <2>1, <2>2 DEF CpuUsage
<1>3. R \in Nat
  BY <1>1, MetersAre, MachineNumbers, TotalType DEF Kinds
<1>4. /\ CpuTimes.idle \in Nat /\ CpuTimes.total = CpuTimes.idle + C
      /\ CpuTimes.total \in Nat /\ C \in Nat /\ CpuTimes.idle = Total(machine.idle, Cores)
  BY <1>1, CpuTimesAre
<1>5. /\ cpu.idle \in Nat /\ cpu.total \in Nat /\ cpu.idle <= cpu.total
      /\ cpu.idle <= CpuTimes.idle /\ C <= (cpu.total - cpu.idle) + R
  BY <1>1, <1>2, <1>4 DEF CpuOK
<1> HIDE DEF R, C
<1>6. /\ span = saturating_sub(CpuTimes.total, cpu.total)
      /\ used = saturating_sub(span, saturating_sub(CpuTimes.idle, cpu.idle))
  BY DEF Share
<1>7. span \in Nat /\ used \in Nat
  BY <1>4, <1>5, <1>6 DEF saturating_sub
<1>8. used <= R
  <2> DEFINE ni == CpuTimes.idle
             nt == CpuTimes.total
             pi == cpu.idle
             pt == cpu.total
  <2>1. /\ ni \in Nat /\ nt = ni + C /\ pi \in Nat /\ pt \in Nat /\ pi <= pt /\ pi <= ni
        /\ C <= (pt - pi) + R /\ C \in Nat /\ R \in Nat
        /\ used = saturating_sub(saturating_sub(nt, pt), saturating_sub(ni, pi))
    BY <1>3, <1>4, <1>5, <1>6
  <2> HIDE DEF ni, nt, pi, pt, used
  <2> QED
    BY <2>1 DEF saturating_sub
<1>9. SpanOf(cpu) = span
  BY <1>6 DEF SpanOf
<1>10. UsedSince(cpu, CpuTimes) = IF span = 0 THEN Unavailable ELSE Value(a \div span)
  BY DEF UsedSince, Percent
<1>11. span # 0 /\ snapshot'.cpu.n = a \div span
  <2>1. span # 0
    BY <1>2, <1>10 DEF Unavailable
  <2> HIDE DEF a, span
  <2> QED
    BY <1>2, <1>10, <2>1 DEF Value
<1> HIDE DEF span, used
<1>12. a \in Nat /\ a <= 100 * R
  BY <1>3, <1>7, <1>8
<1> HIDE DEF a
<1>13. a \div span \in Nat /\ (a \div span) * span <= a
  BY <1>7, <1>11, <1>12, Quotient
<1> DEFINE x == (a \div span) * span
<1>14. x \in Nat /\ x <= a /\ 100 * R \in Nat
  BY <1>3, <1>7, <1>13
<1>15. snapshot'.cpu.n * SpanOf(cpu) = x
  BY <1>9, <1>11
<1> HIDE DEF x
<1>16. x <= 100 * R
  BY <1>12, <1>14
<1> QED
  BY <1>15, <1>16 DEF R

\* What is shown of one processor while those that are up stay the same.
LEMMA CoreBound ==
  ASSUME SInv, CpuUsage, counted = Online,
         NEW i \in DOMAIN snapshot'.cores, snapshot'.cores[i].kind = "value"
  PROVE  snapshot'.cores[i].n * Share(cpu.cores[i], CpuTimes.cores[i]).total
           <= 100 * real[<<"core", CoreAt(Online, i)>>]
<1> DEFINE previous == IF cpu = None THEN <<>> ELSE cpu.cores
           rows == render_core_rows(previous, CpuTimes.cores)
           c == CoreAt(Online, i)
           m == <<"core", c>>
           old == cpu.cores[i]
           now == CpuTimes.cores[i]
           span == Share(old, now).total
           used == Share(old, now).used
           a == used * 100
<1>1. MachineOK /\ SnapshotOK /\ CoresOK
  BY DEF SInv
<1>2. snapshot'.cores = rows
  <2>1. CASE snapshot' = [snapshot EXCEPT !.cpu = Unavailable, !.cores = <<>>]
    <3>1. snapshot'.cores = <<>>
      BY <1>1, <2>1 DEF SnapshotOK
    <3> QED
      BY <3>1
  <2> DEFINE shown == IF cpu = None THEN Measuring ELSE UsedSince(cpu, CpuTimes)
  <2>2. CASE snapshot' = [snapshot EXCEPT !.cpu = shown, !.cores = rows]
    <3> HIDE DEF shown, rows
    <3> QED
      BY <1>1, <2>2 DEF SnapshotOK
  <2> QED
    BY <2>1, <2>2 DEF CpuUsage
<1>3. i \in DOMAIN CpuTimes.cores /\ snapshot'.cores[i] = CoreRow(previous, CpuTimes.cores, i)
  BY <1>2 DEF render_core_rows
<1>4. i \in 1 .. Cardinality(Online) /\ c \in Cores /\ now = CoreTimes(c)
  BY <1>1, <1>3, CpuTimesAre
<1>5. i \in DOMAIN previous /\ Share(previous[i], now).total > 0
      /\ snapshot'.cores[i] = Percent(Share(previous[i], now))
  BY <1>3 DEF CoreRow, Measuring
<1>6. cpu # None /\ previous[i] = old
  BY <1>5
<1>7. Ticked(old, c, machine.idle, machine.count, real)
  BY <1>1, <1>4, <1>6 DEF CoresOK
<1>8. snapshot'.cores[i].n = a \div span /\ span > 0
  <2>1. snapshot'.cores[i] = Value(a \div span)
    BY <1>5, <1>6 DEF Percent
  <2> HIDE DEF a, span
  <2> QED
    BY <1>5, <1>6, <2>1 DEF Value, span
<1>9. /\ machine.idle[c] \in Nat /\ machine.count[m] \in Nat /\ real[m] \in Nat
      /\ now.idle = machine.idle[c] /\ now.total = machine.idle[c] + machine.count[m]
  <2>1. m \in Meters
    BY <1>4, MetersAre DEF Kinds
  <2>2. machine.idle[c] \in Nat /\ machine.count[m] \in Nat /\ real[m] \in Nat
    BY <1>1, <1>4, <2>1, MachineNumbers
  <2>3. /\ CoreTimes(c).idle = machine.idle[c]
        /\ CoreTimes(c).total = machine.idle[c] + machine.count[m]
    BY DEF CoreTimes
  <2> QED
    BY <1>4, <2>2, <2>3
<1>10. /\ span = saturating_sub(now.total, old.total)
       /\ used = saturating_sub(span, saturating_sub(now.idle, old.idle))
  BY DEF Share
<1>11. span \in Nat /\ used \in Nat /\ used <= real[m]
  <2> DEFINE ni == now.idle
             nt == now.total
             pi == old.idle
             pt == old.total
             busy == machine.count[m]
             moved == real[m]
  <2>1. /\ ni \in Nat /\ nt = ni + busy /\ busy \in Nat /\ moved \in Nat
        /\ pi \in Nat /\ pt \in Nat /\ pi <= pt /\ pi <= ni /\ busy <= (pt - pi) + moved
        /\ span = saturating_sub(nt, pt) /\ used = saturating_sub(span, saturating_sub(ni, pi))
    BY <1>7, <1>9, <1>10 DEF Ticked
  <2> HIDE DEF ni, nt, pi, pt, busy, moved, span, used
  <2>2. span \in Nat /\ used \in Nat /\ used <= moved
    BY <2>1 DEF saturating_sub
  <2> QED
    BY <2>2 DEF moved
<1> HIDE DEF span, used
<1>12. a \in Nat /\ a <= 100 * real[m]
  BY <1>9, <1>11
<1> DEFINE bound == 100 * real[m]
           x == (a \div span) * span
<1>13. bound \in Nat /\ a \in Nat /\ a <= bound /\ span \in Nat \ {0}
  BY <1>8, <1>9, <1>11, <1>12
<1>14. snapshot'.cores[i].n * span = x
  BY <1>8
<1> HIDE DEF a, bound
<1>15. x \in Nat /\ x <= a
  BY <1>13, Quotient
<1> HIDE DEF x
<1>16. x <= bound
  BY <1>13, <1>15
<1> QED
  BY <1>14, <1>16 DEF bound, span

\* What is shown of the busiest process.
LEMMA TopBound ==
  ASSUME SInv, ProcessSummary, snapshot'.top.kind = "value"
  PROVE  \E p \in MetersOf("pid") :
           snapshot'.top.n * SpanOf(process_cpu) <= 100 * real[p]
<1> DEFINE ticks == [m \in Present("pid") |-> machine.count[m]]
           busy == TopProcess(process_cpu, CpuTimes.total, ticks)
           top == IF process_cpu = None THEN Measuring ELSE busy
           shown == IF top_process_required(snapshot.cpu, top) THEN top ELSE Measuring
<1>1. MachineOK /\ SnapshotOK /\ ReadingsOK
  BY DEF SInv
<1>2. process_cpu # None /\ snapshot'.top = busy
  <2>1. \/ snapshot' = [snapshot EXCEPT !.top = shown]
        \/ snapshot' = [snapshot EXCEPT !.top = Unavailable]
    BY DEF ProcessSummary
  <2> HIDE DEF busy
  <2>2. shown = Measuring \/ (process_cpu # None /\ shown = busy)
    OBVIOUS
  <2> HIDE DEF shown
  <2>3. snapshot'.top = shown \/ snapshot'.top = Unavailable
    BY <1>1, <2>1 DEF SnapshotOK
  <2> QED
    BY <2>2, <2>3 DEF Measuring, Unavailable
<1>3. /\ process_cpu.total \in Nat /\ DOMAIN process_cpu.ticks \subseteq MetersOf("pid")
      /\ \A p \in DOMAIN process_cpu.ticks : process_cpu.ticks[p] \in Nat
      /\ Within(process_cpu.ticks, "pid", machine.present, machine.count, real)
  BY <1>1, <1>2 DEF ReadingsOK, ReadingOf, Within
<1>4. /\ DOMAIN ticks = Present("pid") /\ Present("pid") \subseteq machine.present
      /\ \A m \in DOMAIN ticks : ticks[m] \in Nat /\ ticks[m] = machine.count[m]
  BY <1>1, MachineNumbers DEF Present
<1>5. CpuTimes.total \in Nat
  BY <1>1, CpuTimesAre
<1> DEFINE span == saturating_sub(CpuTimes.total, process_cpu.total)
<1> HIDE DEF ticks
<1>6. PICK p \in DOMAIN process_cpu.ticks \cap DOMAIN ticks :
         busy.n * span <= saturating_sub(ticks[p], process_cpu.ticks[p]) * 100
  BY <1>1, <1>2, <1>3, <1>4, <1>5, TopProcessIs
<1>7. /\ saturating_sub(ticks[p], process_cpu.ticks[p]) \in Nat
      /\ saturating_sub(ticks[p], process_cpu.ticks[p]) <= real[p] /\ real[p] \in Nat
  <2>1. /\ ticks[p] \in Nat /\ process_cpu.ticks[p] \in Nat /\ p \in machine.present
        /\ ticks[p] = machine.count[p] /\ real[p] \in Nat
        /\ machine.count[p] <= process_cpu.ticks[p] + real[p]
    BY <1>1, <1>3, <1>4, MachineNumbers DEF Within
  <2> QED
    BY <2>1 DEF saturating_sub
<1>8. busy \in Texts /\ span \in Nat
  <2>1. busy \in Texts
    BY <1>1, <1>3, <1>4, <1>5, TopProcessIs
  <2> QED
    BY <1>3, <1>5, <2>1 DEF saturating_sub
<1> DEFINE x == busy.n * span
           y == saturating_sub(ticks[p], process_cpu.ticks[p])
<1>9. x \in Nat
  <2>1. busy.n \in Nat
    BY <1>8 DEF Texts
  <2> HIDE DEF busy, span
  <2> QED
    BY <1>8, <2>1
<1>10. x <= y * 100 /\ y \in Nat /\ y <= real[p] /\ real[p] \in Nat
  BY <1>6, <1>7
<1>11. snapshot'.top.n * SpanOf(process_cpu) = x
  BY <1>2 DEF SpanOf
<1> HIDE DEF x, y
<1>12. x <= 100 * real[p]
  BY <1>9, <1>10
<1>13. p \in MetersOf("pid")
  BY <1>3
<1> QED
  BY <1>11, <1>12, <1>13

\* What is shown of the disks.
LEMMA DiskBound ==
  ASSUME SInv, ReadDisks, snapshot'.disk.kind = "value"
  PROVE  snapshot'.disk.n <= Total(real, MetersOf("disk"))
<1>1. MachineOK /\ SnapshotOK /\ ReadingsOK
  BY DEF SInv
<1> DEFINE rate == RateAgainst(disk, DiskCounters)
<1>2. snapshot'.disk = rate \/ snapshot'.disk = Unavailable
  <2>1. \/ snapshot' = [snapshot EXCEPT !.disk = rate]
        \/ snapshot' = [snapshot EXCEPT !.disk = Unavailable]
    BY DEF ReadDisks, DiskRates
  <2> HIDE DEF rate
  <2> QED
    BY <1>1, <2>1 DEF SnapshotOK
<1>3. disk # None /\ snapshot'.disk.n = Delta(disk, DiskCounters)
  BY <1>2 DEF RateAgainst, Measuring, Unavailable, Value
<1>4. \A m \in DOMAIN DiskCounters :
        /\ m \in machine.present /\ DiskCounters[m] \in Nat
        /\ DiskCounters[m] <= machine.count[m]
  <2>1. \A m \in Present("disk") : m \in machine.present /\ machine.count[m] \in Nat
    BY <1>1, MachineNumbers DEF Present
  <2> QED
    BY <2>1 DEF DiskCounters
<1>5. Within(disk, "disk", machine.present, machine.count, real)
  BY <1>1, <1>3 DEF ReadingsOK, ReadingOf
<1>6. "disk" \in Kinds
  BY DEF Kinds
<1> QED
  BY <1>1, <1>3, <1>4, <1>5, <1>6, DeltaBound

\* What is shown of the interfaces, of all and of each.
LEMMA NetworkBound ==
  ASSUME SInv, ReadNetwork
  PROVE  /\ snapshot'.net.kind = "value" => snapshot'.net.n <= Total(real, MetersOf("nic"))
         /\ \A m \in DOMAIN snapshot'.nics : snapshot'.nics[m].n <= real[m]
<1>1. MachineOK /\ SnapshotOK /\ ReadingsOK
  BY DEF SInv
<1>2. CASE snapshot' = [snapshot EXCEPT !.net = Unavailable, !.nics = <<>>,
                                        !.netstate = "unavailable"]
  <2>2. snapshot'.net = Unavailable /\ snapshot'.nics = <<>>
    BY <1>1, <1>2 DEF SnapshotOK
  <2> QED
    BY <2>2 DEF Unavailable
<1>3. ASSUME NEW gone \in SUBSET Interfaces,
             snapshot' = [snapshot EXCEPT
                  !.net = RateAgainst(network, Found(gone)),
                  !.nics = [m \in Interfaces |-> NicRow(m, Found(gone))],
                  !.netstate = NetworkState]
      PROVE  /\ snapshot'.net.kind = "value" => snapshot'.net.n <= Total(real, MetersOf("nic"))
             /\ \A m \in DOMAIN snapshot'.nics : snapshot'.nics[m].n <= real[m]
  <2> DEFINE rate == RateAgainst(network, Found(gone))
             rows == [m \in Interfaces |-> NicRow(m, Found(gone))]
  <2>2. snapshot'.net = rate /\ snapshot'.nics = rows
    <3>1. snapshot' = [snapshot EXCEPT !.net = rate, !.nics = rows, !.netstate = NetworkState]
      BY <1>3
    <3> HIDE DEF rate, rows
    <3> QED
      BY <1>1, <3>1 DEF SnapshotOK
  <2>3. /\ DOMAIN Found(gone) = Interfaces
        /\ \A m \in DOMAIN Found(gone) :
             /\ m \in machine.present /\ Found(gone)[m] \in Nat
             /\ Found(gone)[m] <= machine.count[m]
    BY <1>1, FoundIs, InterfacesAre
  <2>4. network # None => Within(network, "nic", machine.present, machine.count, real)
    BY <1>1 DEF ReadingsOK, ReadingOf
  <2>5. network # None =>
          /\ \A m \in DOMAIN network \cap DOMAIN Found(gone) :
               saturating_sub(Found(gone)[m], network[m]) <= real[m]
          /\ Delta(network, Found(gone)) <= Total(real, MetersOf("nic"))
    <3>1. "nic" \in Kinds
      BY DEF Kinds
    <3> QED
      BY <1>1, <2>3, <2>4, <3>1, DeltaBound
  <2>6. rate.kind = "value" => rate.n <= Total(real, MetersOf("nic"))
    BY <2>5 DEF RateAgainst, Measuring, Value
  <2>7. ASSUME NEW m \in Interfaces PROVE rows[m].n <= real[m]
    <3>1. real[m] \in Nat
      BY <1>1, MachineNumbers, InterfacesAre
    <3>2. rows[m] = NicRow(m, Found(gone))
      OBVIOUS
    <3>3. CASE network = None \/ m \notin DOMAIN network
      BY <3>1, <3>2, <3>3 DEF NicRow, Measuring
    <3>4. CASE network # None /\ m \in DOMAIN network
      <4>1. NicRow(m, Found(gone)) = Value(saturating_sub(Found(gone)[m], network[m]))
        BY <3>4 DEF NicRow
      <4>2. saturating_sub(Found(gone)[m], network[m]) <= real[m]
        BY <2>3, <2>5, <3>4
      <4> QED
        BY <3>2, <4>1, <4>2 DEF Value
    <3> QED
      BY <3>3, <3>4
  <2>8. DOMAIN rows = Interfaces
    OBVIOUS
  <2> HIDE DEF rate, rows
  <2> QED
    BY <2>2, <2>6, <2>7, <2>8
<1> QED
  BY <1>2, <1>3, NetworkIs

\* The rates and the shares of all processors, of the busiest process and of
\* each interface are never more than what the meters really moved since they
\* were read before; the share of one processor is not while the same ones are
\* up (sampler/system.rs, storage.rs, network.rs).
THEOREM SamplerRatesNeverOverstate == Spec => RatesNeverOverstate
<1>1. SInv /\ [Next]_vars =>
        [/\ pc = "cpu" /\ pc' # pc /\ snapshot'.cpu.kind = "value" =>
              snapshot'.cpu.n * SpanOf(cpu) <= 100 * Total(real, MetersOf("core"))
         /\ pc = "cpu" /\ pc' # pc /\ counted = Online =>
              \A i \in DOMAIN snapshot'.cores : snapshot'.cores[i].kind = "value" =>
                  snapshot'.cores[i].n * Share(cpu.cores[i], CpuTimes.cores[i]).total
                      <= 100 * real[<<"core", CoreAt(Online, i)>>]
         /\ pc = "process" /\ pc' # pc /\ snapshot'.top.kind = "value" =>
              \E p \in MetersOf("pid") :
                  snapshot'.top.n * SpanOf(process_cpu) <= 100 * real[p]
         /\ pc = "disks" /\ pc' # pc /\ snapshot'.disk.kind = "value" =>
              snapshot'.disk.n <= Total(real, MetersOf("disk"))
         /\ pc = "network" /\ pc' # pc =>
              /\ snapshot'.net.kind = "value" => snapshot'.net.n <= Total(real, MetersOf("nic"))
              /\ \A m \in DOMAIN snapshot'.nics : snapshot'.nics[m].n <= real[m]]_vars
  <2> SUFFICES ASSUME SInv, Next
               PROVE  /\ pc = "cpu" /\ pc' # pc => CpuUsage
                      /\ pc = "process" /\ pc' # pc => ProcessSummary
                      /\ pc = "disks" /\ pc' # pc => ReadDisks
                      /\ pc = "network" /\ pc' # pc => ReadNetwork
    BY CpuBound, CoreBound, TopBound, DiskBound, NetworkBound
  <2>1. CASE Machine
    BY <2>1, MachineMoves DEF SInv, Moved
  <2>2. CASE Round
    <3>1. /\ StaticSample => pc = "static"
          /\ CpuUsage => pc = "cpu"
          /\ ProcessSummary => pc = "process"
          /\ ReadDisks => pc = "disks"
          /\ ReadNetwork => pc = "network"
          /\ BootStates => pc = "boot"
          /\ SampleKernelAlerts => pc = "alerts"
          /\ Show => pc = "show"
      BY DEF StaticSample, StaticRead, CpuUsage, ProcessSummary, ReadDisks, DiskRates,
             ReadNetwork, NetworkRates, BootStates, SampleKernelAlerts, KernelAlerts, Show
    <3> QED
      BY <2>2, <3>1 DEF Round
  <2> QED
    BY <2>1, <2>2 DEF Next
<1> QED
  BY <1>1, SamplerInvariant, PTL DEF Spec, RatesNeverOverstate

==============================================================================
