----------------------------- MODULE SeriesProofs -----------------------------
(****************************************************************************)
(* What the helpers of Series make of any rows, and the facts about sets of   *)
(* naturals they rest on: for the proofs about History and about Charts.     *)
(****************************************************************************)
EXTENDS Series, FiniteSetTheorems, SequenceTheorems, WellFoundedInduction, TLAPS

-----------------------------------------------------------------------------
(* Sets of naturals and of indices.                                         *)

(* A set of naturals that is not empty has a least element.                 *)
LEMMA LeastOf ==
  ASSUME NEW S \in SUBSET Nat, S # {}
  PROVE  Min(S) \in S /\ \A m \in S : Min(S) <= m
<1>1. PICK n \in S : \A m \in S : ~ (<<m, n>> \in OpToRel(<, Nat))
  BY NatLessThanWellFounded, WFMin
<1>2. \A m \in S : m \in Nat /\ n \in Nat /\ ~ (m < n)
  BY <1>1 DEF OpToRel
<1>3. \A m \in S : n <= m
  BY <1>2
<1> QED
  BY <1>3 DEF Min

(* Induction over the naturals, of a set of them.                           *)
LEMMA Climbs ==
  ASSUME NEW P, 0 \in P, \A k \in Nat : k \in P => k + 1 \in P
  PROVE  \A k \in Nat : k \in P
<1> DEFINE out == {k \in Nat : k \notin P}
<1>1. ASSUME out # {} PROVE FALSE
  <2>1. out \in SUBSET Nat
    OBVIOUS
  <2>2. Min(out) \in out /\ \A m \in out : Min(out) <= m
    <3> HIDE DEF out
    <3> QED
      BY <1>1, <2>1, LeastOf
  <2>3. Min(out) - 1 \in Nat /\ (Min(out) - 1) + 1 = Min(out)
    BY <2>2
  <2>4. Min(out) - 1 \notin out
    <3> HIDE DEF out
    <3> QED
      BY <2>2, <2>3
  <2> QED
    BY <2>2, <2>3, <2>4
<1> QED
  BY <1>1

(* A sweep that takes a state of S to a state of S at each step has a state     *)
(* after every step.                                                         *)
SweepOf(f, S, g, a, m) ==
  f \in [0 .. m -> S] /\ f[0] = a /\ \A k \in 1 .. m : f[k] = g[<<f[k - 1], k>>]

LEMMA SweepExists ==
  ASSUME NEW S, NEW g \in [S \X Nat -> S], NEW a \in S, NEW m \in Nat
  PROVE  \E f : SweepOf(f, S, g, a, m)
<1> DEFINE Swept(f, k) == f[0] = a /\ \A i \in 1 .. k : f[i] = g[<<f[i - 1], i>>]
           P == {k \in Nat : \E f \in [0 .. k -> S] : Swept(f, k)}
<1>1. 0 \in P
  <2> DEFINE f == [k \in 0 .. 0 |-> a]
  <2>1. f \in [0 .. 0 -> S] /\ Swept(f, 0)
    OBVIOUS
  <2> QED
    BY <2>1
<1>2. ASSUME NEW k \in Nat, k \in P PROVE k + 1 \in P
  <2>1. PICK f \in [0 .. k -> S] : Swept(f, k)
    BY <1>2
  <2> DEFINE h == [i \in 0 .. (k + 1) |-> IF i <= k THEN f[i] ELSE g[<<f[k], k + 1>>]]
  <2>2. f[k] \in S /\ g[<<f[k], k + 1>>] \in S
    OBVIOUS
  <2>3. h \in [0 .. (k + 1) -> S]
    BY <2>2
  <2>4. /\ h[0] = a /\ \A i \in 0 .. k : h[i] = f[i]
        /\ h[k + 1] = g[<<f[k], k + 1>>]
    BY <2>1
  <2>5. ASSUME NEW i \in 1 .. (k + 1) PROVE h[i] = g[<<h[i - 1], i>>]
    <3>1. CASE i = k + 1
      <4>1. i - 1 = k /\ i - 1 \in 0 .. k
        BY <3>1
      <4> HIDE DEF h
      <4> QED
        BY <2>4, <3>1, <4>1
    <3>2. CASE i # k + 1
      <4>1. i \in 1 .. k /\ i \in 0 .. k /\ i - 1 \in 0 .. k
        BY <2>5, <3>2
      <4> HIDE DEF h
      <4> QED
        BY <2>1, <2>4, <4>1
    <3> QED
      BY <3>1, <3>2
  <2> HIDE DEF h
  <2> QED
    BY <2>3, <2>4, <2>5
<1>3. m \in P
  <2> HIDE DEF P
  <2> QED
    BY <1>1, <1>2, Climbs
<1> QED
  BY <1>3 DEF SweepOf

(* The greater of two integers.                                             *)
LEMMA MaxOf ==
  ASSUME NEW a \in Int, NEW b \in Int
  PROVE  /\ Max({a, b}) \in {a, b}
         /\ a <= Max({a, b}) /\ b <= Max({a, b})
<1>1. \E x \in {a, b} : \A y \in {a, b} : x >= y
  <2>1. CASE a >= b
    BY <2>1
  <2>2. CASE b >= a
    BY <2>2
  <2> QED
    BY <2>1, <2>2
<1>2. Max({a, b}) \in {a, b} /\ \A y \in {a, b} : Max({a, b}) >= y
  BY <1>1 DEF Max
<1> QED
  BY <1>2

(* The elements of a set that a relation puts before one.                   *)
Before(S, R, x) == {y \in S : <<y, x>> \in R}

(* In a finite set under a total order the elements have every rank from 0.  *)
LEMMA RanksFill ==
  ASSUME NEW S, IsFiniteSet(S), NEW R,
         \A x, y \in S : x = y \/ <<x, y>> \in R \/ <<y, x>> \in R,
         \A x \in S : <<x, x>> \notin R,
         \A x, y, z \in S : <<x, y>> \in R /\ <<y, z>> \in R => <<x, z>> \in R,
         NEW k \in Nat, k < Cardinality(S)
  PROVE  \E x \in S : Cardinality(Before(S, R, x)) = k
<1> DEFINE below(x) == {y \in S : <<y, x>> \in R}
           f == [x \in S |-> Cardinality(below(x))]
           T == 0 .. (Cardinality(S) - 1)
<1>1. Cardinality(S) \in Nat
  BY FS_CardinalityType
<1>2. \A x \in S : f[x] \in T
  <2>1. TAKE x \in S
  <2>2. IsFiniteSet(below(x)) /\ Cardinality(below(x)) <= Cardinality(S)
        /\ Cardinality(below(x)) # Cardinality(S)
    BY <2>1, FS_Subset
  <2>3. Cardinality(below(x)) \in Nat
    BY <2>2, FS_CardinalityType
  <2> QED
    BY <1>1, <2>2, <2>3
<1>3. ASSUME NEW x \in S, NEW y \in S, <<x, y>> \in R PROVE f[x] # f[y]
  <2>1. below(x) \subseteq below(y) /\ x \in below(y) /\ x \notin below(x)
    BY <1>3
  <2>2. IsFiniteSet(below(y))
    BY FS_Subset
  <2> HIDE DEF below
  <2>3. Cardinality(below(x)) # Cardinality(below(y))
    BY <2>1, <2>2, FS_Subset
  <2> QED
    BY <2>3
<1>4. f \in Injection(S, T)
  <2>1. f \in [S -> T]
    BY <1>2
  <2>2. \A x, y \in S : f[x] = f[y] => x = y
    BY <1>3
  <2> HIDE DEF f, T
  <2> QED
    BY <2>1, <2>2 DEF Injection, IsInjective
<1>5. IsFiniteSet(T) /\ Cardinality(T) = Cardinality(S)
  <2>1. 0 \in Int /\ Cardinality(S) - 1 \in Int /\ ~ (0 > Cardinality(S) - 1)
    BY <1>1
  <2>2. /\ IsFiniteSet(0 .. (Cardinality(S) - 1))
        /\ Cardinality(0 .. (Cardinality(S) - 1)) = (Cardinality(S) - 1) - 0 + 1
    BY <2>1, FS_Interval
  <2> QED
    BY <1>1, <2>2
<1>6. f \in Surjection(S, T)
  <2> HIDE DEF f, T
  <2> QED
    BY <1>4, <1>5, FS_Injection
<1>7. k \in T
  BY <1>1
<1>8. PICK x \in S : f[x] = k
  <2> HIDE DEF f, T
  <2> QED
    BY <1>6, <1>7 DEF Surjection
<1> QED
  BY <1>8 DEF Before

(* The k-th of a finite set of naturals is in it, and the ranks keep order.  *)
LEMMA NthIs ==
  ASSUME NEW S \in SUBSET Nat, IsFiniteSet(S)
  PROVE  /\ Cardinality(S) \in Nat
         /\ \A k \in 1 .. Cardinality(S) : nth(S, k) \in S
         /\ \A k, l \in 1 .. Cardinality(S) : k < l => nth(S, k) < nth(S, l)
<1> DEFINE R == {p \in S \X S : p[1] < p[2]}
<1>1. Cardinality(S) \in Nat
  BY FS_CardinalityType
<1>2. \A k \in 1 .. Cardinality(S) : \E i \in S : rank(S, i) = k - 1
  <2>1. TAKE k \in 1 .. Cardinality(S)
  <2>2. /\ \A x, y \in S : x = y \/ <<x, y>> \in R \/ <<y, x>> \in R
        /\ \A x \in S : <<x, x>> \notin R
        /\ \A x, y, z \in S : <<x, y>> \in R /\ <<y, z>> \in R => <<x, z>> \in R
    OBVIOUS
  <2> DEFINE m == k - 1
  <2>3. m \in Nat /\ m < Cardinality(S)
    BY <1>1
  <2>4. \A x \in S : Before(S, R, x) = {y \in S : y < x}
    BY DEF Before
  <2> HIDE DEF R, m
  <2>5. PICK i \in S : Cardinality(Before(S, R, i)) = m
    BY <2>2, <2>3, RanksFill
  <2> USE DEF m
  <2> QED
    BY <2>4, <2>5 DEF rank
<1>3. \A k \in 1 .. Cardinality(S) : nth(S, k) \in S /\ rank(S, nth(S, k)) = k - 1
  BY <1>2 DEF nth
<1>4. ASSUME NEW i \in S, NEW j \in S, i <= j PROVE rank(S, i) <= rank(S, j)
  <2>1. {y \in S : y < i} \subseteq {y \in S : y < j}
    <3>1. i \in Nat /\ j \in Nat /\ \A y \in S : y \in Nat
      OBVIOUS
    <3>2. \A y \in S : y < i => y < j
      BY <1>4, <3>1
    <3> QED
      BY <3>2
  <2>2. IsFiniteSet({y \in S : y < j})
    BY FS_Subset
  <2> QED
    BY <2>1, <2>2, FS_Subset DEF rank
<1>5. ASSUME NEW k \in 1 .. Cardinality(S), NEW l \in 1 .. Cardinality(S), k < l
      PROVE  nth(S, k) < nth(S, l)
  <2>1. nth(S, k) \in Nat /\ nth(S, l) \in Nat
    BY <1>3
  <2>2. ~ (nth(S, l) <= nth(S, k))
    <3>1. ~ (rank(S, nth(S, l)) <= rank(S, nth(S, k)))
      BY <1>1, <1>3, <1>5
    <3> QED
      BY <1>3, <1>4, <3>1
  <2> QED
    BY <2>1, <2>2
<1> QED
  BY <1>1, <1>3, <1>5

-----------------------------------------------------------------------------
(* What Series makes of rows.                                               *)
Strides(rows)   == {i \in 2 .. Len(rows) : Synced(rows, i - 1) /\ rows[i] > rows[i - 1]}
Stride(rows, i) == rows[i] - rows[i - 1]
Shorter(rows) ==
  {p \in Strides(rows) \X Strides(rows) :
     \/ Stride(rows, p[1]) < Stride(rows, p[2])
     \/ Stride(rows, p[1]) = Stride(rows, p[2]) /\ p[1] < p[2]}

(* The steps of a response are finitely many, fewer than its rows, and each   *)
(* of them is positive.                                                      *)
LEMMA StridesAre ==
  ASSUME NEW rows \in Seq(Nat)
  PROVE  /\ Len(rows) \in Nat /\ IsFiniteSet(Strides(rows)) /\ Cardinality(Strides(rows)) \in Nat
         /\ Strides(rows) \subseteq Nat
         /\ Cardinality(Strides(rows)) = 0 \/ Cardinality(Strides(rows)) < Len(rows)
         /\ \A i \in Strides(rows) : Stride(rows, i) \in Nat \ {0}
<1>1. Len(rows) \in Nat /\ \A i \in 1 .. Len(rows) : rows[i] \in Nat
  BY ElementOfSeq, LenProperties
<1>2. Strides(rows) \subseteq 2 .. Len(rows)
  BY DEF Strides
<1>3. /\ IsFiniteSet(2 .. Len(rows))
      /\ Cardinality(2 .. Len(rows)) = IF 2 > Len(rows) THEN 0 ELSE Len(rows) - 2 + 1
  <2>1. 2 \in Int /\ Len(rows) \in Int
    BY <1>1
  <2> QED
    BY <2>1, FS_Interval
<1>4. /\ IsFiniteSet(Strides(rows)) /\ Cardinality(Strides(rows)) \in Nat
      /\ Cardinality(Strides(rows)) <= Cardinality(2 .. Len(rows))
  BY <1>2, <1>3, FS_Subset, FS_CardinalityType
<1>5. Cardinality(Strides(rows)) = 0 \/ Cardinality(Strides(rows)) < Len(rows)
  BY <1>1, <1>3, <1>4
<1>6. ASSUME NEW i \in Strides(rows) PROVE Stride(rows, i) \in Nat \ {0}
  <2>1. i \in 1 .. Len(rows) /\ i - 1 \in 1 .. Len(rows) /\ rows[i] > rows[i - 1]
    BY <1>1 DEF Strides
  <2> QED
    BY <1>1, <2>1 DEF Stride
<1>7. Strides(rows) \subseteq Nat
  BY <1>1, <1>2
<1> QED
  BY <1>1, <1>4, <1>5, <1>6, <1>7

(* The median is the step half of the steps come before: a positive one, or   *)
(* the nominal step where there are none.                                    *)
LEMMA MedianIs ==
  ASSUME NEW rows \in Seq(Nat)
  PROVE  /\ medianStep(rows) \in Nat \ {0}
         /\ Strides(rows) # {} =>
              \E m \in Strides(rows) :
                /\ medianStep(rows) = Stride(rows, m)
                /\ Cardinality(Before(Strides(rows), Shorter(rows), m)) = Cardinality(Strides(rows)) \div 2
<1> DEFINE St   == Strides(rows)
           R    == Shorter(rows)
           half == Cardinality(St) \div 2
           sooner(i) == {j \in St : \/ Stride(rows, j) < Stride(rows, i)
                                   \/ (Stride(rows, j) = Stride(rows, i) /\ j < i)}
           mid  == CHOOSE i \in St : Cardinality(Before(St, R, i)) = half
<1>1. CASE St = {}
  BY <1>1 DEF medianStep, Strides
<1>2. CASE St # {}
  <2>1. /\ IsFiniteSet(St) /\ Cardinality(St) \in Nat /\ Cardinality(St) # 0
        /\ \A i \in St : i \in Nat /\ Stride(rows, i) \in Nat \ {0}
    BY <1>2, StridesAre, FS_EmptySet
  <2>2. half \in Nat /\ half < Cardinality(St)
    BY <2>1
  <2>3. /\ \A x, y \in St : x = y \/ <<x, y>> \in R \/ <<y, x>> \in R
        /\ \A x \in St : <<x, x>> \notin R
        /\ \A x, y, z \in St : <<x, y>> \in R /\ <<y, z>> \in R => <<x, z>> \in R
    <3> DEFINE d(i) == Stride(rows, i)
    <3>1. \A x, y \in St : <<x, y>> \in R <=> (d(x) < d(y) \/ (d(x) = d(y) /\ x < y))
      BY DEF Shorter
    <3>2. \A x \in St : x \in Nat /\ d(x) \in Nat
      BY <2>1
    <3> HIDE DEF d, R, St
    <3> QED
      BY <3>1, <3>2
  <2>4. mid \in St /\ Cardinality(Before(St, R, mid)) = half
    <3> HIDE DEF half, R, St
    <3>1. \E i \in St : Cardinality(Before(St, R, i)) = half
      BY <2>1, <2>2, <2>3, RanksFill, ZenonT(60)
    <3> QED
      BY <3>1
  <2>5. \A i \in St : Before(St, R, i) = sooner(i)
    BY DEF Before, Shorter
  <2>6. medianStep(rows) = Stride(rows, mid)
    <3>1. medianStep(rows) =
            Stride(rows, CHOOSE i \in St : Cardinality(sooner(i)) = half)
      BY <1>2 DEF medianStep, Strides, Stride
    <3> HIDE DEF half, R, St, sooner
    <3> QED
      BY <2>5, <3>1
  <2> QED
    BY <2>1, <2>4, <2>6
<1> QED
  BY <1>1, <1>2

(* Of any rows at most half of the steps are outages.                        *)
LEMMA FewGaps ==
  ASSUME NEW rows \in Seq(Nat)
  PROVE  2 * Cardinality(gap(rows)) < Max({1, Len(rows)})
<1> DEFINE St == Strides(rows)
           G  == gap(rows)
<1>1. /\ Len(rows) \in Nat /\ IsFiniteSet(St) /\ Cardinality(St) \in Nat
      /\ Cardinality(St) = 0 \/ Cardinality(St) < Len(rows)
      /\ \A i \in St : i \in Nat /\ Stride(rows, i) \in Nat \ {0}
  BY StridesAre
<1>2. Max({1, Len(rows)}) \in Nat /\ 1 <= Max({1, Len(rows)}) /\ Len(rows) <= Max({1, Len(rows)})
  <2>1. 1 \in Int /\ Len(rows) \in Int
    BY <1>1
  <2>2. /\ Max({1, Len(rows)}) \in {1, Len(rows)}
        /\ 1 <= Max({1, Len(rows)}) /\ Len(rows) <= Max({1, Len(rows)})
    BY <2>1, MaxOf
  <2> QED
    BY <1>1, <2>2
<1>3. medianStep(rows) \in Nat \ {0}
  BY MedianIs
<1>4. \A i \in G : i \in St /\ 2 * Stride(rows, i) > 3 * medianStep(rows)
  <2>1. TAKE i \in G
  <2>2. /\ i \in 2 .. Len(rows) /\ Synced(rows, i - 1)
        /\ 2 * (rows[i] - rows[i - 1]) > 3 * medianStep(rows)
    BY DEF gap
  <2>3. rows[i] \in Nat /\ rows[i - 1] \in Nat
    <3>1. i \in 1 .. Len(rows) /\ i - 1 \in 1 .. Len(rows)
      BY <1>1, <2>2
    <3> QED
      BY <3>1, ElementOfSeq
  <2>4. rows[i] > rows[i - 1]
    BY <1>3, <2>2, <2>3, SMTT(30)
  <2> QED
    BY <2>2, <2>4 DEF Strides, Stride
<1>5. CASE St = {}
  <2>1. G = {}
    BY <1>4, <1>5
  <2>2. Cardinality(G) = 0
    BY <2>1, FS_EmptySet
  <2> QED
    BY <1>2, <2>2
<1>6. CASE St # {}
  <2>1. PICK m \in St : /\ medianStep(rows) = Stride(rows, m)
                        /\ Cardinality(Before(St, Shorter(rows), m)) = Cardinality(St) \div 2
    BY <1>6, MedianIs
  <2> DEFINE B == Before(St, Shorter(rows), m)
             X == B \cup {m}
  <2>2. B \subseteq St /\ m \notin B
    <3>1. \A x \in B : x \in St /\ <<x, m>> \in Shorter(rows)
      BY DEF Before
    <3>2. <<m, m>> \notin Shorter(rows)
      BY <1>1 DEF Shorter
    <3> QED
      BY <3>1, <3>2
  <2>3. G \cap X = {}
    <3>1. ASSUME NEW i \in X PROVE Stride(rows, i) <= medianStep(rows)
      <4>1. CASE i = m
        BY <1>1, <2>1, <4>1
      <4>2. CASE i \in B
        <5>1. i \in St /\ <<i, m>> \in Shorter(rows)
          BY <4>2 DEF Before
        <5>2. Stride(rows, i) < Stride(rows, m) \/ Stride(rows, i) = Stride(rows, m)
          BY <5>1 DEF Shorter
        <5> QED
          BY <1>1, <2>1, <5>1, <5>2
      <4> QED
        BY <4>1, <4>2
    <3>2. ASSUME NEW i \in G, i \in X PROVE FALSE
      <4>1. /\ Stride(rows, i) \in Nat /\ 2 * Stride(rows, i) > 3 * medianStep(rows)
            /\ Stride(rows, i) <= medianStep(rows)
        BY <1>1, <1>4, <3>1, <3>2
      <4> QED
        BY <1>3, <4>1
    <3> HIDE DEF G, X
    <3> QED
      BY <3>2
  <2>4. IsFiniteSet(X) /\ Cardinality(X) = (Cardinality(St) \div 2) + 1
    <3>1. IsFiniteSet(B)
      BY <1>1, <2>2, FS_Subset
    <3> HIDE DEF B
    <3> QED
      BY <2>1, <2>2, <3>1, FS_AddElement DEF B
  <2>5. G \subseteq St \ X
    BY <1>4, <2>3
  <2>6. IsFiniteSet(St \ X) /\ Cardinality(St \ X) = Cardinality(St) - Cardinality(X)
    <3>1. St \cap X = X
      BY <2>1, <2>2
    <3>2. /\ IsFiniteSet(St \ X)
          /\ Cardinality(St \ X) = Cardinality(St) - Cardinality(St \cap X)
      <4> HIDE DEF X, St
      <4> QED
        BY <1>1, <2>4, FS_Difference
    <3> QED
      BY <3>1, <3>2
  <2>7. Cardinality(G) \in Nat /\ Cardinality(G) <= Cardinality(St \ X)
    <3> HIDE DEF G, X, St
    <3> QED
      BY <2>5, <2>6, FS_Subset, FS_CardinalityType
  <2>8. Cardinality(St) # 0
    BY <1>1, <1>6, FS_EmptySet
  <2>9. 2 * Cardinality(G) < Max({1, Len(rows)})
    <3> HIDE DEF G, X, St
    <3> QED
      BY <1>1, <1>2, <2>4, <2>6, <2>7, <2>8
  <2> QED
    BY <2>9
<1> QED
  BY <1>5, <1>6

(* A tail is the rows from some row on, in their order; by time, it keeps      *)
(* every stamp within the window and no other.                               *)
LEMMA TailIs ==
  ASSUME NEW rows \in Seq(Nat), Ordered(rows), NEW want \in Nat \ {0}
  PROVE  /\ tail(rows, want) \in Seq(Nat) /\ Ordered(tail(rows, want))
         /\ rows # << >> /\ Last(rows) > 0 =>
              {t \in ToSet(tail(rows, want)) : t > 0} =
                {t \in ToSet(rows) : t > 0 /\ Last(rows) - t <= want}
<1> DEFINE n    == Len(rows)
           last == rows[n]
           near == {i \in 1 .. (n - 1) : Synced(rows, i) /\ last - rows[i] <= want}
           from == IF last > 0 THEN (IF near = {} THEN n ELSE Min(near))
                               ELSE Max({0, n - want}) + 1
           kept == SubSeq(rows, from, n)
<1>1. n \in Nat /\ DOMAIN rows = 1 .. n /\ \A i \in 1 .. n : rows[i] \in Nat
  BY ElementOfSeq, LenProperties
<1>2. CASE n = 0
  <2>1. rows = << >>
    BY <1>2, EmptySeq
  <2>2. tail(rows, want) = rows
    BY <1>2 DEF tail
  <2> QED
    BY <2>1, <2>2
<1>3. CASE n # 0
  <2>1. tail(rows, want) = kept
    BY <1>3 DEF tail
  <2>2. near # {} => /\ Min(near) \in 1 .. (n - 1) /\ Synced(rows, Min(near))
                     /\ last - rows[Min(near)] <= want
                     /\ \A i \in near : Min(near) <= i
    <3>1. near \subseteq Nat
      BY <1>1
    <3>2. ASSUME near # {} PROVE Min(near) \in near /\ \A i \in near : Min(near) <= i
      <4> HIDE DEF near
      <4> QED
        BY <3>1, <3>2, LeastOf
    <3> QED
      BY <3>2
  <2>3. from \in 1 .. n
    <3>1. CASE last > 0
      BY <1>1, <1>3, <2>2, <3>1
    <3>2. CASE ~ (last > 0)
      <4>1. 0 \in Int /\ n - want \in Int
        BY <1>1
      <4>2. Max({0, n - want}) \in {0, n - want} /\ 0 <= Max({0, n - want})
        BY <4>1, MaxOf
      <4>3. Max({0, n - want}) \in 0 .. (n - 1)
        BY <1>1, <1>3, <4>2
      <4> QED
        BY <1>1, <3>2, <4>3
    <3> QED
      BY <3>1, <3>2
  <2> HIDE DEF from
  <2>4. /\ kept \in Seq(Nat) /\ DOMAIN kept = 1 .. (n - from + 1)
        /\ \A i \in 1 .. (n - from + 1) : kept[i] = rows[from + i - 1]
    <3>1. from \in Int /\ n \in Int /\ \A i \in from .. n : rows[i] \in Nat
      BY <1>1, <2>3
    <3>2. /\ kept \in Seq(Nat)
          /\ Len(kept) = IF from <= n THEN n - from + 1 ELSE 0
          /\ \A i \in 1 .. n - from + 1 : kept[i] = rows[from + i - 1]
      BY <3>1, SubSeqProperties
    <3>3. DOMAIN kept = 1 .. Len(kept)
      BY <3>2, LenProperties
    <3> QED
      BY <1>1, <2>3, <3>2, <3>3
  <2> HIDE DEF kept
  <2>5. Ordered(kept)
    <3>1. ASSUME NEW i \in 1 .. (n - from + 1), NEW j \in 1 .. (n - from + 1),
                 i < j, kept[i] > 0, kept[j] > 0
          PROVE  kept[i] < kept[j]
      <4>1. /\ from + i - 1 \in 1 .. n /\ from + j - 1 \in 1 .. n
            /\ from + i - 1 < from + j - 1
        BY <1>1, <2>3, <3>1
      <4> QED
        BY <1>1, <2>4, <3>1, <4>1 DEF Ordered, Synced
    <3> QED
      BY <2>4, <3>1 DEF Ordered, Synced
  <2>6. ASSUME last > 0
        PROVE  {t \in ToSet(kept) : t > 0} = {t \in ToSet(rows) : t > 0 /\ last - t <= want}
    <3>1. from = IF near = {} THEN n ELSE Min(near)
      BY <2>6 DEF from
    <3>2. \A i \in 1 .. n : Synced(rows, i) => rows[i] <= last
      <4>1. TAKE i \in 1 .. n
      <4>2. n \in 1 .. n
        BY <1>1, <1>3
      <4>3. CASE i = n
        BY <1>1, <4>1, <4>2, <4>3
      <4>4. CASE i # n
        <5>1. i < n
          <6>1. n \in Nat /\ i \in 1 .. n
            BY <1>1, <4>1
          <6> HIDE DEF n
          <6> QED
            BY <4>4, <6>1
        <5> QED
          BY <1>1, <2>6, <4>1, <4>2, <5>1 DEF Ordered, Synced
      <4> QED
        BY <4>3, <4>4
    <3>3. ASSUME NEW i \in 1 .. n, rows[i] > 0
          PROVE  i >= from <=> last - rows[i] <= want
      <4>1. CASE i = n
        BY <1>1, <2>3, <4>1
      <4>2. CASE i # n /\ near = {}
        <5>1. i \in 1 .. (n - 1) /\ from = n
          <6>1. n \in Nat /\ i \in 1 .. n /\ from = n
            BY <1>1, <3>1, <3>3, <4>2
          <6> HIDE DEF n
          <6> QED
            BY <4>2, <6>1
        <5>2. ~ (last - rows[i] <= want)
          BY <3>3, <4>2, <5>1 DEF Synced
        <5> QED
          BY <1>1, <5>1, <5>2
      <4>3. CASE i # n /\ near # {}
        <5>0. n \in Nat /\ i \in 1 .. n /\ from = Min(near)
          BY <1>1, <3>1, <3>3, <4>3
        <5>1. /\ i \in 1 .. (n - 1) /\ from = Min(near) /\ from \in 1 .. (n - 1)
              /\ rows[from] > 0 /\ last - rows[from] <= want
              /\ \A j \in near : from <= j
          <6> HIDE DEF n, near
          <6>1. i \in 1 .. (n - 1)
            BY <4>3, <5>0
          <6> QED
            BY <2>2, <4>3, <5>0, <6>1 DEF Synced
        <5>2. i >= from => rows[i] >= rows[from]
          <6>1. CASE i = from
            BY <1>1, <6>1
          <6>2. CASE i > from
            <7>1. from \in 1 .. n /\ from < i
              BY <1>1, <5>1, <6>2
            <7>2. rows[from] < rows[i]
              BY <1>1, <3>3, <5>1, <7>1 DEF Ordered, Synced
            <7> QED
              BY <1>1, <3>3, <7>1, <7>2
          <6> QED
            BY <1>1, <5>1, <6>1, <6>2
        <5>3. last \in Nat /\ rows[i] \in Nat /\ rows[from] \in Nat
          BY <1>1, <1>3, <5>1
        <5>4. i >= from => last - rows[i] <= want
          BY <5>1, <5>2, <5>3, SMTT(30)
        <5>5. last - rows[i] <= want => i >= from
          <6>1. last - rows[i] <= want => i \in near
            BY <3>3, <5>1 DEF Synced
          <6> QED
            BY <5>1, <6>1
        <5> QED
          BY <5>4, <5>5
      <4> QED
        BY <4>1, <4>2, <4>3
    <3>4. ToSet(rows) = {rows[i] : i \in 1 .. n}
      BY <1>1 DEF ToSet
    <3>5. ToSet(kept) = {rows[i] : i \in from .. n}
      <4>1. ToSet(kept) = {kept[i] : i \in 1 .. (n - from + 1)}
        BY <2>4 DEF ToSet
      <4>2. \A i \in from .. n : i - from + 1 \in 1 .. (n - from + 1) /\ kept[i - from + 1] = rows[i]
        <5>1. TAKE i \in from .. n
        <5>2. i - from + 1 \in 1 .. (n - from + 1) /\ from + (i - from + 1) - 1 = i
          BY <1>1, <2>3
        <5> QED
          BY <2>4, <5>2
      <4>3. \A i \in 1 .. (n - from + 1) : from + i - 1 \in from .. n
        BY <1>1, <2>3
      <4>4. {rows[i] : i \in from .. n} \subseteq {kept[i] : i \in 1 .. (n - from + 1)}
        BY <4>2
      <4>5. {kept[i] : i \in 1 .. (n - from + 1)} \subseteq {rows[i] : i \in from .. n}
        BY <2>4, <4>3
      <4> QED
        BY <4>1, <4>4, <4>5
    <3>6. \A i \in from .. n : i \in 1 .. n
      BY <1>1, <2>3
    <3>7. \A i \in 1 .. n : i \in from .. n <=> i >= from
      BY <1>1, <2>3
    <3> HIDE DEF last
    <3> QED
      BY <3>3, <3>4, <3>5, <3>6, <3>7
  <2> QED
    BY <2>1, <2>4, <2>5, <2>6 DEF Last
<1> QED
  BY <1>2, <1>3

(* The pinned row, when there is one, is a stamped row within a step and a     *)
(* half of the pin, and the row pinned is the one found again.               *)
LEMMA PinnedIs ==
  ASSUME NEW rows \in Seq(Nat), Ordered(rows)
  PROVE  /\ pinnedRow(rows, 0) = 0
         /\ \A pin \in Nat : pinnedRow(rows, pin) # 0 =>
              LET k == pinnedRow(rows, pin)
              IN  /\ k \in DOMAIN rows /\ rows[k] > 0
                  /\ 2 * (IF rows[k] > pin THEN rows[k] - pin ELSE pin - rows[k])
                       <= 3 * medianStep(rows)
         /\ \A i \in DOMAIN rows : rows[i] > 0 => pinnedRow(rows, rows[i]) = i
<1> DEFINE off(i, pin) == IF rows[i] > pin THEN rows[i] - pin ELSE pin - rows[i]
           near(pin) == {i \in DOMAIN rows : Synced(rows, i) /\ 2 * off(i, pin) <= 3 * medianStep(rows)
                            /\ \A j \in DOMAIN rows : Synced(rows, j) => off(i, pin) <= off(j, pin)}
<1>1. /\ Len(rows) \in Nat /\ DOMAIN rows = 1 .. Len(rows)
      /\ \A i \in DOMAIN rows : i \in Nat \ {0} /\ rows[i] \in Nat
  BY ElementOfSeq, LenProperties
<1>2. \A pin : pinnedRow(rows, pin) = IF pin = 0 \/ near(pin) = {} THEN 0 ELSE Min(near(pin))
  BY DEF pinnedRow
<1>3. ASSUME NEW pin \in Nat, near(pin) # {} PROVE Min(near(pin)) \in near(pin)
  <2>1. near(pin) \subseteq Nat
    BY <1>1
  <2> HIDE DEF near
  <2> QED
    BY <1>3, <2>1, LeastOf
<1>4. ASSUME NEW pin \in Nat, pinnedRow(rows, pin) # 0
      PROVE  LET k == pinnedRow(rows, pin)
             IN  /\ k \in DOMAIN rows /\ rows[k] > 0
                 /\ 2 * off(k, pin) <= 3 * medianStep(rows)
  BY <1>2, <1>3, <1>4 DEF Synced
<1>5. ASSUME NEW i \in DOMAIN rows, rows[i] > 0 PROVE pinnedRow(rows, rows[i]) = i
  <2>1. \A j \in DOMAIN rows : off(j, rows[i]) \in Nat
    BY <1>1
  <2>2. off(i, rows[i]) = 0
    BY <1>1
  <2>3. \A j \in DOMAIN rows : off(j, rows[i]) = 0 => rows[j] = rows[i]
    BY <1>1
  <2>4. ASSUME NEW j \in DOMAIN rows, rows[j] = rows[i] PROVE j = i
    <3>1. ~ (i < j) /\ ~ (j < i)
      BY <1>1, <1>5, <2>4 DEF Ordered, Synced
    <3> QED
      BY <1>1, <3>1
  <2>5. medianStep(rows) \in Nat
    BY MedianIs
  <2>6. near(rows[i]) = {i}
    <3>1. i \in near(rows[i])
      <4> HIDE DEF off
      <4> QED
        BY <1>5, <2>1, <2>2, <2>5 DEF Synced
    <3>2. ASSUME NEW j \in near(rows[i]) PROVE j = i
      <4>1. j \in DOMAIN rows /\ off(j, rows[i]) <= off(i, rows[i])
        BY <1>5 DEF Synced
      <4>2. off(j, rows[i]) = 0
        <5> HIDE DEF off
        <5> QED
          BY <2>1, <2>2, <4>1
      <4> QED
        BY <2>3, <2>4, <4>1, <4>2
    <3> HIDE DEF near
    <3> QED
      BY <3>1, <3>2
  <2>7. Min(near(rows[i])) = i
    <3>1. rows[i] \in Nat
      BY <1>1
    <3> HIDE DEF near
    <3> QED
      BY <1>3, <2>6, <3>1
  <2>8. near(rows[i]) # {} /\ rows[i] # 0
    <3>1. rows[i] # 0
      BY <1>1, <1>5
    <3> HIDE DEF near
    <3> QED
      BY <2>6, <3>1
  <2> HIDE DEF near
  <2> QED
    BY <1>2, <2>7, <2>8
<1> QED
  BY <1>2, <1>4, <1>5

-----------------------------------------------------------------------------
(* Sequences of sequences.                                                  *)

(* A sequence but its last, and its last.                                   *)
LEMMA FrontLast ==
  ASSUME NEW T, NEW s \in Seq(T), s # << >>
  PROVE  /\ Front(s) \in Seq(T) /\ Last(s) \in T /\ s = Append(Front(s), Last(s))
         /\ Len(s) \in Nat \ {0} /\ Len(Front(s)) = Len(s) - 1
         /\ \A i \in 1 .. (Len(s) - 1) : Front(s)[i] = s[i]
<1>1. /\ Len(s) \in Nat \ {0} /\ \A i \in 1 .. Len(s) : s[i] \in T
  BY EmptySeq, ElementOfSeq
<1>2. Last(s) \in T
  BY <1>1 DEF Last
<1>3. /\ Front(s) \in Seq(T) /\ Len(Front(s)) = Len(s) - 1
      /\ \A i \in 1 .. (Len(s) - 1) : Front(s)[i] = s[i]
  <2> DEFINE L == Len(s)
  <2>1. 1 \in Int /\ L - 1 \in Int /\ \A i \in 1 .. (L - 1) : s[i] \in T
    BY <1>1
  <2>2. /\ SubSeq(s, 1, L - 1) \in Seq(T)
        /\ Len(SubSeq(s, 1, L - 1)) = IF 1 <= L - 1 THEN L - 1 - 1 + 1 ELSE 0
        /\ \A i \in 1 .. (L - 1 - 1 + 1) : SubSeq(s, 1, L - 1)[i] = s[1 + i - 1]
    BY <2>1, SubSeqProperties
  <2>3. L \in Nat \ {0}
    BY <1>1
  <2>4. Front(s) = SubSeq(s, 1, L - 1)
    BY DEF Front
  <2> HIDE DEF L
  <2>5. (IF 1 <= L - 1 THEN L - 1 - 1 + 1 ELSE 0) = L - 1 /\ L - 1 - 1 + 1 = L - 1
    BY <2>3
  <2>6. \A i \in 1 .. (L - 1) : 1 + i - 1 = i
    BY <2>3
  <2>7. /\ Front(s) \in Seq(T) /\ Len(Front(s)) = L - 1
        /\ \A i \in 1 .. (L - 1) : Front(s)[i] = s[i]
    BY <2>2, <2>4, <2>5, <2>6
  <2> QED
    BY <2>7 DEF L
<1>4. s = Append(Front(s), Last(s))
  <2> DEFINE a == Append(Front(s), Last(s))
             L == Len(s)
             f == Front(s)
             e == Last(s)
  <2>1. /\ f \in Seq(T) /\ e \in T /\ Len(f) = L - 1 /\ L \in Nat \ {0} /\ e = s[L]
        /\ \A i \in 1 .. (L - 1) : f[i] = s[i]
    BY <1>1, <1>2, <1>3 DEF Last
  <2> HIDE DEF L, f, e
  <2>2. /\ Append(f, e) \in Seq(T) /\ Len(Append(f, e)) = Len(f) + 1
        /\ \A i \in 1 .. Len(f) : Append(f, e)[i] = f[i]
        /\ Append(f, e)[Len(f) + 1] = e
    BY <2>1, AppendProperties
  <2>3. L - 1 + 1 = L /\ \A i \in 1 .. L : i \in 1 .. (L - 1) \/ i = L
    BY <2>1
  <2>4. Len(Append(f, e)) = L /\ \A i \in 1 .. L : Append(f, e)[i] = s[i]
    BY <2>1, <2>2, <2>3
  <2>5. Append(f, e) = s
    BY <2>2, <2>4, SeqEqual DEF L
  <2> QED
    BY <2>5 DEF f, e
<1> QED
  BY <1>1, <1>2, <1>3, <1>4

(* What is put together sequence by sequence is the flattened sequence.      *)
LEMMA FlattenIs ==
  ASSUME NEW T, NEW ss \in Seq(Seq(T)), NEW F \in [0 .. Len(ss) -> Seq(T)],
         F[0] = << >>, \A k \in 1 .. Len(ss) : F[k] = F[k - 1] \o ss[k]
  PROVE  FlattenSeq(ss) = F[Len(ss)]
<1> DEFINE L == Len(ss)
           flatten == CHOOSE f : f = [i \in 1 .. Len(ss) |-> IF i = 1 THEN ss[i] ELSE f[i - 1] \o ss[i]]
<1>1. L \in Nat /\ \A i \in 1 .. L : ss[i] \in Seq(T)
  BY ElementOfSeq, LenProperties
<1>2. CASE L = 0
  BY <1>2, EmptySeq DEF FlattenSeq
<1>3. CASE L # 0
  <2>1. FlattenSeq(ss) = flatten[L]
    BY <1>3 DEF FlattenSeq
  <2> DEFINE f == [i \in 1 .. L |-> F[i]]
  <2>2. f = [i \in 1 .. L |-> IF i = 1 THEN ss[i] ELSE f[i - 1] \o ss[i]]
    <3>1. ASSUME NEW i \in 1 .. L
          PROVE  F[i] = IF i = 1 THEN ss[i] ELSE f[i - 1] \o ss[i]
      <4>1. CASE i = 1
        <5>1. F[1] = F[0] \o ss[1]
          <6>1. 1 \in 1 .. L /\ 1 - 1 = 0
            BY <1>1, <1>3
          <6> QED
            BY <6>1
        <5>2. << >> \o ss[1] = ss[1]
          BY <1>1, <1>3, ConcatEmptySeq
        <5> QED
          BY <4>1, <5>1, <5>2
      <4>2. CASE i # 1
        <5>1. i - 1 \in 1 .. L
          BY <1>1, <3>1, <4>2
        <5>2. f[i - 1] = F[i - 1]
          BY <5>1
        <5> QED
          BY <3>1, <4>2, <5>2
      <4> QED
        BY <4>1, <4>2
    <3> QED
      BY <3>1
  <2>3. flatten = [i \in 1 .. L |-> IF i = 1 THEN ss[i] ELSE flatten[i - 1] \o ss[i]]
    <3> HIDE DEF f
    <3> QED
      BY <2>2
  <2> HIDE DEF flatten, f
  <2>4. \A i \in 1 .. L : flatten[i] = IF i = 1 THEN ss[i] ELSE flatten[i - 1] \o ss[i]
    <3> DEFINE step(i) == IF i = 1 THEN ss[i] ELSE flatten[i - 1] \o ss[i]
    <3>1. \A i \in 1 .. L : flatten[i] = step(i)
      BY <2>3, Zenon
    <3> QED
      BY <3>1
  <2> HIDE DEF L
  <2> DEFINE P == {k \in Nat : k + 1 <= L => flatten[k + 1] = F[k + 1]}
  <2>5. 1 \in 1 .. L /\ F[1] = ss[1] /\ flatten[1] = ss[1]
    <3>1. 1 \in 1 .. L /\ 1 - 1 = 0
      BY <1>1, <1>3
    <3>2. F[1] = F[0] \o ss[1]
      <4>1. 1 \in 1 .. Len(ss)
        BY <3>1 DEF L
      <4> QED
        BY <3>1, <4>1
    <3>3. << >> \o ss[1] = ss[1]
      BY <1>1, <3>1, ConcatEmptySeq
    <3> QED
      BY <2>4, <3>1, <3>2, <3>3
  <2>6. 0 \in P
    BY <2>5
  <2>7. ASSUME NEW k \in Nat, k \in P PROVE k + 1 \in P
    <3>0. k + 1 \in Nat
      BY <2>7
    <3>1. CASE (k + 1) + 1 <= L
      <4>1. /\ k + 1 <= L /\ (k + 1) + 1 \in 1 .. L /\ (k + 1) + 1 # 1
            /\ ((k + 1) + 1) - 1 = k + 1
        BY <1>1, <3>1
      <4>2. flatten[(k + 1) + 1] = flatten[k + 1] \o ss[(k + 1) + 1]
        BY <2>4, <4>1
      <4>3. F[(k + 1) + 1] = F[k + 1] \o ss[(k + 1) + 1]
        <5>1. (k + 1) + 1 \in 1 .. Len(ss)
          BY <4>1 DEF L
        <5> QED
          BY <4>1, <5>1
      <4>4. flatten[k + 1] = F[k + 1]
        BY <2>7, <4>1
      <4> QED
        BY <3>0, <4>2, <4>3, <4>4
    <3>2. CASE ~ ((k + 1) + 1 <= L)
      BY <3>0, <3>2
    <3> QED
      BY <3>1, <3>2
  <2>8. L - 1 \in P
    <3>1. L - 1 \in Nat
      BY <1>1, <1>3
    <3> HIDE DEF P
    <3> QED
      BY <2>6, <2>7, <3>1, Climbs
  <2>9. (L - 1) + 1 = L
    BY <1>1
  <2> QED
    BY <1>1, <2>1, <2>8, <2>9 DEF L
<1> QED
  BY <1>2, <1>3

(* One more sequence is put at the end.                                      *)
LEMMA FlattenAppend ==
  ASSUME NEW T, NEW ss \in Seq(Seq(T)), NEW s \in Seq(T)
  PROVE  /\ FlattenSeq(ss) \in Seq(T)
         /\ FlattenSeq(Append(ss, s)) = FlattenSeq(ss) \o s
<1> DEFINE L   == Len(ss)
           all == Append(ss, s)
           S   == Seq(T)
           g   == [p \in S \X Nat |-> IF p[2] \in 1 .. (L + 1) THEN p[1] \o all[p[2]] ELSE p[1]]
<1>1. /\ L \in Nat /\ all \in Seq(Seq(T)) /\ Len(all) = L + 1
      /\ \A i \in 1 .. L : all[i] = ss[i] /\ ss[i] \in S
      /\ all[L + 1] = s
  BY ElementOfSeq, LenProperties, AppendProperties
<1> HIDE DEF all, L
<1>2. \A i \in 1 .. (L + 1) : all[i] \in S
  BY <1>1, ElementOfSeq
<1>3. g \in [S \X Nat -> S]
  <2>1. \A r \in S, i \in 1 .. (L + 1) : r \o all[i] \in S
    BY <1>2, ConcatProperties
  <2> HIDE DEF S
  <2> QED
    BY <2>1
<1>4. << >> \in S /\ L + 1 \in Nat
  BY <1>1, EmptySeq
<1>5. PICK F \in [0 .. (L + 1) -> S] :
         F[0] = << >> /\ \A k \in 1 .. (L + 1) : F[k] = g[<<F[k - 1], k>>]
  <2> DEFINE m == L + 1
             e == << >>
  <2>1. m \in Nat /\ e \in S
    BY <1>4
  <2> HIDE DEF g, S, m, e
  <2>2. \E F : SweepOf(F, S, g, e, m)
    BY <1>3, <2>1, SweepExists
  <2> QED
    BY <2>2 DEF m, e, SweepOf
<1>6. \A k \in 1 .. (L + 1) : F[k] = F[k - 1] \o all[k]
  <2> TAKE k \in 1 .. (L + 1)
  <2>1. k - 1 \in 0 .. (L + 1) /\ k \in Nat
    BY <1>1
  <2>2. F[k - 1] \in S
    BY <2>1
  <2>3. g[<<F[k - 1], k>>] = F[k - 1] \o all[k]
    <3> HIDE DEF S
    <3> QED
      BY <2>1, <2>2
  <2> QED
    BY <1>5, <2>3
<1>7. FlattenSeq(all) = F[L + 1]
  <2>1. /\ F \in [0 .. Len(all) -> Seq(T)] /\ F[0] = << >>
        /\ \A k \in 1 .. Len(all) : F[k] = F[k - 1] \o all[k]
    BY <1>1, <1>5, <1>6
  <2> HIDE DEF g
  <2>2. FlattenSeq(all) = F[Len(all)]
    BY <1>1, <2>1, FlattenIs
  <2> QED
    BY <1>1, <2>2
<1>8. FlattenSeq(ss) = F[L]
  <2> DEFINE G == [k \in 0 .. L |-> F[k]]
  <2>1. \A k \in 0 .. L : k \in 0 .. (L + 1)
    BY <1>1
  <2>2. G \in [0 .. L -> S] /\ \A k \in 0 .. L : G[k] = F[k]
    BY <2>1
  <2>3. 0 \in 0 .. L /\ L \in 0 .. L
        /\ \A k \in 1 .. L : k \in 0 .. L /\ k - 1 \in 0 .. L /\ k \in 1 .. (L + 1)
    BY <1>1
  <2> HIDE DEF G, g
  <2>4. G[0] = << >> /\ \A k \in 1 .. L : G[k] = G[k - 1] \o ss[k]
    BY <1>1, <1>5, <1>6, <2>2, <2>3
  <2>5. FlattenSeq(ss) = G[L]
    BY <2>2, <2>4, FlattenIs DEF L
  <2> QED
    BY <2>2, <2>3, <2>5
<1>9. L \in 0 .. (L + 1) /\ L + 1 \in 1 .. (L + 1) /\ (L + 1) - 1 = L
  BY <1>1
<1>10. F[L + 1] = F[L] \o s
  BY <1>1, <1>6, <1>9
<1>11. F[L] \in Seq(T)
  BY <1>5, <1>9
<1> QED
  BY <1>7, <1>8, <1>10, <1>11 DEF all
=============================================================================
